-------------------------- MODULE VersionFallback --------------------------
(***************************************************************************)
(* The version fallback of mupgrade_check.c: a task that counts, before    *)
(* anything else, how often the device has restarted in short succession,  *)
(* and goes back to the image in the other slot when it was too often.     *)
(*                                                                         *)
(*   running, boot  the slot the device runs from, and will start          *)
(*   image[s]   what is in slot s: "good"; "bad", an image that starts and *)
(*              panics before CONFIG_MUPGRADE_RESTART_TIMEOUT; "broken",   *)
(*              none that verifies                                         *)
(*   count      "mupgrade_count" in NVS, 0 when erased                     *)
(*   reason     whether rtc_get_reset_reason says "power" or "soft"        *)
(*   at         where mupgrade_version_fallback_task is                    *)
(*   timer      restart_count_erase runs                                   *)
(* For the properties: quick, how many starts in a row, this one included, *)
(* ended before the timeout, the first one perhaps by power, counted up to *)
(* RestartCount; missed, that a count was not saved, or that of a start by *)
(* power not before the next reset.                                        *)
(***************************************************************************)
EXTENDS Integers

CONSTANT RestartCount    \* CONFIG_MUPGRADE_RESTART_COUNT (10)

VARIABLES running, boot, image, count, reason, at, timer, quick, missed

slots == <<running, boot, image>>
fallbackVars == <<slots, count, reason, at, timer, quick, missed>>

Slot == 0 .. 1
Other(s) == 1 - s

\* A device as it is delivered; the other slot may hold an older image.
FallbackInit ==
  /\ running = 0 /\ boot = 0
  /\ image \in [Slot -> {"good", "bad", "broken"}] /\ image[0] = "good"
  /\ count = 0 /\ reason = "power" /\ at = "count" /\ timer = FALSE
  /\ quick = 1 /\ missed = FALSE

----------------------------------------------------------------------------
(* restart_trigger *)

\* Mutant: only what the timer erases starts the count again.
FirstNever == 1 + count

First == IF reason = "power" THEN 1 ELSE count + 1

Counted ==
  /\ at = "count"
  /\ count' = First
  /\ at' = "test"
  /\ UNCHANGED <<slots, reason, timer, quick, missed>>

\* It cannot be saved: no timer is started.
NotSaved ==
  /\ at = "count"
  /\ at' = "over" /\ missed' = TRUE
  /\ UNCHANGED <<slots, count, reason, timer, quick>>

\* Mutant: the count is erased in any case.
ErasedAlways == count' = 0

Erased == count' = IF count < RestartCount THEN count ELSE 0

Tested ==
  /\ at = "test"
  /\ timer' = TRUE
  /\ Erased
  /\ at' = IF count < RestartCount THEN "over" ELSE "fall"
  /\ UNCHANGED <<slots, reason, quick, missed>>

(* mupgrade_version_fallback; there is no factory partition. *)
Fallback ==
  /\ at = "fall"
  /\ IF image[Other(running)] = "broken"
       THEN at' = "over" /\ UNCHANGED boot
       ELSE at' = "restart" /\ boot' = Other(running)
  /\ UNCHANGED <<running, image, count, reason, timer, quick, missed>>

\* The device has run for as long as the timeout; restart_count_erase_timercb
Settles ==
  /\ at = "over" /\ image[running] = "good"
  /\ timer \/ quick > 0
  /\ quick' = 0
  /\ timer' = FALSE
  /\ count' = IF timer THEN 0 ELSE count
  /\ UNCHANGED <<slots, reason, at, missed>>

----------------------------------------------------------------------------
(* Outside the task *)

\* A reset, by "power", which the watchdog chip looks like, or "soft".
Starts(kind) ==
  /\ running' = IF image[boot] = "broken" THEN Other(boot) ELSE boot
  /\ reason' = kind /\ at' = "count" /\ timer' = FALSE
  /\ quick' = IF kind = "power" THEN 1 ELSE IF quick < RestartCount THEN quick + 1 ELSE quick
  /\ missed' = (missed \/ (at = "count" /\ reason = "power"))
  /\ UNCHANGED <<boot, image, count>>

\* mupgrade_node.c erases the other slot, and later boots what it wrote there.
Erases ==
  /\ at = "over" /\ image[running] = "good" /\ image[Other(running)] # "broken"
  /\ image' = [image EXCEPT ![Other(running)] = "broken"]
  /\ UNCHANGED <<running, boot, count, reason, at, timer, quick, missed>>

Upgrades(new) ==
  /\ at = "over" /\ image[Other(running)] = "broken"
  /\ image' = [image EXCEPT ![Other(running)] = new]
  /\ boot' = Other(running)
  /\ UNCHANGED <<running, count, reason, at, timer, quick, missed>>
=============================================================================
