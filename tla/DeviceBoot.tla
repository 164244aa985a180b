----------------------------- MODULE DeviceBoot -----------------------------
(***************************************************************************)
(* A device from one reset to the next: app_main with the configuration    *)
(* file (SystemConfig) on one core, the version fallback (VersionFallback) *)
(* before and beside it, and the resets that stop both at any step, one of *)
(* them made by the fallback.                                              *)
(***************************************************************************)
EXTENDS SystemConfig

CONSTANT RestartCount

ASSUME RestartAssumption == RestartCount \in Nat \ {0}

VARIABLES running, boot, image, count, reason, at, timer, quick, missed

F == INSTANCE VersionFallback

fallbackVars == <<running, boot, image, count, reason, at, timer, quick, missed>>
bootVars     == <<vars, fallbackVars>>

BootInit == Init /\ F!FallbackInit

Task == (F!Counted \/ F!Tested \/ F!Fallback \/ F!Settles) /\ UNCHANGED vars

NotSaved == F!NotSaved /\ Spend("fail") /\ UNCHANGED <<config, replace, pc, settings, job, handles, ghosts>>

\* system_reboot, the watchdog or the supply
PowerReset == F!Starts("power") /\ Spend("reset") /\ Interrupted

\* A bad image panics when the task is over; any other panic is a fault.
Panics == at = "over" /\ image[running] = "bad"

Panic ==
  /\ F!Starts("soft") /\ Interrupted
  /\ IF Panics THEN UNCHANGED spent ELSE Spend("panic")

\* esp_restart in mupgrade_version_fallback_task
FallbackRestart == at = "restart" /\ F!Starts("soft") /\ Interrupted /\ UNCHANGED spent

Upgrade ==
  /\ pc = "run" /\ Spend("upgrade")
  /\ F!Erases \/ \E new \in {"good", "bad"} : F!Upgrades(new)
  /\ UNCHANGED <<config, replace, pc, settings, job, handles, ghosts>>

BootNext ==
  \/ ConfigNext /\ UNCHANGED fallbackVars
  \/ Task \/ NotSaved
  \/ PowerReset \/ Panic \/ FallbackRestart
  \/ Upgrade

BootSpec == BootInit /\ [][BootNext]_bootVars

\* The task and the timer run, and an image that panics does.
BootFairSpec ==
  /\ BootSpec
  /\ WF_bootVars(Task \/ FallbackRestart)
  /\ WF_bootVars(Panics /\ Panic)

----------------------------------------------------------------------------
(***************************************************************************)
(* The fallback leaves an image only after RestartCount starts in a row of *)
(* which none came to the timeout, whatever resets the device in between:  *)
(* a long run or the supply starts the count again. Provided every count   *)
(* could be saved, and that of a start by the supply was.                  *)
(***************************************************************************)
FallbackEarned ==
  [][at = "fall" /\ boot' # boot /\ ~missed => quick >= RestartCount]_bootVars

(***************************************************************************)
(* An image that panics soon after every start is left for a good one in   *)
(* the other slot, although the resets that lead there wipe the memory and *)
(* some strike while the task counts.                                      *)
(***************************************************************************)
BadLeft ==
  image[running] = "bad" /\ image[F!Other(running)] = "good"
    ~> image[running] = "good"
=============================================================================
