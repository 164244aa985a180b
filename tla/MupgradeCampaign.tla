-------------------------- MODULE MupgradeCampaign --------------------------
(***************************************************************************)
(* What mupgrade_firmware_send promises its caller, without rounds,        *)
(* messages, progress or flash cells: a campaign is started for a set of   *)
(* devices, reports as succeeded only devices that hold the image, and     *)
(* never takes a report back before the next campaign.                     *)
(***************************************************************************)
CONSTANTS Device

VARIABLES
  active,         \* a campaign is under way
  pending,        \* mupgrade_result_t.unfinished_addr
  done,           \* mupgrade_result_t.successed_addr
  holds           \* the devices that hold the whole image

vars == <<active, pending, done, holds>>

\* A device may hold the image before any campaign.
Init ==
  /\ active = FALSE
  /\ pending = {} /\ done = {}
  /\ holds \subseteq Device

Begin(T) ==
  /\ ~active
  /\ active' = TRUE
  /\ pending' = T /\ done' = {}
  /\ UNCHANGED holds

\* A device comes to hold the whole image.
Install(n) ==
  /\ holds' = holds \cup {n}
  /\ UNCHANGED <<active, pending, done>>

\* A device that nobody was told about may lose it again: a reset makes it
\* forget that it has the image, and the next request erases the slot.
Forget(n) ==
  /\ n \notin done
  /\ holds' = holds \ {n}
  /\ UNCHANGED <<active, pending, done>>

Report(n) ==
  /\ active
  /\ n \in pending \cap holds
  /\ pending' = pending \ {n}
  /\ done' = done \cup {n}
  /\ UNCHANGED <<active, holds>>

\* A device that stopped its upgrade is no longer waited for.
GiveUp(n) ==
  /\ active
  /\ n \in pending
  /\ pending' = pending \ {n}
  /\ UNCHANGED <<active, done, holds>>

End ==
  /\ active
  /\ active' = FALSE
  /\ UNCHANGED <<pending, done, holds>>

Next ==
  \/ \E T \in SUBSET Device : Begin(T)
  \/ \E n \in Device : Install(n) \/ Forget(n) \/ Report(n) \/ GiveUp(n)
  \/ End

\* What never goes wrong in a campaign.
Safety == Init /\ [][Next]_vars

\* And a campaign ends.
Spec == Safety /\ WF_vars(End)
=============================================================================
