----------------------------- MODULE MCMupgrade -----------------------------
(***************************************************************************)
(* Instances of Mupgrade for TLC.  Image and packet sizes are scaled down: *)
(* a packet is 4 bytes, an image two or three packets.                     *)
(***************************************************************************)
EXTENDS MupgradeRefinement, TLC

CONSTANTS n1, n2, old, fwA, fwB

Images == {old, fwA, fwB}

\* fwA: two whole packets, fwB and old: two packets, the second of 2 bytes.
Sizes == (fwA :> 8) @@ (fwB :> 6) @@ (old :> 6)

\* fwA cut into three packets, the last of 2 bytes.
SizesLong == (fwA :> 10) @@ (fwB :> 6) @@ (old :> 6)

\* fwA cut into five packets, each a fifth of it.
SizesFifths == (fwA :> 20) @@ (fwB :> 6) @@ (old :> 6)

\* fwA cut into four packets, each a quarter of it.
SizesQuarters == (fwA :> 16) @@ (fwB :> 6) @@ (old :> 6)

EveryNode == {Node}

Budget(loss, reboot, fault, nodeStop, rootStop, session) ==
  [loss |-> loss, reboot |-> reboot, fault |-> fault, nodeStop |-> nodeStop,
   rootStop |-> rootStop, session |-> session]

NoLimit       == Budget(0, 0, 0, 0, 0, 1)
LossLimit     == Budget(2, 0, 0, 0, 0, 1)
OneCrashLimit == Budget(0, 1, 0, 0, 0, 1)
FaultLimit    == Budget(1, 1, 1, 1, 1, 2)
TwiceLimit    == Budget(0, 0, 0, 0, 0, 2)
CrashTwice    == Budget(0, 1, 0, 0, 0, 2)
StopLimit     == Budget(0, 0, 0, 0, 1, 1)
LiveLimit     == Budget(0, 1, 0, 0, 1, 2)

Symmetric == Permutations(Node)
=============================================================================
