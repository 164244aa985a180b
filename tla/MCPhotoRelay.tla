---------------------------- MODULE MCPhotoRelay ----------------------------
(***************************************************************************)
(* Instances of PhotoRelay for TLC.                                        *)
(***************************************************************************)
EXTENDS PhotoRelay, TLC

Budget(photo, lose, other, ping) ==
  [photo |-> photo, lose |-> lose, other |-> other, ping |-> ping]

WildLimit  == Budget(3, 1, 1, 1)
PlainLimit == Budget(1, 0, 0, 0)
PingLimit  == Budget(1, 0, 0, 1)
LossLimit  == Budget(2, 1, 0, 0)
MixLimit   == Budget(2, 0, 0, 0)
EndLimit   == Budget(2, 2, 0, 0)

Symmetric == Permutations(Node)
=============================================================================
