----------------------------- MODULE MCRegistry -----------------------------
(***************************************************************************)
(* Instances of Registry for TLC.                                          *)
(***************************************************************************)
EXTENDS Registry

Budget(join, leave, lose, unread, refuse, break) ==
  [join |-> join, leave |-> leave, lose |-> lose, unread |-> unread,
   refuse |-> refuse, break |-> break]

AnyLimit    == Budget(3, 2, 1, 1, 1, 1)
LateLimit   == Budget(1, 1, 0, 0, 0, 0)
RejoinLimit == Budget(2, 1, 0, 0, 0, 0)
=============================================================================
