---------------------------- MODULE MCServerLink ----------------------------
(***************************************************************************)
(* Instances of ServerLink for TLC.                                        *)
(***************************************************************************)
EXTENDS ServerLink

Budget(cmd, close, reset, refuse, down) ==
  [cmd |-> cmd, close |-> close, reset |-> reset, refuse |-> refuse, down |-> down]

AnyLimit   == Budget(3, 1, 1, 1, 1)
CloseLimit == Budget(2, 1, 0, 0, 0)
PlainLimit == Budget(2, 0, 0, 0, 0)
=============================================================================
