--------------------------- MODULE MCRestartMesh ---------------------------
(***************************************************************************)
(* Instances of RestartMesh for TLC: addresses of two bytes.               *)
(***************************************************************************)
EXTENDS RestartMesh

Addresses == { <<1, 1>>, <<1, 2>>, <<3, 3>> }
RootMac   == <<3, 3>>
InMesh    == { <<1, 1>> }

Budget(lose, block, join, command, restart) ==
  [lose |-> lose, block |-> block, join |-> join, command |-> command, restart |-> restart]

AnyLimit == Budget(1, 1, 2, 1, 1)
=============================================================================
