--------------------------- MODULE MCSystemConfig ---------------------------
(***************************************************************************)
(* Instances of DeviceBoot for TLC: three of the seven items, mesh_id with *)
(* a default longer than its field.                                        *)
(***************************************************************************)
EXTENDS DeviceBoot

ThreeItems    == <<"router_ssid", "mesh_id", "run_mode">>
FactoryValues == [router_ssid |-> <<"F">>, mesh_id |-> <<"F", "T">>, run_mode |-> <<"2">>]
FieldSizes    == [router_ssid |-> 3, mesh_id |-> 2, run_mode |-> 2]
UserTexts     == { <<"1">>, <<"x", "y">> }
One           == <<"1">>

Budget(update, reset, panic, fail, upgrade) ==
  [update |-> update, reset |-> reset, panic |-> panic, fail |-> fail, upgrade |-> upgrade]

UsualLimit  == Budget(3, 2, 2, 1, 2)
ResetLimit  == Budget(1, 1, 0, 0, 0)
=============================================================================
