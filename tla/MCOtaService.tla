---------------------------- MODULE MCOtaService ----------------------------
(***************************************************************************)
(* Instances of OtaService for TLC.                                        *)
(***************************************************************************)
EXTENDS OtaService
=============================================================================
