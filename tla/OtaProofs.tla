------------------------------ MODULE OtaProofs ------------------------------
(***************************************************************************)
(* An upgrade for the server (OtaService), for any devices, firmware,      *)
(* number of attempts and number of commands.                              *)
(***************************************************************************)
EXTENDS OtaService, TLAPS

\* What keeps a second command from changing the name is not the flag it is
\* refused by, but that it is not read: the other flag holds the tasks back.
NameInv == busy => gate /\ name = job.fw

LEMMA NameStep ==
  ASSUME NameInv, [Next]_vars
  PROVE  NameInv'
<1> USE DEF NameInv
<1>1. CASE MeshTakesOta
  BY <1>1 DEF MeshTakesOta, Held
<1>2. CASE UNCHANGED <<busy, gate, name, job>>
  BY <1>2
<1>3. CASE Report
  BY <1>3 DEF Report
<1>4. ASSUME [Next]_vars, ~MeshTakesOta, ~Report
      PROVE  UNCHANGED <<busy, gate, name, job>>
  BY <1>4
     DEF Next, vars, taskVars, ServerSends, TcpRead, MeshTakesOther, MeshReads, Idle,
         HttpOpen, HttpAbandoned, DownloadFails, Downloaded, SendBegins, SendRefused,
         SendEnds, Answer, OtaStep
<1> QED
  BY <1>1, <1>2, <1>3, <1>4

\* root_do_ota overwrites the name before it looks whether an upgrade runs; it
\* stays that of the upgrade all the same.
THEOREM NameAlwaysKept == Spec => []NameKept
<1>1. Init => NameInv
  BY DEF Init, NameInv
<1>2. NameInv /\ [Next]_vars => NameInv'
  BY NameStep
<1>3. NameInv => NameKept
  BY DEF NameInv, NameKept
<1> QED
  BY <1>1, <1>2, <1>3, PTL DEF Spec
=============================================================================
