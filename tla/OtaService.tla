----------------------------- MODULE OtaService -----------------------------
(***************************************************************************)
(* Upgrades on behalf of the server (main/router.c): the OTA command, the  *)
(* task that downloads the firmware, sends it to the devices and reports,  *)
(* and the flag bDeviceOtaFlag that holds the root's two other tasks back. *)
(* mupgrade_firmware_send is what MupgradeCampaign promises of it, with    *)
(* the way of an answer from a device to the root spelled out.             *)
(*                                                                         *)
(*   wire    commands the server has sent (external)                       *)
(*   queue   ServerQueue                                                   *)
(*   gate    bDeviceOtaFlag                                                *)
(*   busy    g_ota_read_task_flag                                          *)
(*   reader  root_ota_read_task runs                                       *)
(*   ota     the next thing ota_task does                                  *)
(*   tries   u8retrycount                                                  *)
(*   name    g_ota_firmware_name, from which url_ota is made               *)
(*   job     what the OTA command asked for                                *)
(*   air     devices whose answer "complete" is on its way to the root     *)
(*   result  upgrade_result                                                *)
(*   replies what the server was told about OTA commands                   *)
(*   handled commands the root has carried out                             *)
(***************************************************************************)
EXTENDS Integers, Sequences, FiniteSets

CONSTANTS
  Device,     \* the devices other than the root
  Root,
  Firmware,
  Tries,      \* attempts to open the connection (20)
  QueueLen,   \* length of ServerQueue (3)
  Timely,     \* TRUE: every device answers before the root gives it up
  CmdLimit    \* commands the server sends

ASSUME TriesAssumption == Tries \in Nat \ {0}

VARIABLES wire, queue, gate, busy, reader, ota, tries, name, job, air, result,
          replies, handled, sent

taskVars == <<busy, reader, ota, tries, job, result>>
vars == <<wire, queue, gate, name, air, replies, handled, sent, taskVars>>

Target == Device \cup {Root}

\* dest = {} stands for u8Number = 0, all devices.
Command ==
  [id : 1 .. CmdLimit, kind : {"ota"}, fw : Firmware, dest : SUBSET Target]
    \cup [id : 1 .. CmdLimit, kind : {"other"}]

NoFw   == "none"
NoJob  == [id |-> 0, fw |-> NoFw, dest |-> {}]
Result == [pending : SUBSET Target, done : SUBSET Target]
Empty  == [pending |-> {}, done |-> {}]

OtaTypeOK ==
  /\ wire \in Seq(Command)
  /\ queue \in Seq(Command) /\ Len(queue) <= QueueLen
  /\ gate \in BOOLEAN /\ busy \in BOOLEAN /\ reader \in BOOLEAN
  /\ ota \in {"none", "open", "download", "send", "wait", "report"}
  /\ tries \in 0 .. Tries
  /\ name \in Firmware \cup {NoFw}
  /\ job \in [id : 0 .. CmdLimit, fw : Firmware \cup {NoFw}, dest : SUBSET Target]
  /\ air \subseteq Target
  /\ result \in Result
  /\ replies \subseteq [id : 1 .. CmdLimit, is : {"updating", "report"}]
  /\ handled \subseteq 1 .. CmdLimit
  /\ sent \in 0 .. CmdLimit

Init ==
  /\ wire = <<>> /\ queue = <<>> /\ sent = 0
  /\ gate = FALSE /\ busy = FALSE /\ reader = FALSE
  /\ ota = "none" /\ tries = 0 /\ name = NoFw /\ job = NoJob
  /\ air \in SUBSET Device    \* answers to an upgrade by an earlier root
  /\ result = Empty
  /\ replies = {} /\ handled = {}

ServerSends(c) ==
  /\ sent < CmdLimit /\ c.id = sent + 1
  /\ sent' = c.id
  /\ wire' = Append(wire, c)
  /\ UNCHANGED <<queue, gate, name, air, replies, handled, taskVars>>

----------------------------------------------------------------------------
(* tcp_client_read_task and root_mesh_read_task *)

\* Mutant: the flag is not looked at.
Open == FALSE

\* Both tasks only wait while an upgrade runs.
Held == gate

TcpRead ==
  /\ ~Held /\ wire # <<>>
  /\ wire' = Tail(wire)
  /\ queue' = IF Len(queue) < QueueLen THEN Append(queue, Head(wire)) ELSE queue
  /\ UNCHANGED <<gate, name, air, replies, handled, sent, taskVars>>

(***************************************************************************)
(* root_do_ota.  The name is copied before the command is refused.  The    *)
(* list of devices is cut at ten (not reached here).                       *)
(***************************************************************************)
MeshTakesOta ==
  /\ ~Held /\ queue # <<>> /\ Head(queue).kind = "ota"
  /\ LET c == Head(queue) IN
     /\ gate' = TRUE
     /\ name' = c.fw
     /\ handled' = handled \cup {c.id}
     /\ IF busy
          THEN /\ replies' = replies \cup {[id |-> c.id, is |-> "updating"]}
               /\ UNCHANGED taskVars
          ELSE /\ job' = [id |-> c.id, fw |-> c.fw, dest |-> c.dest]
               /\ busy' = TRUE /\ reader' = TRUE
               /\ ota' = "open" /\ tries' = 0
               /\ result' = Empty
               /\ UNCHANGED replies
  /\ queue' = Tail(queue)
  /\ UNCHANGED <<wire, air, sent>>

MeshTakesOther ==
  /\ ~Held /\ queue # <<>> /\ Head(queue).kind = "other"
  /\ handled' = handled \cup {Head(queue).id}
  /\ queue' = Tail(queue)
  /\ UNCHANGED <<wire, gate, name, air, replies, sent, taskVars>>

\* mwifi_root_read, and mupgrade_root_handle for an answer to an upgrade.
MeshReads(d) ==
  /\ ~Held /\ d \in air
  /\ air' = air \ {d}
  /\ result' = IF ota = "wait" /\ d \in result.pending
                 THEN [pending |-> result.pending \ {d}, done |-> result.done \cup {d}]
                 ELSE result
  /\ UNCHANGED <<wire, queue, gate, name, replies, handled, sent,
                 busy, reader, ota, tries, job>>

\* The two tasks wait, or find nothing to do.
Idle ==
  /\ Held \/ (wire = <<>> /\ queue = <<>> /\ air = {})
  /\ UNCHANGED vars

----------------------------------------------------------------------------
(* ota_task *)

OtaStep(from, to) ==
  /\ ota = from /\ ota' = to
  /\ UNCHANGED <<wire, queue, gate, name, air, replies, handled, sent,
                 busy, reader, job>>

\* Mutant: the count starts again before the limit.
CountedAnew(n, opened) == IF opened THEN n + 1 ELSE (n + 1) % Tries

Counted(n, opened) == n + 1

\* The last attempt counts as failed whatever it returned.
AfterTry(opened) ==
  IF Counted(tries, opened) = Tries THEN "report"
  ELSE IF opened THEN "download" ELSE "open"

HttpOpen(opened) ==
  /\ OtaStep("open", AfterTry(opened))
  /\ tries' = Counted(tries, opened)
  /\ UNCHANGED result

\* The attempt fails on a device that is no longer the root.
HttpAbandoned == OtaStep("open", "report") /\ UNCHANGED <<tries, result>>

\* No such file, a failed read or a failed write to flash.
DownloadFails == OtaStep("download", "report") /\ UNCHANGED <<tries, result>>

Downloaded == OtaStep("download", "send") /\ UNCHANGED <<tries, result>>

\* The addresses are those of the command, or of the routing table.
SendBegins ==
  /\ OtaStep("send", "wait")
  /\ result' = [Empty EXCEPT !.pending = IF job.dest = {} THEN Target ELSE job.dest]
  /\ UNCHANGED tries

\* More addresses than the mesh has, or no other device.
SendRefused == OtaStep("send", "report") /\ UNCHANGED <<tries, result>>

\* A device holds the image and says so; the root's own part of the upgrade
\* runs in root_ota_read_task.
Answer(d) ==
  /\ ota = "wait" /\ d \in result.pending \ air
  /\ d = Root => reader
  /\ air' = air \cup {d}
  /\ UNCHANGED <<wire, queue, gate, name, replies, handled, sent, taskVars>>

\* Bound: with Timely, an answer that can be read is read before the root's
\* last retry ends.
SendEnds ==
  /\ OtaStep("wait", "report")
  /\ Timely => result.pending \subseteq (IF Held THEN air ELSE {})
  /\ UNCHANGED <<tries, result>>

(***************************************************************************)
(* The report is sent; the task deletes itself before it reaches the       *)
(* assignment to bDeviceOtaFlag.                                           *)
(***************************************************************************)
Report ==
  /\ ota = "report" /\ ota' = "none"
  /\ replies' = replies \cup {[id |-> job.id, is |-> "report"]}
  /\ busy' = FALSE
  /\ UNCHANGED <<wire, queue, gate, name, air, handled, sent, reader, tries, job,
                 result>>

OtaTask ==
  \/ \E opened \in BOOLEAN : HttpOpen(opened)
  \/ Downloaded \/ DownloadFails
  \/ SendBegins \/ SendRefused \/ SendEnds
  \/ Report

Next ==
  \/ \E c \in Command : ServerSends(c)
  \/ TcpRead \/ MeshTakesOta \/ MeshTakesOther
  \/ \E d \in Target : MeshReads(d)
  \/ Idle
  \/ \E opened \in BOOLEAN : HttpOpen(opened)
  \/ HttpAbandoned
  \/ DownloadFails \/ Downloaded \/ SendBegins \/ SendRefused
  \/ \E d \in Target : Answer(d)
  \/ SendEnds
  \/ Report

Spec == Init /\ [][Next]_vars

\* The tasks run, every attempt to connect returns, the devices answer.
FairSpec ==
  /\ Spec
  /\ WF_vars(TcpRead)
  /\ WF_vars(MeshTakesOta \/ MeshTakesOther)
  /\ WF_vars(OtaTask)
  /\ \A d \in Target : WF_vars(MeshReads(d)) /\ WF_vars(Answer(d))

----------------------------------------------------------------------------
(***************************************************************************)
(* While a firmware is looked up, downloaded and sent, its name and its    *)
(* address stay those of the command that started the upgrade, although    *)
(* root_do_ota overwrites both before it looks whether one runs.           *)
(***************************************************************************)
NameKept == busy => name = job.fw

\* Every OTA command the root takes is answered (ota_task, root_do_ota).
OtaAnswered ==
  \A i \in 1 .. CmdLimit :
    (\E f \in Firmware, D \in SUBSET Target : job = [id |-> i, fw |-> f, dest |-> D])
      ~> (\E r \in replies : r.id = i)

\* When every device answers that it is complete, the report lists them all.
AllReported ==
  [][ota = "wait" /\ ota' = "report" => result.pending = {}]_vars

\* The root carries out every command, also after an upgrade.
Serves ==
  \A i \in 1 .. CmdLimit : (\E k \in DOMAIN wire : wire[k].id = i) ~> i \in handled
=============================================================================
