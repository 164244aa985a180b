------------------------------ MODULE Mupgrade ------------------------------
(***************************************************************************)
(* A firmware upgrade of the mesh: the root (MupgradeRoot), the devices    *)
(* (MupgradeNode) and the mesh between them (MupgradeNet), any two of      *)
(* whose steps interleave.                                                 *)
(***************************************************************************)
EXTENDS MupgradeRoot, MupgradeNode

vars == <<netVars, rootVars, nodeVars>>

Init == NetInit /\ RootInit /\ NodeInit

\* One disjunct per action, each leaving alone the side it is not about.
Next ==
  \/ \E f \in Releases, ok \in BOOLEAN : FirmwareInit(f, ok) /\ UNCHANGED nodeVars
  \/ \E ok \in BOOLEAN : FirmwareDownload(ok) /\ UNCHANGED nodeVars
  \/ \E T \in Lists, all \in Modes : SendBegin(T, all) /\ UNCHANGED nodeVars
  \/ RoundBegin /\ UNCHANGED nodeVars
  \/ DrainTake /\ UNCHANGED nodeVars
  \/ DrainTimeout /\ UNCHANGED nodeVars
  \/ Ask /\ UNCHANGED nodeVars
  \/ CollectTimeout /\ UNCHANGED nodeVars
  \/ CollectStop /\ UNCHANGED nodeVars
  \/ CollectUnasked /\ UNCHANGED nodeVars
  \/ CollectAnswer /\ UNCHANGED nodeVars
  \/ RequestEnd /\ UNCHANGED nodeVars
  \/ SendHead /\ UNCHANGED nodeVars
  \/ ReadFails /\ UNCHANGED nodeVars
  \/ PushTake /\ UNCHANGED nodeVars
  \/ PushWrite /\ UNCHANGED nodeVars
  \/ SendExit /\ UNCHANGED nodeVars
  \/ StopCall /\ UNCHANGED nodeVars
  \/ StopArm /\ UNCHANGED nodeVars
  \/ StopReturn /\ UNCHANGED nodeVars
  \/ \E n \in Node : RootHandle(n) /\ UNCHANGED nodeVars
  \/ \E n \in Node : StatusKnown(n) /\ UNCHANGED rootVars
  \/ \E n \in Node, o \in Outcome : StatusNew(n, o) /\ UNCHANGED rootVars
  \/ \E n \in Node : DataNotInit(n) /\ UNCHANGED rootVars
  \/ \E n \in Node : DataStopped(n) /\ UNCHANGED rootVars
  \/ \E n \in Node : DataIgnored(n) /\ UNCHANGED rootVars
  \/ \E n \in Node : DataWrite(n) /\ UNCHANGED rootVars
  \/ \E n \in Node : DataComplete(n) /\ UNCHANGED rootVars
  \/ \E n \in Node : NodeStop(n) /\ UNCHANGED rootVars
  \/ \E n \in Node : Reboot(n) /\ UNCHANGED rootVars
  \/ \E n \in Node : CrashInStatus(n) /\ UNCHANGED rootVars
  \/ \E n \in Node, at \in Moment : CrashInWrite(n, at) /\ UNCHANGED rootVars
  \/ \E n \in Node : Lose(n) /\ UNCHANGED <<rootVars, nodeVars>>

Spec == Init /\ [][Next]_vars

(***************************************************************************)
(* Every task of the program runs again and again: the task inside         *)
(* mupgrade_firmware_send waits with timeouts only, a device handles what  *)
(* it receives, the reading task of the root hands answers over.  Nothing  *)
(* is assumed of callers, resets, faults and losses.                       *)
(***************************************************************************)
Fairness ==
  /\ WF_vars(SendTask /\ UNCHANGED nodeVars)
  /\ WF_vars(StopTask /\ UNCHANGED nodeVars)
  /\ \A n \in Node : WF_vars(NodeHandle(n) /\ UNCHANGED rootVars)
  /\ \A n \in Node : WF_vars(RootHandle(n) /\ UNCHANGED nodeVars)

FairSpec == Spec /\ Fairness

----------------------------------------------------------------------------
\* Every variable keeps its type; the root is inside mupgrade_firmware_send
\* only with a complete image.
TypeOK == NetTypeOK /\ RootTypeOK /\ NodeTypeOK

(***************************************************************************)
(* Whatever is lost, reset, stopped or fails, the slot a device runs from  *)
(* holds a whole image: an upgrade that goes wrong costs no device the     *)
(* firmware it has.                                                        *)
(***************************************************************************)
RunningIntact == \A n \in Node : Valid(flash[n][running[n]])

(***************************************************************************)
(* The bootloader is pointed at another slot, and an upgrade declared      *)
(* finished (g_upgrade_finished_flag), only when the slot to boot holds a  *)
(* whole image (mupgrade_write, mupgrade_stop).                            *)
(***************************************************************************)
SetsBoot(n) == boot'[n] # boot[n] \/ (finished'[n] /\ ~finished[n])

BootOnlyToImage ==
  [][\A n \in Node : SetsBoot(n) => Valid(flash'[n][boot'[n]])]_vars

(***************************************************************************)
(* No device is reported both to be upgraded and upgraded                  *)
(* (mupgrade_result_t), and a round asks only devices still to be upgraded.*)
(***************************************************************************)
ResultsConsistent ==
  /\ successed \cap unfinished = {}
  /\ rpc \in {"ask", "collect"} => requestAddrs \subseteq unfinished

(***************************************************************************)
(* written_size counts the bytes of exactly the packets whose bits are set,*)
(* through duplicates, repeated rounds, resets and resumption from NVS:    *)
(* a device that says it has everything has every packet.                  *)
(***************************************************************************)
BytesOf(c) ==
  Cardinality(c.bits) * PacketMaxSize
    - IF PacketNum(c.fw) - 1 \in c.bits
        THEN PacketMaxSize - LastPacketSize(c.fw) ELSE 0

WrittenMatchesBits ==
  \A n \in Node : \A c \in {cfg[n], nvs[n]} :
    c.fw # NoFw => c.written = BytesOf(c)

(***************************************************************************)
(* The packets a saved configuration claims are in the target slot, so an  *)
(* upgrade resumed from NVS after a reset leaves no hole (mupgrade_node.c, *)
(* "resumable data transfers from breakpoint after system reset"), as long *)
(* as no OTA call failed.                                                  *)
(***************************************************************************)
ResumeSound ==
  spent["fault"] = 0 => \A n \in Node : nvs[n].fw # NoFw =>
    \A s \in nvs[n].bits : flash[n][Target(n)][s] = nvs[n].fw

\* A device the root counts as succeeded in the campaign under way holds the
\* whole image in one of its slots, however late, often or out of step its
\* answers were taken (mupgrade_result_t.successed_addr), as long as no device
\* was told to stop and no write failed.
SuccessFlashed ==
  rpc # "idle" /\ spent["nodeStop"] = 0 /\ spent["fault"] = 0 =>
    \A n \in successed : \E i \in Slot : IsImage(rootFw, flash[n][i])

\* A device the root counts as succeeded in the campaign under way runs the
\* new firmware after its next reset.
SuccessBoots ==
  rpc # "idle" => \A n \in successed : IsImage(rootFw, flash[n][boot[n]])

(***************************************************************************)
(* With as many losses as Limit allows, devices that answer in time and    *)
(* no reset, no fault and no stop, mupgrade_firmware_send returns only     *)
(* when every device boots the new firmware next.                          *)
(***************************************************************************)
AllUpgraded ==
  rpc = "exit" => \A n \in Node : IsImage(rootFw, flash[n][boot[n]])

(***************************************************************************)
(* When mupgrade_firmware_send ends, every device it was called for is in  *)
(* one of the two lists it returns (no device stopping its upgrade).       *)
(***************************************************************************)
NoneForgotten == rpc = "exit" => unfinished \cup successed = Node

(***************************************************************************)
(* What a reset can cost: the saved progress is never further behind the   *)
(* progress made than one report interval and one packet.                  *)
(***************************************************************************)
SavedPeriodically ==
  \A n \in Node : cfg[n].fw # NoFw /\ cfg[n].err = "ok"
                  /\ cfg[n].written # TotalSize[cfg[n].fw] =>
    (cfg[n].written - nvs[n].written - PacketMaxSize) * 100
      <= ReportInterval * TotalSize[cfg[n].fw]

----------------------------------------------------------------------------
\* mupgrade_firmware_send returns, whatever devices and the mesh do.
SendTerminates == rpc # "idle" ~> rpc = "idle"

\* mupgrade_firmware_stop returns once it has armed the semaphore while
\* mupgrade_firmware_send is still running.
ArmedStopReturns ==
  (stopPc = "waiting" /\ rpc # "idle") ~> stopPc = "none"

\* mupgrade_firmware_stop returns.
StopReturns == stopPc = "tested" ~> stopPc = "none"
=============================================================================
