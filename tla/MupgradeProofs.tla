--------------------------- MODULE MupgradeProofs ---------------------------
(***************************************************************************)
(* Theorems about Mupgrade.  Some hold for any number of devices, any      *)
(* images and any number of losses, resets, faults and stops; what a       *)
(* device has counted, saved and answered, and what becomes of a campaign, *)
(* is stated for campaigns that distribute a single release.               *)
(***************************************************************************)
EXTENDS MupgradeRefinement, SequenceTheorems, FiniteSetTheorems, TLAPS

----------------------------------------------------------------------------
(* The mesh.                                                               *)

LEMMA PacketNumBounds ==
  ASSUME NEW f \in Firmware
  PROVE  /\ PacketNum(f) \in Nat
         /\ Packets(f) \subseteq AllSeq
         /\ \A s \in Nat : s < PacketNum(f) => s \in AllSeq
BY NetAssumption DEF Packets, AllSeq

LEMMA PacketSizeType ==
  ASSUME NEW f \in Firmware, NEW s \in Nat
  PROVE  PacketSize(f, s) \in Nat
<1>1. TotalSize[f] \in Nat /\ PacketMaxSize \in Nat \ {0}
  BY NetAssumption
<1>2. TotalSize[f] % PacketMaxSize \in Nat
  BY <1>1
<1>3. LastPacketSize(f) \in Nat
  BY <1>1, <1>2 DEF LastPacketSize
<1> QED
  BY <1>1, <1>3 DEF PacketSize

LEMMA SpendType ==
  ASSUME NetTypeOK, NEW h \in Hazard, Spend(h)
  PROVE  spent' \in [Hazard -> Nat]
BY DEF NetTypeOK, Spend

LEMMA DownlinkHead ==
  ASSUME NetTypeOK, NEW n \in Node, downlink[n] # <<>>
  PROVE  /\ Msg(n) \in StatusMsg \cup DataMsg
         /\ Tail(downlink[n]) \in Seq(StatusMsg \cup DataMsg)
BY DEF NetTypeOK, Msg

LEMMA ReceiveStatus ==
  ASSUME NetTypeOK, NEW n \in Node, Receive(n, "status")
  PROVE  Msg(n).fw \in Firmware
BY DownlinkHead, NetAssumption DEF Receive, StatusMsg, DataMsg

LEMMA ReceiveData ==
  ASSUME NetTypeOK, NEW n \in Node, Receive(n, "data")
  PROVE  Msg(n).payload \in Firmware /\ Msg(n).seq \in AllSeq /\ Msg(n).size \in Nat
BY DownlinkHead, NetAssumption DEF Receive, StatusMsg, DataMsg

LEMMA ConsumeType ==
  ASSUME NetTypeOK, NEW n \in Node, downlink[n] # <<>>, Consume(n)
  PROVE  downlink' \in [Node -> Seq(StatusMsg \cup DataMsg)]
BY DownlinkHead DEF NetTypeOK, Consume

LEMMA SendToRootType ==
  ASSUME NetTypeOK, NEW n \in Node, NEW a \in Answer, SendToRoot(n, a)
  PROVE  uplink' \in [Node -> Seq(Answer)]
<1>1. Append(uplink[n], a) \in Seq(Answer)
  BY DEF NetTypeOK
<1> QED
  BY <1>1 DEF NetTypeOK, SendToRoot

LEMMA MulticastType ==
  ASSUME NetTypeOK, NEW dest, NEW m \in StatusMsg \cup DataMsg, Multicast(dest, m)
  PROVE  downlink' \in [Node -> Seq(StatusMsg \cup DataMsg)]
<1>1. \A n \in Node : Append(downlink[n], m) \in Seq(StatusMsg \cup DataMsg)
  BY DEF NetTypeOK
<1> QED
  BY <1>1 DEF NetTypeOK, Multicast

LEMMA LoseType ==
  ASSUME NetTypeOK, NEW n \in Node, Lose(n)
  PROVE  NetTypeOK'
<1>1. spent' \in [Hazard -> Nat]
  BY SpendType DEF Lose, Hazard
<1>2. CASE downlink[n] # <<>> /\ downlink' = [downlink EXCEPT ![n] = Tail(@)]
           /\ UNCHANGED uplink
  BY <1>1, <1>2, DownlinkHead DEF NetTypeOK
<1>3. CASE uplink[n] # <<>> /\ uplink' = [uplink EXCEPT ![n] = Tail(@)]
           /\ UNCHANGED downlink
  BY <1>1, <1>3 DEF NetTypeOK
<1> QED
  BY <1>2, <1>3 DEF Lose

----------------------------------------------------------------------------
(* The devices.                                                            *)

LEMMA LoadedType ==
  ASSUME NodeTypeOK, NEW n \in Node
  PROVE  Loaded(n) \in Config
BY DEF NodeTypeOK, Loaded

LEMMA AnswerOfType ==
  ASSUME NEW c \in Config, c.fw # NoFw
  PROVE  AnswerOf(c) \in Answer
BY NetAssumption DEF AnswerOf, Answer, Config

LEMMA WithErrorType ==
  ASSUME NEW c \in Config, NEW e \in ErrorCode
  PROVE  WithError(c, e) \in Config /\ WithError(c, e).fw = c.fw
BY DEF WithError, Config

LEMMA NewCfgType ==
  ASSUME NEW f \in Firmware, NEW e \in ErrorCode
  PROVE  NewCfg(f, e) \in Config /\ NewCfg(f, e).fw = f
BY DEF NewCfg, Config

LEMMA EmptyCfgType == EmptyCfg \in Config
BY DEF EmptyCfg, Config, ErrorCode

LEMMA ProgressType ==
  ASSUME NEW c \in Config, NEW b \in SUBSET AllSeq, NEW w \in Nat
  PROVE  /\ [c EXCEPT !.bits = b, !.written = w] \in Config
         /\ [c EXCEPT !.bits = b, !.written = w].fw = c.fw
BY DEF Config

LEMMA ClearedType ==
  ASSUME NEW c \in Config
  PROVE  /\ [c EXCEPT !.written = 0, !.bits = {}] \in Config
         /\ [c EXCEPT !.written = 0, !.bits = {}].fw = c.fw
BY DEF Config

LEMMA StoppedType ==
  ASSUME NEW c \in Config
  PROVE  /\ [c EXCEPT !.err = "stop", !.written = 0, !.bits = {}] \in Config
         /\ [c EXCEPT !.err = "stop", !.written = 0, !.bits = {}].fw = c.fw
BY DEF Config, ErrorCode

LEMMA ErrType ==
  ASSUME NEW c \in Config, NEW e \in ErrorCode
  PROVE  /\ [c EXCEPT !.err = e] \in Config
         /\ [c EXCEPT !.err = e].fw = c.fw
BY DEF Config

LEMMA RecordedType ==
  ASSUME NetTypeOK, NodeTypeOK, NEW n \in Node, Receive(n, "data")
  PROVE  Recorded(n) \in Config /\ Recorded(n).fw = Loaded(n).fw
<1>1. Loaded(n) \in Config
  BY LoadedType
<1>2. Loaded(n).bits \cup {Msg(n).seq} \in SUBSET AllSeq
  BY <1>1, ReceiveData DEF Config
<1>3. Loaded(n).written + Msg(n).size \in Nat
  BY <1>1, ReceiveData DEF Config
<1> QED
  BY <1>1, <1>2, <1>3, ProgressType DEF Recorded

LEMMA TargetType ==
  ASSUME NodeTypeOK, NEW n \in Node
  PROVE  Target(n) \in Slot /\ Target(n) # running[n]
BY DEF NodeTypeOK, Target, Slot

\* What a handler writes goes to the target slot.
LEMMA TargetWrite ==
  ASSUME NodeTypeOK, NEW n \in Node, NEW img \in [AllSeq -> Cell]
  PROVE  LET fl == [flash EXCEPT ![n][Target(n)] = img] IN
         /\ fl \in [Node -> [Slot -> [AllSeq -> Cell]]]
         /\ \A m \in Node : fl[m][running[m]] = flash[m][running[m]]
<1>1. Target(n) \in Slot /\ Target(n) # running[n]
  BY TargetType
<1> QED
  BY <1>1 DEF NodeTypeOK

LEMMA ErasedType ==
  ASSUME NEW img \in [AllSeq -> Cell], NEW f
  PROVE  Erased(img, f) \in [AllSeq -> Cell]
BY DEF Erased, Cell

LEMMA WipeType ==
  ASSUME NodeTypeOK, NEW n \in Node, NEW f
  PROVE  LET fl == [flash EXCEPT ![n][Target(n)] = Erased(@, f)] IN
         /\ fl \in [Node -> [Slot -> [AllSeq -> Cell]]]
         /\ \A m \in Node : fl[m][running[m]] = flash[m][running[m]]
<1>1. flash[n][Target(n)] \in [AllSeq -> Cell]
  BY TargetType DEF NodeTypeOK
<1>2. Erased(flash[n][Target(n)], f) \in [AllSeq -> Cell]
  BY <1>1, ErasedType
<1> QED
  BY <1>2, TargetWrite

LEMMA FlashWrittenType ==
  ASSUME NetTypeOK, NodeTypeOK, NEW n \in Node, Receive(n, "data")
  PROVE  /\ FlashWritten(n) \in [Node -> [Slot -> [AllSeq -> Cell]]]
         /\ \A m \in Node : FlashWritten(n)[m][running[m]] = flash[m][running[m]]
<1>1. flash[n][Target(n)] \in [AllSeq -> Cell]
  BY TargetType DEF NodeTypeOK
<1>2. \A c \in Cell : Program(c, Msg(n).payload) \in Cell
  BY ReceiveData DEF Program, Cell
<1>3. Target(n) \in Slot /\ Target(n) # running[n] /\ Msg(n).seq \in AllSeq
  BY TargetType, ReceiveData
<1> QED
  BY <1>1, <1>2, <1>3 DEF FlashWritten, NodeTypeOK

----------------------------------------------------------------------------
(* Type correctness.                                                       *)

LEMMA QueueHead ==
  ASSUME RootTypeOK, queue # <<>>
  PROVE  Src \in Node /\ St \in Answer /\ Tail(queue) \in Seq(Queued)
<1>1. Head(queue) \in Queued /\ Tail(queue) \in Seq(Queued)
  BY DEF RootTypeOK
<1> QED
  BY <1>1 DEF Src, St, Queued

\* What the lists become when one or more answers are taken.
LEMMA MoveType ==
  ASSUME RootTypeOK, NEW n \in Node, MoveToSuccessed(n)
  PROVE  unfinished' \subseteq Node /\ successed' \subseteq Node
BY DEF RootTypeOK, MoveToSuccessed

LEMMA RootTypeStep ==
  ASSUME TypeOK, Next, UNCHANGED nodeVars
  PROVE  RootTypeOK'
<1> USE DEF TypeOK, RootTypeOK, rootVars, lists, loop, image, stop
<1>1. ASSUME NEW f \in Releases, NEW ok \in BOOLEAN, FirmwareInit(f, ok)
      PROVE  RootTypeOK'
  BY <1>1 DEF FirmwareInit
<1>2. ASSUME NEW ok \in BOOLEAN, FirmwareDownload(ok)
      PROVE  RootTypeOK'
  BY <1>2 DEF FirmwareDownload
<1>3. ASSUME NEW T \in Lists, NEW all \in Modes, SendBegin(T, all)
      PROVE  RootTypeOK'
  BY <1>3, RootAssumption DEF SendBegin
<1>4. CASE RoundBegin
  BY <1>4 DEF RoundBegin
<1>5. CASE DrainTake
  BY <1>5, QueueHead, MoveType DEF DrainTake
<1>6. CASE DrainTimeout
  BY <1>6 DEF DrainTimeout
<1>7. CASE Ask
  BY <1>7 DEF Ask
<1>8. CASE CollectTimeout
  BY <1>8 DEF CollectTimeout
<1>9. CASE CollectStop
  BY <1>9, QueueHead DEF CollectStop, Collecting
<1>10. CASE CollectUnasked
  BY <1>10, QueueHead DEF CollectUnasked, Collecting
<1>11. CASE CollectAnswer
  BY <1>11, QueueHead, MoveType DEF CollectAnswer, Collecting, AndProgress
<1>12. CASE RequestEnd
  BY <1>12 DEF RequestEnd
<1>13. CASE SendHead
  <2>1. rootFw \in Firmware
    BY <1>13, NetAssumption DEF SendHead
  <2>2. PacketNum(rootFw) \in Nat
    BY <2>1, PacketNumBounds
  <2> QED
    BY <1>13, <2>2 DEF SendHead, PacketsSent
<1>14. CASE ReadFails
  BY <1>14 DEF ReadFails
<1>15. CASE PushTake
  BY <1>15, QueueHead DEF PushTake
<1>16. CASE PushWrite
  BY <1>16 DEF PushWrite
<1>17. CASE SendExit
  <2>1. queue' \in Seq(Queued)
    BY <1>17, EmptySeq DEF SendExit
  <2> QED
    BY <1>17, <2>1 DEF SendExit, Woken
<1>18. CASE StopCall
  BY <1>18 DEF StopCall
<1>19. CASE StopArm
  BY <1>19 DEF StopArm
<1>20. CASE StopReturn
  BY <1>20 DEF StopReturn
<1>21. ASSUME NEW n \in Node, RootHandle(n)
       PROVE  RootTypeOK'
  <2>1. [src |-> n, st |-> Head(uplink[n])] \in Queued
    BY <1>21 DEF RootHandle, NetTypeOK, Queued
  <2>2. queue' \in Seq(Queued)
    BY <1>21, <2>1 DEF RootHandle
  <2> QED
    BY <1>21, <2>2 DEF RootHandle
<1>22. CASE UNCHANGED rootVars
  BY <1>22
<1> QED
  BY <1>1, <1>2, <1>3, <1>4, <1>5, <1>6, <1>7, <1>8, <1>9, <1>10, <1>11, <1>12,
     <1>13, <1>14, <1>15, <1>16, <1>17, <1>18, <1>19, <1>20, <1>21, <1>22
  DEF Next

LEMMA PowerCycleType ==
  ASSUME NodeTypeOK, NEW n \in Node, PowerCycle(n), nvs' \in [Node -> Config],
         flash' \in [Node -> [Slot -> [AllSeq -> Cell]]]
  PROVE  NodeTypeOK'
<1>1. cfg' \in [Node -> Config]
  BY EmptyCfgType DEF PowerCycle, NodeTypeOK
<1>2. running' \in [Node -> Slot]
  BY DEF PowerCycle, NodeTypeOK, Slot
<1> QED
  BY <1>1, <1>2, NodeAssumption DEF PowerCycle, NodeTypeOK

LEMMA NvsErasedType ==
  ASSUME NodeTypeOK, NEW n \in Node
  PROVE  NvsErased(n) \in [Node -> Config]
BY EmptyCfgType DEF NvsErased, NodeTypeOK

LEMMA NodeTypeStep ==
  ASSUME TypeOK, Next
  PROVE  NodeTypeOK'
<1>0. NetTypeOK /\ NodeTypeOK
  BY DEF TypeOK
<1>1. ASSUME NEW n \in Node, StatusKnown(n)
      PROVE  NodeTypeOK'
  <2>1. WithError(Loaded(n), "ok") \in Config
    BY <1>0, LoadedType, WithErrorType DEF ErrorCode
  <2> QED
    BY <1>0, <1>1, <2>1 DEF StatusKnown, NodeTypeOK
<1>2. ASSUME NEW n \in Node, NEW o \in Outcome, StatusNew(n, o)
      PROVE  NodeTypeOK'
  <2> DEFINE f    == Msg(n).fw
             e    == IF o = "done" THEN "ok" ELSE "fail"
             wipe == [flash EXCEPT ![n][Target(n)] = Erased(@, f)]
  <2>1. f \in Firmware
    BY <1>0, <1>2, ReceiveStatus DEF StatusNew
  <2>2. NewCfg(f, e) \in Config
    BY <2>1, NewCfgType DEF ErrorCode
  <2>3. wipe \in [Node -> [Slot -> [AllSeq -> Cell]]]
    BY <1>0, WipeType
  <2>4. /\ cfg' = [cfg EXCEPT ![n] = NewCfg(f, e)]
        /\ finished' = [finished EXCEPT ![n] = FALSE]
        /\ flash' = flash \/ flash' = wipe
        /\ nvs' = nvs \/ nvs' = [nvs EXCEPT ![n] = NewCfg(f, e)]
        /\ UNCHANGED <<nextPct, boot, running>>
    BY <1>2 DEF StatusNew
  <2> HIDE DEF f, e, wipe
  <2> QED
    BY <1>0, <2>2, <2>3, <2>4 DEF NodeTypeOK
<1>3. ASSUME NEW n \in Node, DataNotInit(n)
      PROVE  NodeTypeOK'
  BY <1>0, <1>3 DEF DataNotInit, NodeTypeOK, nodeVars, ramVars
<1>4. ASSUME NEW n \in Node, DataStopped(n)
      PROVE  NodeTypeOK'
  <2>1. [Loaded(n) EXCEPT !.written = 0, !.bits = {}] \in Config
    BY <1>0, LoadedType, ClearedType
  <2> QED
    BY <1>0, <1>4, <2>1, NvsErasedType DEF DataStopped, NodeTypeOK
<1>5. ASSUME NEW n \in Node, DataIgnored(n)
      PROVE  NodeTypeOK'
  BY <1>0, <1>5, LoadedType DEF DataIgnored, NodeTypeOK
<1>6. ASSUME NEW n \in Node, DataWrite(n)
      PROVE  NodeTypeOK'
  <2>1. Recorded(n) \in Config
    BY <1>0, <1>6, RecordedType DEF DataWrite
  <2>2. flash' \in [Node -> [Slot -> [AllSeq -> Cell]]]
    BY <1>0, <1>6, FlashWrittenType DEF DataWrite
  <2>3. cfg' \in [Node -> Config] /\ nvs' \in [Node -> Config]
    BY <1>0, <1>6, <2>1 DEF DataWrite, NodeTypeOK
  <2>4. nextPct' \in [Node -> Nat]
    <3>1. \/ nextPct' = nextPct
          \/ nextPct' = [nextPct EXCEPT ![n] = @ + ReportInterval]
      BY <1>6 DEF DataWrite
    <3>2. nextPct \in [Node -> Nat] /\ nextPct[n] + ReportInterval \in Nat
      BY <1>0, NodeAssumption DEF NodeTypeOK
    <3> QED
      BY <3>1, <3>2
  <2> QED
    BY <1>0, <1>6, <2>2, <2>3, <2>4 DEF DataWrite, NodeTypeOK
<1>7. ASSUME NEW n \in Node, DataComplete(n)
      PROVE  NodeTypeOK'
  <2>1. \A e \in ErrorCode : [Recorded(n) EXCEPT !.err = e] \in Config
    BY <1>0, <1>7, RecordedType, ErrType DEF DataComplete
  <2>2. cfg' \in [Node -> Config]
    BY <1>0, <1>7, <2>1 DEF DataComplete, NodeTypeOK, ErrorCode
  <2>3. flash' \in [Node -> [Slot -> [AllSeq -> Cell]]]
    BY <1>0, <1>7, FlashWrittenType DEF DataComplete
  <2>4. nvs' \in [Node -> Config]
    BY <1>0, <1>7, NvsErasedType DEF DataComplete
  <2>5. nextPct' \in [Node -> Nat]
    BY <1>0, <1>7, NodeAssumption DEF DataComplete, NodeTypeOK
  <2>6. boot' \in [Node -> Slot] /\ finished' \in [Node -> BOOLEAN]
    BY <1>0, <1>7, TargetType DEF DataComplete, NodeTypeOK
  <2> QED
    BY <1>0, <1>7, <2>2, <2>3, <2>4, <2>5, <2>6 DEF DataComplete, NodeTypeOK
<1>8. ASSUME NEW n \in Node, NodeStop(n)
      PROVE  NodeTypeOK'
  <2>1. [cfg[n] EXCEPT !.err = "stop", !.written = 0, !.bits = {}] \in Config
    BY <1>0, StoppedType DEF NodeTypeOK
  <2> QED
    BY <1>0, <1>8, <2>1, NvsErasedType DEF NodeStop, NodeTypeOK
<1>9. ASSUME NEW n \in Node, Reboot(n)
      PROVE  NodeTypeOK'
  BY <1>0, <1>9, PowerCycleType DEF Reboot, NodeTypeOK
<1>10. ASSUME NEW n \in Node, CrashInStatus(n)
       PROVE  NodeTypeOK'
  <2>1. flash' \in [Node -> [Slot -> [AllSeq -> Cell]]]
    BY <1>0, <1>10, WipeType DEF CrashInStatus
  <2> QED
    BY <1>0, <1>10, <2>1, PowerCycleType DEF CrashInStatus, NodeTypeOK
<1>11. ASSUME NEW n \in Node, NEW at \in Moment, CrashInWrite(n, at)
       PROVE  NodeTypeOK'
  <2>1. flash' \in [Node -> [Slot -> [AllSeq -> Cell]]]
    BY <1>0, <1>11, FlashWrittenType DEF CrashInWrite
  <2>2. nvs' \in [Node -> Config]
    BY <1>0, <1>11, RecordedType, NvsErasedType
    DEF CrashInWrite, Moment, NodeTypeOK
  <2> QED
    BY <1>0, <1>11, <2>1, <2>2, PowerCycleType DEF CrashInWrite
<1>12. CASE UNCHANGED nodeVars
  BY <1>0, <1>12 DEF NodeTypeOK, nodeVars, ramVars
<1> QED
  BY <1>1, <1>2, <1>3, <1>4, <1>5, <1>6, <1>7, <1>8, <1>9, <1>10, <1>11, <1>12
  DEF Next

\* What a device answers is an answer.
LEMMA AnswersType ==
  ASSUME TypeOK, NEW n \in Node
  PROVE  /\ StatusKnown(n) => uplink' \in [Node -> Seq(Answer)]
         /\ \A o \in Outcome : StatusNew(n, o) => uplink' \in [Node -> Seq(Answer)]
         /\ DataStopped(n) => uplink' \in [Node -> Seq(Answer)]
         /\ DataComplete(n) => uplink' \in [Node -> Seq(Answer)]
         /\ NodeStop(n) => uplink' \in [Node -> Seq(Answer)]
<1>0. NetTypeOK /\ NodeTypeOK /\ Loaded(n) \in Config /\ cfg[n] \in Config
  BY LoadedType DEF TypeOK, NodeTypeOK
<1>1. ASSUME StatusKnown(n)
      PROVE  uplink' \in [Node -> Seq(Answer)]
  <2>1. Loaded(n).fw \in Firmware
    BY <1>0, <1>1, ReceiveStatus DEF StatusKnown
  <2>2. AnswerOf(WithError(Loaded(n), "ok")) \in Answer
    BY <1>0, <2>1, WithErrorType, AnswerOfType, NetAssumption DEF ErrorCode
  <2> QED
    BY <1>0, <1>1, <2>2, SendToRootType DEF StatusKnown
<1>2. ASSUME NEW o \in Outcome, StatusNew(n, o)
      PROVE  uplink' \in [Node -> Seq(Answer)]
  <2>1. Msg(n).fw \in Firmware
    BY <1>0, <1>2, ReceiveStatus DEF StatusNew
  <2>2. \A e \in ErrorCode : AnswerOf(NewCfg(Msg(n).fw, e)) \in Answer
    BY <2>1, NewCfgType, AnswerOfType, NetAssumption
  <2>3. AnswerOf(NewCfg(Msg(n).fw, IF o = "done" THEN "ok" ELSE "fail")) \in Answer
    BY <2>2 DEF ErrorCode
  <2> QED
    BY <1>0, <1>2, <2>3, SendToRootType DEF StatusNew
<1>3. ASSUME DataStopped(n)
      PROVE  uplink' \in [Node -> Seq(Answer)]
  <2>1. AnswerOf([Loaded(n) EXCEPT !.written = 0, !.bits = {}]) \in Answer
    BY <1>0, <1>3, ClearedType, AnswerOfType DEF DataStopped
  <2> QED
    BY <1>0, <1>3, <2>1, SendToRootType DEF DataStopped
<1>4. ASSUME DataComplete(n)
      PROVE  uplink' \in [Node -> Seq(Answer)]
  <2>1. Recorded(n) \in Config /\ Recorded(n).fw # NoFw
    BY <1>0, <1>4, RecordedType DEF DataComplete, Accepts
  <2>2. AnswerOf([Recorded(n) EXCEPT !.err = "ok"]) \in Answer
    BY <2>1, ErrType, AnswerOfType DEF ErrorCode
  <2>3. CASE Verified(n)
    BY <1>0, <1>4, <2>2, <2>3, SendToRootType DEF DataComplete
  <2>4. CASE ~Verified(n)
    BY <1>0, <1>4, <2>4 DEF DataComplete, NetTypeOK
  <2> QED
    BY <2>3, <2>4
<1>5. ASSUME NodeStop(n)
      PROVE  uplink' \in [Node -> Seq(Answer)]
  <2>1. AnswerOf([cfg[n] EXCEPT !.err = "stop", !.written = 0, !.bits = {}])
          \in Answer
    BY <1>0, <1>5, StoppedType, AnswerOfType DEF NodeStop
  <2> QED
    BY <1>0, <1>5, <2>1, SendToRootType DEF NodeStop
<1> QED
  BY <1>1, <1>2, <1>3, <1>4, <1>5

LEMMA NetTypeStep ==
  ASSUME TypeOK, Next
  PROVE  NetTypeOK'
<1>0. NetTypeOK /\ RootTypeOK /\ NodeTypeOK
  BY DEF TypeOK
<1>h. Hazard = {"loss", "reboot", "fault", "nodeStop", "rootStop", "session"}
  BY DEF Hazard
<1>1. ASSUME NEW f \in Releases, NEW ok \in BOOLEAN, FirmwareInit(f, ok)
      PROVE  NetTypeOK'
  BY <1>0, <1>h, <1>1, SpendType DEF FirmwareInit, NetTypeOK
<1>2. ASSUME NEW ok \in BOOLEAN, FirmwareDownload(ok)
      PROVE  NetTypeOK'
  BY <1>0, <1>h, <1>2, SpendType DEF FirmwareDownload, NetTypeOK
<1>3. ASSUME NEW T \in Lists, NEW all \in Modes, SendBegin(T, all)
      PROVE  NetTypeOK'
  BY <1>0, <1>h, <1>3, SpendType DEF SendBegin, NetTypeOK
<1>4. CASE Ask
  <2>1. rootFw \in Releases
    BY <1>0, <1>4 DEF Ask, RootTypeOK
  <2>2. [type |-> "status", fw |-> rootFw] \in StatusMsg \cup DataMsg
    BY <2>1 DEF StatusMsg
  <2> QED
    BY <1>0, <1>4, <2>2, MulticastType DEF Ask, NetTypeOK
<1>5. CASE PushWrite
  <2>1. rootFw \in Releases /\ rootFw \in Firmware
    BY <1>0, <1>5, NetAssumption DEF PushWrite, RootTypeOK
  <2>2. seq \in AllSeq
    BY <1>0, <1>5, <2>1, PacketNumBounds DEF PushWrite, RootTypeOK
  <2>3. PacketSize(rootFw, seq) \in Nat
    BY <1>0, <2>1, PacketSizeType DEF RootTypeOK
  <2>4. [type |-> "data", payload |-> rootFw, seq |-> seq,
         size |-> PacketSize(rootFw, seq)] \in StatusMsg \cup DataMsg
    BY <2>1, <2>2, <2>3 DEF DataMsg
  <2> QED
    BY <1>0, <1>5, <2>4, MulticastType DEF PushWrite, NetTypeOK
<1>6. CASE ReadFails \/ StopCall
  BY <1>0, <1>h, <1>6, SpendType DEF ReadFails, StopCall, NetTypeOK
<1>7. ASSUME NEW n \in Node, RootHandle(n)
      PROVE  NetTypeOK'
  BY <1>0, <1>7 DEF RootHandle, NetTypeOK
<1>8. ASSUME NEW n \in Node, StatusKnown(n)
      PROVE  NetTypeOK'
  BY <1>0, <1>8, AnswersType, ConsumeType DEF StatusKnown, Receive, NetTypeOK
<1>9. ASSUME NEW n \in Node, NEW o \in Outcome, StatusNew(n, o)
      PROVE  NetTypeOK'
  <2>1. uplink' \in [Node -> Seq(Answer)]
    BY <1>9, AnswersType
  <2>2. downlink' \in [Node -> Seq(StatusMsg \cup DataMsg)]
    BY <1>0, <1>9, ConsumeType DEF StatusNew, Receive
  <2>3. spent' \in [Hazard -> Nat]
    BY <1>0, <1>h, <1>9, SpendType DEF StatusNew, NetTypeOK
  <2> QED
    BY <2>1, <2>2, <2>3 DEF NetTypeOK
<1>10. ASSUME NEW n \in Node, DataNotInit(n)
       PROVE  NetTypeOK'
  BY <1>0, <1>10, ConsumeType DEF DataNotInit, Receive, NetTypeOK
<1>11. ASSUME NEW n \in Node, DataStopped(n)
       PROVE  NetTypeOK'
  BY <1>0, <1>11, AnswersType, ConsumeType DEF DataStopped, Receive, NetTypeOK
<1>12. ASSUME NEW n \in Node, DataIgnored(n)
       PROVE  NetTypeOK'
  <2>1. spent' \in [Hazard -> Nat]
    BY <1>0, <1>h, <1>12, SpendType DEF DataIgnored, NetTypeOK
  <2> QED
    BY <1>0, <1>12, <2>1, ConsumeType DEF DataIgnored, Receive, NetTypeOK
<1>13. ASSUME NEW n \in Node, DataWrite(n)
       PROVE  NetTypeOK'
  BY <1>0, <1>13, ConsumeType DEF DataWrite, Receive, NetTypeOK
<1>14. ASSUME NEW n \in Node, DataComplete(n)
       PROVE  NetTypeOK'
  BY <1>0, <1>14, AnswersType, ConsumeType DEF DataComplete, Receive, NetTypeOK
<1>15. ASSUME NEW n \in Node, NodeStop(n)
       PROVE  NetTypeOK'
  BY <1>0, <1>h, <1>15, AnswersType, SpendType DEF NodeStop, NetTypeOK
<1>16. ASSUME NEW n \in Node, PowerCycle(n)
       PROVE  NetTypeOK'
  <2>1. spent' \in [Hazard -> Nat]
    BY <1>0, <1>h, <1>16, SpendType DEF PowerCycle
  <2>2. downlink' \in [Node -> Seq(StatusMsg \cup DataMsg)]
    BY <1>0, <1>16, EmptySeq DEF PowerCycle, NetTypeOK
  <2> QED
    BY <1>0, <1>16, <2>1, <2>2 DEF PowerCycle, NetTypeOK
<1>17. ASSUME NEW n \in Node, Lose(n)
       PROVE  NetTypeOK'
  BY <1>0, <1>17, LoseType
<1>18. CASE UNCHANGED netVars
  BY <1>0, <1>18 DEF NetTypeOK, netVars
<1>19. CASE \/ RoundBegin \/ DrainTake \/ DrainTimeout \/ CollectTimeout
            \/ CollectStop \/ CollectUnasked \/ CollectAnswer \/ RequestEnd
            \/ SendHead \/ PushTake \/ SendExit \/ StopArm \/ StopReturn
  BY <1>18, <1>19
  DEF RoundBegin, DrainTake, DrainTimeout, CollectTimeout, CollectStop,
      CollectUnasked, CollectAnswer, Collecting, RequestEnd, SendHead, PushTake,
      SendExit, StopArm, StopReturn, netVars
<1> QED
  BY <1>1, <1>2, <1>3, <1>4, <1>5, <1>6, <1>7, <1>8, <1>9, <1>10, <1>11, <1>12,
     <1>13, <1>14, <1>15, <1>16, <1>17, <1>19
  DEF Next, Reboot, CrashInStatus, CrashInWrite

LEMMA TypeInit == Init => TypeOK
<1> SUFFICES ASSUME Init PROVE TypeOK
  OBVIOUS
<1>1. NetTypeOK
  BY EmptySeq DEF Init, NetInit, NetTypeOK
<1>2. RootTypeOK
  BY EmptySeq DEF Init, RootInit, RootTypeOK
<1>3. NodeTypeOK
  <2>1. flash \in [Node -> [Slot -> [AllSeq -> Cell]]]
    BY NodeAssumption DEF Init, NodeInit, Slot, Cell
  <2> QED
    BY <2>1, EmptyCfgType, NodeAssumption DEF Init, NodeInit, NodeTypeOK, Slot
<1> QED
  BY <1>1, <1>2, <1>3 DEF TypeOK

LEMMA TypeStep == TypeOK /\ [Next]_vars => TypeOK'
<1>1. ASSUME TypeOK, Next
      PROVE  TypeOK'
  <2>1. RootTypeOK'
    <3>1. CASE UNCHANGED nodeVars
      BY <1>1, <3>1, RootTypeStep
    <3>2. CASE UNCHANGED rootVars
      BY <1>1, <3>2 DEF TypeOK, RootTypeOK, rootVars, lists, loop, image, stop
    <3> QED
      BY <1>1, <3>1, <3>2 DEF Next
  <2> QED
    BY <1>1, <2>1, NodeTypeStep, NetTypeStep DEF TypeOK
<1>2. ASSUME TypeOK, UNCHANGED vars
      PROVE  TypeOK'
  BY <1>2 DEF vars, TypeOK, NetTypeOK, netVars, RootTypeOK, rootVars, lists,
              loop, image, stop, NodeTypeOK, nodeVars, ramVars
<1> QED
  BY <1>1, <1>2

\* Every variable keeps its type, and the root enters mupgrade_firmware_send
\* with a complete image only.
THEOREM TypeCorrect == Spec => []TypeOK
BY TypeInit, TypeStep, PTL DEF Spec

----------------------------------------------------------------------------
(* What a device runs.                                                     *)

\* Only a reset changes the running slot, and it does so with flash as the
\* interrupted handler left it.
LEMMA RunningSlotKept ==
  ASSUME TypeOK, Next
  PROVE  /\ \A m \in Node : flash'[m][running[m]] = flash[m][running[m]]
         /\ \/ running' = running
            \/ \E n \in Node :
                 running' = [running EXCEPT ![n] =
                   IF Valid(flash'[n][boot[n]]) THEN boot[n] ELSE 1 - boot[n]]
<1>0. NetTypeOK /\ NodeTypeOK
  BY DEF TypeOK
<1> DEFINE Kept    == \A m \in Node : flash'[m][running[m]] = flash[m][running[m]]
           Restart == \E n \in Node :
                        running' = [running EXCEPT ![n] =
                          IF Valid(flash'[n][boot[n]]) THEN boot[n] ELSE 1 - boot[n]]
<1>1. ASSUME NEW n \in Node, NEW o \in Outcome, StatusNew(n, o)
      PROVE  Kept /\ running' = running
  BY <1>0, <1>1, WipeType DEF StatusNew
<1>2. ASSUME NEW n \in Node, DataWrite(n) \/ DataComplete(n)
      PROVE  Kept /\ running' = running
  BY <1>0, <1>2, FlashWrittenType DEF DataWrite, DataComplete
<1>3. ASSUME NEW n \in Node, StatusKnown(n) \/ DataNotInit(n) \/ DataStopped(n)
                            \/ DataIgnored(n) \/ NodeStop(n)
      PROVE  Kept /\ running' = running
  BY <1>3 DEF StatusKnown, DataNotInit, DataStopped, DataIgnored, NodeStop,
              nodeVars, ramVars
<1>4. ASSUME NEW n \in Node, Reboot(n)
      PROVE  Kept /\ Restart
  BY <1>4 DEF Reboot, PowerCycle
<1>5. ASSUME NEW n \in Node, CrashInStatus(n)
      PROVE  Kept /\ Restart
  BY <1>0, <1>5, WipeType DEF CrashInStatus, PowerCycle
<1>6. ASSUME NEW n \in Node, NEW at \in Moment, CrashInWrite(n, at)
      PROVE  Kept /\ Restart
  BY <1>0, <1>6, FlashWrittenType DEF CrashInWrite, PowerCycle
<1>7. ASSUME UNCHANGED nodeVars
      PROVE  Kept /\ running' = running
  BY <1>7 DEF nodeVars
<1> QED
  BY <1>1, <1>2, <1>3, <1>4, <1>5, <1>6, <1>7 DEF Next

LEMMA RunningStep == TypeOK /\ RunningIntact /\ [Next]_vars => RunningIntact'
<1> SUFFICES ASSUME TypeOK, RunningIntact, [Next]_vars, NEW m \in Node
             PROVE  Valid(flash'[m][running'[m]])
  BY DEF RunningIntact, Valid, IsImage
<1>1. CASE UNCHANGED vars
  BY <1>1 DEF RunningIntact, vars, nodeVars
<1>2. CASE Next
  <2>1. Valid(flash'[m][running[m]])
    BY <1>2, RunningSlotKept DEF RunningIntact
  <2>2. running \in [Node -> Slot] /\ boot \in [Node -> Slot]
    BY DEF TypeOK, NodeTypeOK
  <2>3. CASE running'[m] = running[m]
    BY <2>1, <2>3
  <2>4. CASE running'[m] =
               IF Valid(flash'[m][boot[m]]) THEN boot[m] ELSE 1 - boot[m]
    <3>1. CASE Valid(flash'[m][boot[m]])
      BY <2>4, <3>1
    <3>2. CASE ~Valid(flash'[m][boot[m]])
      <4>1. boot[m] # running[m]
        BY <2>1, <3>2
      <4>2. 1 - boot[m] = running[m]
        BY <2>2, <4>1 DEF Slot
      <4> QED
        BY <2>1, <2>4, <3>2, <4>2
    <3> QED
      BY <3>1, <3>2
  <2> QED
    BY <1>2, <2>2, <2>3, <2>4, RunningSlotKept
<1> QED
  BY <1>1, <1>2

LEMMA RunningInit == Init => RunningIntact
BY NodeAssumption, NetAssumption, PacketNumBounds
DEF Init, NodeInit, RunningIntact, Valid, IsImage, Slot

\* Whatever is lost, reset, stopped or fails, and whatever the releases, a
\* device always runs from a slot that holds a whole image.
THEOREM RunningAlwaysIntact == Spec => []RunningIntact
BY RunningInit, RunningStep, TypeInit, TypeStep, PTL DEF Spec

\* The bootloader is pointed at a slot only when a whole image is there.
LEMMA BootStep ==
  TypeOK /\ RunningIntact /\ [Next]_vars =>
    [\A n \in Node : SetsBoot(n) => Valid(flash'[n][boot'[n]])]_vars
<1> SUFFICES ASSUME TypeOK, RunningIntact, Next, NEW m \in Node,
                    boot'[m] # boot[m] \/ (finished'[m] /\ ~finished[m])
             PROVE  Valid(flash'[m][boot'[m]])
  BY DEF SetsBoot
<1>0. NodeTypeOK
  BY DEF TypeOK
<1>1. ASSUME NEW n \in Node, DataComplete(n)
      PROVE  Valid(flash'[m][boot'[m]])
  <2>1. /\ flash' = FlashWritten(n)
        /\ \/ /\ Verified(n)
              /\ boot' = [boot EXCEPT ![n] = Target(n)]
              /\ finished' = [finished EXCEPT ![n] = TRUE]
           \/ UNCHANGED <<boot, finished>>
    BY <1>1 DEF DataComplete
  <2>2. m = n /\ boot'[m] = Target(n) /\ Verified(n)
    BY <1>0, <2>1 DEF NodeTypeOK
  <2> QED
    BY <2>1, <2>2 DEF Verified
<1>2. ASSUME NEW n \in Node, NodeStop(n)
      PROVE  Valid(flash'[m][boot'[m]])
  <2>1. /\ \/ boot' = [boot EXCEPT ![n] = running[n]]
           \/ boot' = boot
        /\ UNCHANGED <<flash, finished>>
    BY <1>2 DEF NodeStop
  <2>2. boot'[m] = running[m]
    BY <1>0, <2>1 DEF NodeTypeOK
  <2> QED
    BY <2>1, <2>2 DEF RunningIntact
<1>3. ASSUME NEW n \in Node, finished' = [finished EXCEPT ![n] = FALSE]
      PROVE  finished'[m] => finished[m]
  <2>1. finished \in [Node -> BOOLEAN]
    BY <1>0 DEF NodeTypeOK
  <2>2. CASE m = n
    BY <1>3, <2>1, <2>2
  <2>3. CASE m # n
    BY <1>3, <2>1, <2>3
  <2> QED
    BY <2>2, <2>3
<1>4. CASE \E n \in Node : PowerCycle(n) \/ \E o \in Outcome : StatusNew(n, o)
  <2>1. boot' = boot /\ \E n \in Node : finished' = [finished EXCEPT ![n] = FALSE]
    BY <1>4 DEF PowerCycle, StatusNew
  <2> QED
    BY <1>3, <2>1
<1>5. CASE boot' = boot /\ finished' = finished
  BY <1>5
<1>6. ASSUME NEW n \in Node,
             \/ StatusKnown(n) \/ DataNotInit(n) \/ DataStopped(n)
             \/ DataIgnored(n) \/ DataWrite(n)
      PROVE  boot' = boot /\ finished' = finished
  BY <1>6 DEF StatusKnown, DataNotInit, DataStopped, DataIgnored, DataWrite,
              nodeVars, ramVars
<1>7. ASSUME NEW n \in Node,
             \/ Reboot(n) \/ CrashInStatus(n)
             \/ \E at \in Moment : CrashInWrite(n, at)
      PROVE  PowerCycle(n)
  BY <1>7 DEF Reboot, CrashInStatus, CrashInWrite
<1>8. \/ \E n \in Node : PowerCycle(n) \/ \E o \in Outcome : StatusNew(n, o)
      \/ \E n \in Node : DataComplete(n) \/ NodeStop(n)
      \/ boot' = boot /\ finished' = finished
  BY <1>6, <1>7 DEF Next, nodeVars, ramVars
<1> QED
  BY <1>1, <1>2, <1>4, <1>5, <1>8

\* The boot slot only ever moves to a slot with a whole image in it, and an
\* upgrade is finished only over such a slot.
THEOREM BootsOnlyImages == Spec => BootOnlyToImage
BY RunningInit, RunningStep, TypeInit, TypeStep, BootStep, PTL
DEF Spec, BootOnlyToImage

----------------------------------------------------------------------------
(* What the root reports.                                                  *)

LEMMA ResultsStep ==
  ResultsConsistent /\ [Next]_vars => ResultsConsistent'
<1> SUFFICES ASSUME ResultsConsistent, [Next]_vars
             PROVE  ResultsConsistent'
  OBVIOUS
<1> USE DEF ResultsConsistent, lists, loop
<1>1. CASE DrainTake
  BY <1>1 DEF DrainTake, MoveToSuccessed
<1>2. CASE DrainTimeout
  BY <1>2 DEF DrainTimeout
<1>3. CASE Ask \/ CollectTimeout
  BY <1>3 DEF Ask, CollectTimeout
<1>4. CASE CollectStop
  BY <1>4 DEF CollectStop, Collecting
<1>5. CASE CollectUnasked
  BY <1>5 DEF CollectUnasked, Collecting
<1>6. CASE CollectAnswer
  BY <1>6 DEF CollectAnswer, Collecting, MoveToSuccessed
<1>7. CASE PushTake
  BY <1>7 DEF PushTake
<1>8. CASE RoundBegin \/ RequestEnd \/ SendHead \/ ReadFails \/ PushWrite \/ SendExit
  BY <1>8 DEF RoundBegin, RequestEnd, SendHead, ReadFails, PushWrite, SendExit
<1>9. ASSUME NEW T \in Lists, NEW all \in Modes, SendBegin(T, all)
      PROVE  ResultsConsistent'
  BY <1>9 DEF SendBegin
<1>10. CASE UNCHANGED <<lists, requestAddrs, rpc>>
  BY <1>10
<1>11. CASE \/ \E f \in Releases, ok \in BOOLEAN : FirmwareInit(f, ok)
            \/ \E ok \in BOOLEAN : FirmwareDownload(ok)
            \/ \E n \in Node : RootHandle(n)
            \/ StopCall \/ StopArm \/ StopReturn
  BY <1>10, <1>11
  DEF FirmwareInit, FirmwareDownload, RootHandle, StopCall, StopArm, StopReturn
<1>12. CASE UNCHANGED rootVars
  BY <1>10, <1>12 DEF rootVars
<1> QED
  BY <1>1, <1>2, <1>3, <1>4, <1>5, <1>6, <1>7, <1>8, <1>9, <1>11, <1>12
  DEF Next, vars

\* No device is ever in both lists, and a round asks unfinished devices only.
THEOREM ResultsAlwaysConsistent == Spec => []ResultsConsistent
<1>1. Init => ResultsConsistent
  BY DEF Init, RootInit, ResultsConsistent
<1> QED
  BY <1>1, ResultsStep, PTL DEF Spec

----------------------------------------------------------------------------
(* Packets and bytes.                                                      *)

LEMMA TimesMonotone ==
  ASSUME NEW p \in Nat, NEW a \in Int, NEW b \in Int, a <= b
  PROVE  p * a <= p * b
OBVIOUS

LEMMA Division ==
  ASSUME NEW t \in Nat, NEW p \in Nat \ {0}
  PROVE  /\ t \div p \in Nat
         /\ t % p \in 0 .. p - 1
         /\ t = p * (t \div p) + (t % p)
<1>1. t \div p \in Int /\ t % p \in 0 .. p - 1 /\ t = p * (t \div p) + (t % p)
  OBVIOUS
<1>2. ASSUME t \div p <= -1
      PROVE  FALSE
  <2> DEFINE d == t \div p
  <2>1. d \in Int /\ d <= -1
    BY <1>1, <1>2
  <2>2. t = p * d + (t % p)
    BY <1>1
  <2> HIDE DEF d
  <2>3. p * d <= p * (-1)
    BY <2>1, TimesMonotone
  <2> QED
    BY <1>1, <2>1, <2>2, <2>3
<1> QED
  BY <1>1, <1>2

\* A quotient is determined by its multiple and a remainder.
LEMMA Quotient ==
  ASSUME NEW p \in Nat \ {0}, NEW k \in Nat, NEW j \in 0 .. p - 1
  PROVE  (p * k + j) \div p = k
<1> DEFINE t == p * k + j
           d == t \div p
<1>1. t \in Nat
  OBVIOUS
<1>2. d \in Nat /\ t % p \in 0 .. p - 1 /\ t = p * d + (t % p)
  BY <1>1, Division
<1>3. CASE d + 1 <= k
  <2>1. p * (d + 1) <= p * k
    BY <1>2, <1>3, TimesMonotone
  <2>2. p * (d + 1) = p * d + p
    BY <1>2
  <2> QED
    BY <1>2, <2>1, <2>2
<1>4. CASE k + 1 <= d
  <2>1. p * (k + 1) <= p * d
    BY <1>2, <1>4, TimesMonotone
  <2>2. p * (k + 1) = p * k + p
    OBVIOUS
  <2> QED
    BY <1>2, <2>1, <2>2
<1> QED
  BY <1>2, <1>3, <1>4

\* An image is a number of whole packets and a last one of at least a byte.
LEMMA ImageSize ==
  ASSUME NEW f \in Firmware
  PROVE  /\ PacketNum(f) \in Nat \ {0}
         /\ LastPacketSize(f) \in 1 .. PacketMaxSize
         /\ TotalSize[f] = PacketMaxSize * (PacketNum(f) - 1) + LastPacketSize(f)
<1> DEFINE t == TotalSize[f]
           p == PacketMaxSize
           q == t \div p
           r == t % p
<1>1. t \in Nat \ {0} /\ p \in Nat \ {0}
  BY NetAssumption
<1>2. q \in Nat /\ r \in 0 .. p - 1 /\ t = p * q + r
  BY <1>1, Division
<1>3. PacketNum(f) = (t + p - 1) \div p
  BY DEF PacketNum
<1>4. LastPacketSize(f) = IF r = 0 THEN p ELSE r
  BY DEF LastPacketSize
<1> HIDE DEF t, p, q, r
<1>5. CASE r = 0
  <2>1. t + p - 1 = p * q + (p - 1) /\ p - 1 \in 0 .. p - 1
    BY <1>1, <1>2, <1>5
  <2>2. PacketNum(f) = q
    BY <1>1, <1>2, <1>3, <2>1, Quotient
  <2>3. q # 0
    BY <1>1, <1>2, <1>5
  <2>4. p * (q - 1) = p * q - p
    BY <1>1, <1>2
  <2> QED
    BY <1>1, <1>2, <1>4, <1>5, <2>2, <2>3, <2>4 DEF t, p
<1>6. CASE r # 0
  <2>1. p * (q + 1) = p * q + p
    BY <1>1, <1>2
  <2>2. t + p - 1 = p * (q + 1) + (r - 1) /\ r - 1 \in 0 .. p - 1
    BY <1>1, <1>2, <1>6, <2>1
  <2>3. PacketNum(f) = q + 1
    <3>1. (p * (q + 1) + (r - 1)) \div p = q + 1
      BY <1>1, <1>2, <2>2, Quotient
    <3> QED
      BY <1>3, <2>2, <3>1
  <2> QED
    BY <1>1, <1>2, <1>4, <1>6, <2>3 DEF t, p
<1> QED
  BY <1>5, <1>6

LEMMA PacketsFinite ==
  ASSUME NEW f \in Firmware, NEW b \in SUBSET Packets(f)
  PROVE  /\ IsFiniteSet(Packets(f)) /\ Cardinality(Packets(f)) = PacketNum(f)
         /\ IsFiniteSet(b) /\ Cardinality(b) \in 0 .. PacketNum(f)
         /\ Cardinality(b) = PacketNum(f) => b = Packets(f)
<1>1. PacketNum(f) \in Nat \ {0}
  BY ImageSize
<1>2. IsFiniteSet(Packets(f)) /\ Cardinality(Packets(f)) = PacketNum(f)
  BY <1>1, FS_Interval DEF Packets
<1>3. IsFiniteSet(b) /\ Cardinality(b) <= Cardinality(Packets(f))
      /\ (Cardinality(b) = Cardinality(Packets(f)) => b = Packets(f))
  BY <1>2, FS_Subset
<1>4. Cardinality(b) \in Nat
  BY <1>3, FS_CardinalityType
<1> QED
  BY <1>1, <1>2, <1>3, <1>4

----------------------------------------------------------------------------
(* The steps of one device.                                                *)

\* Nothing of n but its RAM flags may change.
Frozen(n) ==
  /\ cfg'[n] = cfg[n] /\ nvs'[n] = nvs[n] /\ flash'[n] = flash[n]
  /\ boot'[n] = boot[n] /\ running'[n] = running[n]

LEMMA DeviceSteps ==
  ASSUME TypeOK, Next, NEW n \in Node
  PROVE  \/ Frozen(n) /\ finished'[n] = finished[n]
         \/ StatusKnown(n) \/ DataStopped(n) \/ DataIgnored(n)
         \/ \E o \in Outcome : StatusNew(n, o)
         \/ DataWrite(n) \/ DataComplete(n) \/ NodeStop(n)
         \/ Reboot(n) \/ CrashInStatus(n)
         \/ \E at \in Moment : CrashInWrite(n, at)
<1> DEFINE Still == Frozen(n) /\ finished'[n] = finished[n]
<1>0. NodeTypeOK
  BY DEF TypeOK
<1>1. CASE UNCHANGED nodeVars
  BY <1>1 DEF nodeVars, ramVars, Frozen
<1>2. ASSUME NEW m \in Node, m # n, StatusKnown(m) \/ DataIgnored(m)
      PROVE  Still
  BY <1>0, <1>2 DEF StatusKnown, DataIgnored, NodeTypeOK, Frozen
<1>3. ASSUME NEW m \in Node, m # n, NEW o \in Outcome, StatusNew(m, o)
      PROVE  Still
  BY <1>0, <1>3 DEF StatusNew, NodeTypeOK, Frozen
<1>4. ASSUME NEW m \in Node, DataNotInit(m)
      PROVE  Still
  BY <1>4 DEF DataNotInit, nodeVars, ramVars, Frozen
<1>5. ASSUME NEW m \in Node, m # n, DataStopped(m) \/ NodeStop(m)
      PROVE  Still
  BY <1>0, <1>5 DEF DataStopped, NodeStop, NvsErased, NodeTypeOK, Frozen
<1>6. ASSUME NEW m \in Node, m # n, DataWrite(m) \/ DataComplete(m)
      PROVE  Still
  BY <1>0, <1>6 DEF DataWrite, DataComplete, FlashWritten, NvsErased, NodeTypeOK,
                    Frozen
<1>7. ASSUME NEW m \in Node, m # n, Reboot(m) \/ CrashInStatus(m)
      PROVE  Still
  BY <1>0, <1>7 DEF Reboot, CrashInStatus, PowerCycle, NodeTypeOK, Frozen
<1>8. ASSUME NEW m \in Node, m # n, NEW at \in Moment, CrashInWrite(m, at)
      PROVE  Still
  BY <1>0, <1>8 DEF CrashInWrite, FlashWritten, NvsErased, PowerCycle, Moment,
                    NodeTypeOK, Frozen
<1> QED
  BY <1>1, <1>2, <1>3, <1>4, <1>5, <1>6, <1>7, <1>8 DEF Next

\* What the handlers make of a configuration.
LEMMA ConfigFields ==
  ASSUME NEW c \in Config, NEW e \in ErrorCode, NEW b \in SUBSET AllSeq,
         NEW w \in Nat
  PROVE  /\ LET d == WithError(c, e) IN
              d.fw = c.fw /\ d.bits = c.bits /\ d.written = c.written
              /\ d.err = IF c.err = "stop" THEN "stop" ELSE e
         /\ LET d == [c EXCEPT !.err = e] IN
              d.fw = c.fw /\ d.bits = c.bits /\ d.written = c.written /\ d.err = e
         /\ LET d == [c EXCEPT !.written = 0, !.bits = {}] IN
              d.fw = c.fw /\ d.bits = {} /\ d.written = 0 /\ d.err = c.err
         /\ LET d == [c EXCEPT !.err = "stop", !.written = 0, !.bits = {}] IN
              d.fw = c.fw /\ d.bits = {} /\ d.written = 0 /\ d.err = "stop"
         /\ LET d == [c EXCEPT !.bits = b, !.written = w] IN
              d.fw = c.fw /\ d.bits = b /\ d.written = w /\ d.err = c.err
BY DEF Config, WithError

----------------------------------------------------------------------------
(* What a device has counted.  The releases may differ, but not in size: a *)
(* packet does not say what it is a packet of.                             *)

SameSize == \A f, g \in Releases : TotalSize[f] = TotalSize[g]

SoundMsg ==
  StatusMsg \cup
    {m \in DataMsg : m.seq \in Packets(m.payload)
                     /\ m.size = PacketSize(m.payload, m.seq)}

Counted(c) ==
  c.fw # NoFw => /\ c.fw \in Releases
                 /\ c.bits \subseteq Packets(c.fw)
                 /\ c.written = BytesOf(c)

\* The packets on their way are packets of a release, and every device has
\* counted, in RAM and in NVS, the packets that it has marked.
CountInv ==
  /\ downlink \in [Node -> Seq(SoundMsg)]
  /\ \A n \in Node : Counted(cfg[n]) /\ Counted(nvs[n])

LEMMA SameCut ==
  ASSUME SameSize, NEW f \in Releases, NEW g \in Releases
  PROVE  /\ PacketNum(f) = PacketNum(g) /\ Packets(f) = Packets(g)
         /\ LastPacketSize(f) = LastPacketSize(g)
         /\ \A s : PacketSize(f, s) = PacketSize(g, s)
BY DEF SameSize, PacketNum, Packets, LastPacketSize, PacketSize

LEMMA CountedEmpty ==
  ASSUME NEW c, c.fw \in Releases \cup {NoFw}, c.bits = {}, c.written = 0
  PROVE  Counted(c)
<1>1. PacketMaxSize \in Nat
  BY NetAssumption
<1>2. BytesOf(c) = 0
  BY <1>1, FS_EmptySet DEF BytesOf
<1> QED
  BY <1>2 DEF Counted

LEMMA CountedSame ==
  ASSUME NEW c, NEW d, Counted(c),
         d.fw = c.fw, d.bits = c.bits, d.written = c.written
  PROVE  Counted(d)
BY DEF Counted, BytesOf

\* Marking one more packet counts its bytes.
LEMMA CountedMore ==
  ASSUME NEW f \in Firmware, NEW b \in SUBSET Packets(f), NEW s \in Packets(f),
         s \notin b, NEW c, NEW d, c.fw = f, d.fw = f,
         c.bits = b, d.bits = b \cup {s}
  PROVE  BytesOf(c) \in Int /\ BytesOf(d) = BytesOf(c) + PacketSize(f, s)
<1> DEFINE k    == Cardinality(b)
           p    == PacketMaxSize
           last == PacketNum(f) - 1
           z    == LastPacketSize(f)
<1>1. k \in Nat /\ Cardinality(b \cup {s}) = k + 1
  BY PacketsFinite, ImageSize, FS_AddElement
<1>2. p \in Nat /\ z \in Nat /\ last \in Nat
  BY NetAssumption, ImageSize
<1>3. BytesOf(c) = k * p - (IF last \in b THEN p - z ELSE 0)
  BY DEF BytesOf
<1>4. BytesOf(d) = (k + 1) * p - (IF last \in b \cup {s} THEN p - z ELSE 0)
  BY <1>1 DEF BytesOf
<1>5. PacketSize(f, s) = IF s = last THEN z ELSE p
  BY DEF PacketSize
<1> HIDE DEF k, p, last, z
<1>6. (k + 1) * p = k * p + p /\ k * p \in Int
  BY <1>1, <1>2
<1> QED
  BY <1>1, <1>2, <1>3, <1>4, <1>5, <1>6

\* Who has counted the bytes of the image has marked all its packets.
LEMMA CountedAll ==
  ASSUME NEW c, c.fw \in Firmware, c.bits \subseteq Packets(c.fw)
  PROVE  BytesOf(c) = TotalSize[c.fw] <=> c.bits = Packets(c.fw)
<1> DEFINE k    == Cardinality(c.bits)
           p    == PacketMaxSize
           num  == PacketNum(c.fw)
           z    == LastPacketSize(c.fw)
           t    == TotalSize[c.fw]
<1>1. /\ k \in 0 .. num
      /\ k = num => c.bits = Packets(c.fw)
      /\ c.bits = Packets(c.fw) => k = num
  BY PacketsFinite
<1>2. /\ p \in Nat \ {0} /\ num \in Nat \ {0}
      /\ z \in 1 .. p /\ t = p * (num - 1) + z
  BY NetAssumption, ImageSize
<1>3. BytesOf(c) = k * p - (IF num - 1 \in c.bits THEN p - z ELSE 0)
  BY DEF BytesOf
<1>4. num - 1 \in Packets(c.fw)
  BY <1>2 DEF Packets
<1> HIDE DEF k, p, num, z, t
<1>5. p * (num - 1) = p * num - p
  BY <1>2
<1>6. CASE c.bits = Packets(c.fw)
  <2>1. BytesOf(c) = num * p - (p - z)
    BY <1>1, <1>3, <1>4, <1>6
  <2>2. num * p = p * num
    BY <1>2
  <2> QED
    BY <1>2, <1>5, <1>6, <2>1, <2>2 DEF t
<1>7. CASE c.bits # Packets(c.fw)
  <2>1. k <= num - 1
    BY <1>1, <1>2, <1>7
  <2>2. p * k <= p * (num - 1) /\ k * p = p * k
    BY <1>1, <1>2, <2>1, TimesMonotone
  <2>3. BytesOf(c) <= p * (num - 1)
    BY <1>1, <1>2, <1>3, <2>2
  <2>4. BytesOf(c) # t
    BY <1>1, <1>2, <1>3, <2>3
  <2> QED
    BY <1>7, <2>4 DEF t
<1> QED
  BY <1>6, <1>7

LEMMA SoundHead ==
  ASSUME downlink \in [Node -> Seq(SoundMsg)], NEW n \in Node, downlink[n] # <<>>
  PROVE  Msg(n) \in SoundMsg /\ Tail(downlink[n]) \in Seq(SoundMsg)
BY DEF Msg

LEMMA SoundData ==
  ASSUME downlink \in [Node -> Seq(SoundMsg)], NEW n \in Node, Receive(n, "data")
  PROVE  /\ Msg(n).payload \in Releases
         /\ Msg(n).seq \in Packets(Msg(n).payload)
         /\ Msg(n).size = PacketSize(Msg(n).payload, Msg(n).seq)
BY SoundHead DEF Receive, SoundMsg, StatusMsg, DataMsg

LEMMA SoundStatus ==
  ASSUME downlink \in [Node -> Seq(SoundMsg)], NEW n \in Node, Receive(n, "status")
  PROVE  Msg(n).fw \in Releases
BY SoundHead DEF Receive, SoundMsg, StatusMsg, DataMsg

\* The packets on their way stay packets of a release.
LEMMA SoundStep ==
  ASSUME TypeOK, Next, downlink \in [Node -> Seq(SoundMsg)]
  PROVE  downlink' \in [Node -> Seq(SoundMsg)]
<1> DEFINE Sound == downlink' \in [Node -> Seq(SoundMsg)]
<1>0. RootTypeOK
  BY DEF TypeOK
<1>1. ASSUME NEW dest, NEW m \in SoundMsg, Multicast(dest, m)
      PROVE  Sound
  <2>1. \A n \in Node : Append(downlink[n], m) \in Seq(SoundMsg)
    BY <1>1
  <2> QED
    BY <1>1, <2>1 DEF Multicast
<1>2. CASE Ask
  <2>1. rootFw \in Releases
    BY <1>0, <1>2, NetAssumption DEF Ask, RootTypeOK
  <2>2. [type |-> "status", fw |-> rootFw] \in SoundMsg
    BY <2>1 DEF SoundMsg, StatusMsg
  <2> QED
    BY <1>1, <1>2, <2>2 DEF Ask
<1>3. CASE PushWrite
  <2> DEFINE m == [type |-> "data", payload |-> rootFw, seq |-> seq,
                   size |-> PacketSize(rootFw, seq)]
  <2>1. rootFw \in Releases /\ rootFw \in Firmware
    BY <1>0, <1>3, NetAssumption DEF PushWrite, RootTypeOK
  <2>2. seq \in Packets(rootFw)
    BY <1>0, <1>3, <2>1, PacketNumBounds DEF PushWrite, RootTypeOK, Packets
  <2>3. seq \in AllSeq /\ PacketSize(rootFw, seq) \in Nat
    BY <1>0, <2>1, <2>2, PacketNumBounds, PacketSizeType DEF RootTypeOK
  <2>4. m \in SoundMsg
    BY <2>1, <2>2, <2>3 DEF SoundMsg, DataMsg
  <2> HIDE DEF m
  <2> QED
    BY <1>1, <1>3, <2>4 DEF PushWrite, m
<1>4. ASSUME NEW n \in Node, downlink[n] # <<>>,
             downlink' = [downlink EXCEPT ![n] = Tail(@)]
      PROVE  Sound
  BY <1>4, SoundHead
<1>5. ASSUME NEW n \in Node, downlink' = [downlink EXCEPT ![n] = <<>>]
      PROVE  Sound
  BY <1>5, EmptySeq
<1>6. CASE UNCHANGED downlink
  BY <1>6
<1>7. ASSUME NEW n \in Node, Lose(n)
      PROVE  Sound
  BY <1>4, <1>6, <1>7 DEF Lose
<1>8. ASSUME NEW n \in Node,
             \/ StatusKnown(n) \/ \E o \in Outcome : StatusNew(n, o)
             \/ DataNotInit(n) \/ DataStopped(n) \/ DataIgnored(n)
             \/ DataWrite(n) \/ DataComplete(n)
      PROVE  Sound
  BY <1>4, <1>8 DEF StatusKnown, StatusNew, DataNotInit, DataStopped, DataIgnored,
                    DataWrite, DataComplete, Receive, Consume
<1>9. ASSUME NEW n \in Node,
             Reboot(n) \/ CrashInStatus(n) \/ \E at \in Moment : CrashInWrite(n, at)
      PROVE  Sound
  BY <1>5, <1>9 DEF Reboot, CrashInStatus, CrashInWrite, PowerCycle
<1>10. CASE \/ \E f \in Releases, ok \in BOOLEAN : FirmwareInit(f, ok)
            \/ \E ok \in BOOLEAN : FirmwareDownload(ok)
            \/ \E T \in Lists, all \in Modes : SendBegin(T, all)
            \/ RoundBegin \/ DrainTake \/ DrainTimeout \/ CollectTimeout
            \/ CollectStop \/ CollectUnasked \/ CollectAnswer \/ RequestEnd
            \/ SendHead \/ ReadFails \/ PushTake \/ SendExit
            \/ StopCall \/ StopArm \/ StopReturn
            \/ \E n \in Node : RootHandle(n) \/ NodeStop(n)
  BY <1>6, <1>10
  DEF FirmwareInit, FirmwareDownload, SendBegin, RoundBegin, DrainTake,
      DrainTimeout, CollectTimeout, CollectStop, CollectUnasked, CollectAnswer,
      Collecting, RequestEnd, SendHead, ReadFails, PushTake, SendExit, StopCall,
      StopArm, StopReturn, RootHandle, NodeStop, netVars
<1> QED
  BY <1>2, <1>3, <1>7, <1>8, <1>9, <1>10 DEF Next

LEMMA RecordedFields ==
  ASSUME NetTypeOK, NodeTypeOK, NEW n \in Node, Receive(n, "data")
  PROVE  /\ Recorded(n).fw = Loaded(n).fw /\ Recorded(n).err = Loaded(n).err
         /\ Recorded(n).bits = Loaded(n).bits \cup {Msg(n).seq}
         /\ Recorded(n).written = Loaded(n).written + Msg(n).size
<1>1. Loaded(n) \in Config
  BY LoadedType
<1>2. /\ Loaded(n).bits \cup {Msg(n).seq} \in SUBSET AllSeq
      /\ Loaded(n).written + Msg(n).size \in Nat
  BY <1>1, ReceiveData DEF Config
<1> QED
  BY <1>1, <1>2, ConfigFields DEF Recorded, ErrorCode

\* A packet that is accepted is counted.
LEMMA CountedRecorded ==
  ASSUME TypeOK, SameSize, CountInv, NEW n \in Node,
         Receive(n, "data"), Accepts(n)
  PROVE  Counted(Recorded(n))
<1> DEFINE c == Loaded(n)
           s == Msg(n).seq
           d == Recorded(n)
<1>0. NetTypeOK /\ NodeTypeOK
  BY DEF TypeOK
<1>1. /\ Msg(n).payload \in Releases /\ s \in Packets(Msg(n).payload)
      /\ Msg(n).size = PacketSize(Msg(n).payload, s)
  BY SoundData DEF CountInv
<1>2. /\ c.fw \in Releases /\ c.fw \in Firmware /\ c.bits \subseteq Packets(c.fw)
      /\ c.written = BytesOf(c) /\ s \notin c.bits
  BY NetAssumption DEF Accepts, Counted, CountInv, Loaded
<1>3. s \in Packets(c.fw) /\ Msg(n).size = PacketSize(c.fw, s)
  BY <1>1, <1>2, SameCut
<1>4. d.fw = c.fw /\ d.bits = c.bits \cup {s} /\ d.written = c.written + Msg(n).size
  BY <1>0, RecordedFields
<1> HIDE DEF c, s, d
<1>5. BytesOf(d) = BytesOf(c) + PacketSize(c.fw, s)
  BY <1>2, <1>3, <1>4, CountedMore
<1> QED
  BY <1>2, <1>3, <1>4, <1>5 DEF Counted, d

\* What every step leaves counted, at one device.
LEMMA CountedStep ==
  ASSUME TypeOK, SameSize, CountInv, Next, NEW n \in Node
  PROVE  Counted(cfg'[n]) /\ Counted(nvs'[n])
<1> DEFINE Good == Counted(cfg'[n]) /\ Counted(nvs'[n])
<1>0. NetTypeOK /\ NodeTypeOK
  BY DEF TypeOK
<1>1. /\ Counted(cfg[n]) /\ Counted(nvs[n]) /\ Counted(Loaded(n))
      /\ downlink \in [Node -> Seq(SoundMsg)]
      /\ cfg[n] \in Config /\ Loaded(n) \in Config
  BY <1>0, LoadedType DEF CountInv, Loaded, NodeTypeOK
<1>2. Counted(EmptyCfg)
  BY CountedEmpty DEF EmptyCfg
<1>3. NvsErased(n)[n] = EmptyCfg
  BY <1>0 DEF NvsErased, NodeTypeOK
<1>4. ASSUME Receive(n, "data"), Accepts(n)
      PROVE  Counted(Recorded(n)) /\ Recorded(n) \in Config
  BY <1>0, <1>4, CountedRecorded, RecordedType
<1>5. CASE Frozen(n)
  BY <1>1, <1>5 DEF Frozen
<1>6. CASE StatusKnown(n)
  <2>1. Counted(WithError(Loaded(n), "ok"))
    BY <1>1, ConfigFields, CountedSame DEF ErrorCode
  <2> QED
    BY <1>0, <1>1, <1>6, <2>1 DEF StatusKnown, NodeTypeOK
<1>7. ASSUME NEW o \in Outcome, StatusNew(n, o)
      PROVE  Good
  <2> DEFINE e == IF o = "done" THEN "ok" ELSE "fail"
             c == NewCfg(Msg(n).fw, e)
  <2>1. Msg(n).fw \in Releases
    BY <1>1, <1>7, SoundStatus DEF StatusNew
  <2>2. Counted(c)
    BY <2>1, CountedEmpty DEF NewCfg
  <2>3. cfg' = [cfg EXCEPT ![n] = c] /\ (nvs' = nvs \/ nvs' = [nvs EXCEPT ![n] = c])
    BY <1>7 DEF StatusNew
  <2> HIDE DEF e, c
  <2> QED
    BY <1>0, <1>1, <2>2, <2>3 DEF NodeTypeOK
<1>8. CASE DataStopped(n)
  <2> DEFINE c == [Loaded(n) EXCEPT !.written = 0, !.bits = {}]
  <2>1. Counted(c)
    <3>1. c.fw = Loaded(n).fw /\ c.bits = {} /\ c.written = 0
      BY <1>1, ConfigFields DEF ErrorCode
    <3>2. c.fw \in Releases \cup {NoFw}
      BY <1>1, <3>1 DEF Counted
    <3> QED
      BY <3>1, <3>2, CountedEmpty
  <2>2. cfg' = [cfg EXCEPT ![n] = c] /\ nvs' = NvsErased(n)
    BY <1>8 DEF DataStopped
  <2> HIDE DEF c
  <2> QED
    BY <1>0, <1>2, <1>3, <2>1, <2>2 DEF NodeTypeOK
<1>9. CASE DataIgnored(n)
  BY <1>0, <1>1, <1>9 DEF DataIgnored, NodeTypeOK
<1>10. CASE DataWrite(n)
  BY <1>0, <1>1, <1>4, <1>10 DEF DataWrite, NodeTypeOK
<1>11. CASE DataComplete(n)
  <2> DEFINE c == [Recorded(n) EXCEPT !.err = IF Verified(n) THEN "ok" ELSE "fail"]
  <2>1. Counted(c)
    <3>1. Counted(Recorded(n)) /\ Recorded(n) \in Config
      BY <1>4, <1>11 DEF DataComplete
    <3>2. (IF Verified(n) THEN "ok" ELSE "fail") \in ErrorCode
      BY DEF ErrorCode
    <3>3. c.fw = Recorded(n).fw /\ c.bits = Recorded(n).bits
          /\ c.written = Recorded(n).written
      BY <3>1, <3>2, ConfigFields
    <3> HIDE DEF c
    <3> QED
      BY <3>1, <3>3, CountedSame
  <2>2. cfg' = [cfg EXCEPT ![n] = c] /\ nvs' = NvsErased(n)
    BY <1>11 DEF DataComplete
  <2> HIDE DEF c
  <2> QED
    BY <1>0, <1>2, <1>3, <2>1, <2>2 DEF NodeTypeOK
<1>12. CASE NodeStop(n)
  <2> DEFINE c == [cfg[n] EXCEPT !.err = "stop", !.written = 0, !.bits = {}]
  <2>1. Counted(c)
    <3>1. c.fw = cfg[n].fw /\ c.bits = {} /\ c.written = 0
      BY <1>1, ConfigFields DEF ErrorCode
    <3>2. c.fw \in Releases \cup {NoFw}
      BY <1>1, <3>1 DEF Counted
    <3> QED
      BY <3>1, <3>2, CountedEmpty
  <2>2. cfg' = [cfg EXCEPT ![n] = c] /\ nvs' = NvsErased(n)
    BY <1>12 DEF NodeStop
  <2> HIDE DEF c
  <2> QED
    BY <1>0, <1>2, <1>3, <2>1, <2>2 DEF NodeTypeOK
<1>13. CASE PowerCycle(n) /\ Counted(nvs'[n])
  BY <1>0, <1>2, <1>13 DEF PowerCycle, NodeTypeOK
<1>14. CASE Reboot(n) \/ CrashInStatus(n)
  BY <1>1, <1>13, <1>14 DEF Reboot, CrashInStatus
<1>15. ASSUME NEW at \in Moment, CrashInWrite(n, at)
       PROVE  Good
  <2>1. Counted(Recorded(n))
    BY <1>4, <1>15 DEF CrashInWrite
  <2>2. Counted(nvs'[n])
    BY <1>0, <1>1, <1>2, <1>3, <1>15, <2>1 DEF CrashInWrite, Moment, NodeTypeOK
  <2> QED
    BY <1>13, <1>15, <2>2 DEF CrashInWrite
<1> QED
  BY <1>5, <1>6, <1>7, <1>8, <1>9, <1>10, <1>11, <1>12, <1>14, <1>15, DeviceSteps

LEMMA CountInit == Init => CountInv
<1> SUFFICES ASSUME Init PROVE CountInv
  OBVIOUS
<1>1. downlink \in [Node -> Seq(SoundMsg)]
  BY EmptySeq DEF Init, NetInit
<1>2. Counted(EmptyCfg)
  BY CountedEmpty DEF EmptyCfg
<1> QED
  BY <1>1, <1>2 DEF Init, NodeInit, CountInv

LEMMA CountStep == SameSize /\ TypeOK /\ CountInv /\ [Next]_vars => CountInv'
<1>1. ASSUME SameSize, TypeOK, CountInv, Next
      PROVE  CountInv'
  BY <1>1, SoundStep, CountedStep DEF CountInv, Counted, BytesOf
<1>2. ASSUME CountInv, UNCHANGED vars
      PROVE  CountInv'
  BY <1>2 DEF vars, netVars, nodeVars, ramVars, CountInv, Counted, BytesOf
<1> QED
  BY <1>1, <1>2

\* Through duplicates, repeated rounds, resets and resumption, written_size is
\* the number of bytes of the packets marked, when all releases have the same
\* size.
THEOREM WrittenAlwaysMatches ==
  ASSUME SameSize
  PROVE  Spec => []WrittenMatchesBits
<1>1. CountInv => WrittenMatchesBits
  BY DEF CountInv, Counted, WrittenMatchesBits
<1>2. TypeOK /\ CountInv /\ [Next]_vars => CountInv'
  BY CountStep
<1> QED
  BY <1>1, <1>2, CountInit, TypeInit, TypeStep, PTL DEF Spec

----------------------------------------------------------------------------
(* What a device holds, when a single release is distributed and no OTA    *)
(* call fails.                                                             *)

OneRelease == \E f \in Firmware : Releases = {f}

Fw == CHOOSE f \in Firmware : Releases = {f}

\* The cells of image img are empty or written with the release, and the
\* packets marked in c are written.
Backed(c, img) ==
  c.fw # NoFw => /\ \A s \in Packets(Fw) : img[s] \in {Blank, Fw}
                 /\ \A s \in c.bits : img[s] = Fw

\* The boot slot has been switched: the upgrade that did it is finished, and a
\* reset will not resume it.
Switched(n) ==
  boot[n] # running[n] =>
    /\ finished[n]
    /\ nvs[n].fw = NoFw
    /\ cfg[n].fw # NoFw /\ cfg[n].err # "stop" /\ cfg[n].bits = Packets(Fw)

FlashInv ==
  spent["fault"] = 0 =>
    \A n \in Node : /\ Backed(cfg[n], flash[n][Target(n)])
                    /\ Backed(nvs[n], flash[n][Target(n)])
                    /\ Switched(n)

\* Device n will hold the image whatever happens to it: it runs it, will boot
\* it, or has saved that it is complete.
Upgraded(n) ==
  \/ IsImage(Fw, flash[n][running[n]])
  \/ boot[n] # running[n]
  \/ nvs[n].fw # NoFw /\ nvs[n].bits = Packets(Fw)

\* What a device saved is not ahead of what it knows, nobody has stopped, and
\* a device that has marked every packet is upgraded.
Honest(n) ==
  /\ cfg[n].err # "stop" /\ nvs[n].err # "stop"
  /\ cfg[n].fw # NoFw /\ nvs[n].fw # NoFw => nvs[n].bits \subseteq cfg[n].bits
  /\ cfg[n].fw # NoFw /\ cfg[n].bits = Packets(Fw) => Upgraded(n)

SuccessInv ==
  spent["fault"] = 0 /\ spent["nodeStop"] = 0 =>
    /\ \A n \in Node : Honest(n)
    /\ \A n \in Node : \A i \in 1 .. Len(uplink[n]) :
         IsComplete(uplink[n][i]) => Upgraded(n)
    /\ \A n \in Node : \A i \in 1 .. Len(queue) :
         queue[i].src = n /\ IsComplete(queue[i].st) => Upgraded(n)
    /\ \A n \in successed : Upgraded(n)

LEMMA Single ==
  ASSUME OneRelease
  PROVE  /\ Releases = {Fw} /\ Fw \in Firmware /\ Fw # NoFw /\ Fw # Blank
         /\ SameSize
BY NetAssumption, NodeAssumption DEF OneRelease, Fw, SameSize

\* Of the configurations of a device.
LEMMA OneName ==
  ASSUME OneRelease, NEW c, Counted(c), c.fw # NoFw
  PROVE  c.fw = Fw /\ c.bits \subseteq Packets(Fw)
BY Single DEF Counted

LEMMA SpendSteps ==
  ASSUME Next
  PROVE  UNCHANGED spent \/ \E h \in Hazard : Spend(h)
<1>1. {"loss", "reboot", "fault", "nodeStop", "rootStop", "session"} \subseteq Hazard
  BY DEF Hazard
<1>2. CASE \/ \E f \in Releases, ok \in BOOLEAN : FirmwareInit(f, ok)
           \/ \E ok \in BOOLEAN : FirmwareDownload(ok)
           \/ \E T \in Lists, all \in Modes : SendBegin(T, all)
           \/ ReadFails \/ StopCall
  BY <1>1, <1>2 DEF FirmwareInit, FirmwareDownload, SendBegin, ReadFails, StopCall
<1>3. CASE \/ RoundBegin \/ DrainTake \/ DrainTimeout \/ Ask \/ CollectTimeout
           \/ CollectStop \/ CollectUnasked \/ CollectAnswer \/ RequestEnd
           \/ SendHead \/ PushTake \/ PushWrite \/ SendExit
           \/ StopArm \/ StopReturn \/ \E n \in Node : RootHandle(n)
  BY <1>3
  DEF RoundBegin, DrainTake, DrainTimeout, Ask, CollectTimeout, CollectStop,
      CollectUnasked, CollectAnswer, Collecting, RequestEnd, SendHead, PushTake,
      PushWrite, SendExit, StopArm, StopReturn, RootHandle, netVars
<1>4. ASSUME NEW n \in Node,
             \/ StatusKnown(n) \/ \E o \in Outcome : StatusNew(n, o)
             \/ DataNotInit(n) \/ DataStopped(n) \/ DataIgnored(n)
             \/ DataWrite(n) \/ DataComplete(n) \/ NodeStop(n)
      PROVE  UNCHANGED spent \/ \E h \in Hazard : Spend(h)
  BY <1>1, <1>4
  DEF StatusKnown, StatusNew, DataNotInit, DataStopped, DataIgnored, DataWrite,
      DataComplete, NodeStop
<1>5. ASSUME NEW n \in Node,
             \/ Reboot(n) \/ CrashInStatus(n) \/ Lose(n)
             \/ \E at \in Moment : CrashInWrite(n, at)
      PROVE  UNCHANGED spent \/ \E h \in Hazard : Spend(h)
  BY <1>1, <1>5 DEF Reboot, CrashInStatus, CrashInWrite, PowerCycle, Lose
<1> QED
  BY <1>2, <1>3, <1>4, <1>5 DEF Next

LEMMA SpentOnce ==
  ASSUME TypeOK, Next
  PROVE  /\ \A h \in Hazard : spent'[h] = 0 => spent[h] = 0
         /\ spent'["fault"] = 0 =>
              \A n \in Node, o \in Outcome : StatusNew(n, o) => o = "done"
         /\ spent'["nodeStop"] = 0 => \A n \in Node : ~NodeStop(n)
<1>0. spent \in [Hazard -> Nat]
  BY DEF TypeOK, NetTypeOK
<1>1. ASSUME NEW h \in Hazard, Spend(h)
      PROVE  spent'[h] # 0 /\ \A g \in Hazard : spent'[g] = 0 => spent[g] = 0
  BY <1>0, <1>1 DEF Spend
<1>2. {"loss", "reboot", "fault", "nodeStop", "rootStop", "session"} \subseteq Hazard
  BY DEF Hazard
<1>3. UNCHANGED spent \/ \E h \in Hazard : Spend(h)
  BY SpendSteps
<1>4. ASSUME NEW n \in Node, NEW o \in Outcome, StatusNew(n, o), o # "done"
      PROVE  spent'["fault"] # 0
  BY <1>1, <1>2, <1>4 DEF StatusNew
<1>5. ASSUME NEW n \in Node, NodeStop(n)
      PROVE  spent'["nodeStop"] # 0
  BY <1>1, <1>2, <1>5 DEF NodeStop
<1> QED
  BY <1>1, <1>3, <1>4, <1>5

\* A packet of the release written over an empty cell or itself.
LEMMA Written ==
  ASSUME OneRelease, TypeOK, CountInv, NEW n \in Node,
         Receive(n, "data"), Accepts(n),
         \A s \in Packets(Fw) : flash[n][Target(n)][s] \in {Blank, Fw}
  PROVE  LET old == flash[n][Target(n)]
             new == FlashWritten(n)[n][Target(n)] IN
         /\ \A s \in Packets(Fw) : /\ new[s] \in {Blank, Fw}
                                   /\ old[s] = Fw => new[s] = Fw
         /\ Msg(n).seq \in Packets(Fw) /\ new[Msg(n).seq] = Fw
         /\ Msg(n).seq \notin Loaded(n).bits /\ Loaded(n).err # "stop"
         /\ Loaded(n).fw = Fw
         /\ Recorded(n).written = TotalSize[Recorded(n).fw]
              <=> Recorded(n).bits = Packets(Fw)
<1> DEFINE old == flash[n][Target(n)]
           new == FlashWritten(n)[n][Target(n)]
           s   == Msg(n).seq
<1>0. NetTypeOK /\ NodeTypeOK
  BY DEF TypeOK
<1>1. Msg(n).payload = Fw /\ s \in Packets(Fw) /\ s \in AllSeq
  BY <1>0, Single, SoundData, ReceiveData DEF CountInv
<1>2. new = [old EXCEPT ![s] = Program(@, Fw)] /\ old \in [AllSeq -> Cell]
  BY <1>0, <1>1, TargetType DEF FlashWritten, NodeTypeOK
<1>3. Packets(Fw) \subseteq AllSeq
  BY Single, PacketNumBounds
<1>4. old[s] \in {Blank, Fw}
  BY <1>1
<1>5. new[s] = Fw /\ \A q \in Packets(Fw) : q # s => new[q] = old[q]
  BY <1>1, <1>2, <1>3, <1>4 DEF Program
<1>6. s \notin Loaded(n).bits /\ Loaded(n).err # "stop" /\ Loaded(n).fw # NoFw
  BY DEF Accepts
<1>7. Loaded(n).fw = Fw
  BY <1>6, OneName DEF CountInv, Loaded
<1>8. Recorded(n).fw = Fw /\ Counted(Recorded(n))
  BY <1>0, <1>7, Single, CountedRecorded, RecordedFields
<1>9. Recorded(n).written = TotalSize[Recorded(n).fw]
        <=> Recorded(n).bits = Packets(Fw)
  BY <1>8, Single, CountedAll DEF Counted
<1> HIDE DEF old, new, s
<1> QED
  BY <1>1, <1>5, <1>6, <1>7, <1>9 DEF old, new, s

\* The flash of one device, step by step.
LEMMA FlashStepAt ==
  ASSUME OneRelease, TypeOK, RunningIntact, CountInv, FlashInv, Next,
         NEW n \in Node, spent'["fault"] = 0
  PROVE  /\ Backed(cfg'[n], flash'[n][1 - running'[n]])
         /\ Backed(nvs'[n], flash'[n][1 - running'[n]])
         /\ Switched(n)'
<1> DEFINE img  == flash[n][Target(n)]
           img2 == flash'[n][1 - running'[n]]
           Good == Backed(cfg'[n], img2) /\ Backed(nvs'[n], img2) /\ Switched(n)'
<1>0. NetTypeOK /\ NodeTypeOK /\ Loaded(n) \in Config /\ cfg[n] \in Config
  BY LoadedType DEF TypeOK, NodeTypeOK
<1>1. /\ Backed(cfg[n], img) /\ Backed(nvs[n], img) /\ Backed(Loaded(n), img)
      /\ Switched(n)
  BY SpentOnce DEF FlashInv, Loaded, Hazard
<1>2. /\ Counted(cfg[n]) /\ Counted(nvs[n]) /\ Counted(Loaded(n))
      /\ downlink \in [Node -> Seq(SoundMsg)]
  BY DEF CountInv, Loaded
<1>3. boot[n] \in Slot /\ running[n] \in Slot /\ Target(n) = 1 - running[n]
  BY <1>0 DEF NodeTypeOK, Target
<1>4. EmptyCfg.fw = NoFw /\ NvsErased(n)[n] = EmptyCfg
  BY <1>0 DEF EmptyCfg, NvsErased, NodeTypeOK
<1>5. boot[n] # running[n] => Loaded(n) = cfg[n]
  BY <1>1 DEF Switched, Loaded
<1>6. CASE Frozen(n) /\ finished'[n] = finished[n]
  BY <1>1, <1>3, <1>6 DEF Frozen, Switched
<1>7. CASE StatusKnown(n)
  <2> DEFINE c == WithError(Loaded(n), "ok")
  <2>1. /\ c.fw = Loaded(n).fw /\ c.bits = Loaded(n).bits
        /\ c.err = "stop" => Loaded(n).err = "stop"
    BY <1>0, ConfigFields DEF ErrorCode
  <2>2. /\ cfg' = [cfg EXCEPT ![n] = c]
        /\ UNCHANGED <<finished, nvs, flash, boot, running>>
    BY <1>7 DEF StatusKnown
  <2> HIDE DEF c
  <2>3. cfg'[n] = c
    BY <1>0, <2>2 DEF NodeTypeOK
  <2> QED
    BY <1>1, <1>3, <1>5, <2>1, <2>2, <2>3 DEF Backed, Switched
<1>8. CASE DataIgnored(n)
  <2>1. cfg'[n] = Loaded(n) /\ UNCHANGED <<finished, nvs, flash, boot, running>>
    BY <1>0, <1>8 DEF DataIgnored, NodeTypeOK
  <2> QED
    BY <1>1, <1>3, <1>5, <2>1 DEF Switched
<1>9. ASSUME NEW o \in Outcome, StatusNew(n, o)
      PROVE  Good
  <2> DEFINE c == NewCfg(Fw, "ok")
  <2>1. o = "done" /\ Msg(n).fw = Fw
    BY <1>2, <1>9, SpentOnce, SoundStatus, Single DEF StatusNew
  <2>2. Loaded(n).fw = NoFw
    BY <1>2, <1>9, <2>1, OneName DEF StatusNew
  <2>3. boot[n] = running[n]
    BY <1>1, <1>5, <2>2 DEF Switched
  <2>4. /\ cfg'[n] = c /\ nvs'[n] = c /\ UNCHANGED <<boot, running>>
        /\ flash'[n][Target(n)] = Erased(img, Fw)
    BY <1>0, <1>9, <2>1, TargetType DEF StatusNew, NodeTypeOK
  <2>5. \A s \in Packets(Fw) : Erased(img, Fw)[s] = Blank
    BY Single, PacketNumBounds DEF Erased
  <2>6. c.bits = {}
    BY DEF NewCfg
  <2> HIDE DEF c, img
  <2> QED
    BY <1>3, <2>3, <2>4, <2>5, <2>6 DEF Backed, Switched
<1>10. CASE DataStopped(n)
  <2> DEFINE c == [Loaded(n) EXCEPT !.written = 0, !.bits = {}]
  <2>1. c.bits = {} /\ c.fw = Loaded(n).fw
    BY <1>0, ConfigFields DEF ErrorCode
  <2>2. /\ cfg'[n] = c /\ nvs'[n] = EmptyCfg
        /\ UNCHANGED <<finished, flash, boot, running>>
    BY <1>0, <1>4, <1>10 DEF DataStopped, NodeTypeOK
  <2>3. boot[n] = running[n]
    BY <1>1, <1>5, <1>10 DEF Switched, DataStopped
  <2> HIDE DEF c
  <2> QED
    BY <1>1, <1>3, <1>4, <2>1, <2>2, <2>3 DEF Backed, Switched
<1>11. ASSUME Receive(n, "data"), Accepts(n)
       PROVE  /\ boot[n] = running[n]
              /\ FlashWritten(n)[n][Target(n)] \in [AllSeq -> Cell]
              /\ Recorded(n).bits = Loaded(n).bits \cup {Msg(n).seq}
              /\ Backed(Recorded(n), FlashWritten(n)[n][Target(n)])
              /\ Backed(nvs[n], FlashWritten(n)[n][Target(n)])
  <2> DEFINE new == FlashWritten(n)[n][Target(n)]
  <2>1. Loaded(n).fw # NoFw
    BY <1>11 DEF Accepts
  <2>2. \A s \in Packets(Fw) : img[s] \in {Blank, Fw}
    BY <1>1, <2>1 DEF Backed
  <2>3. /\ \A s \in Packets(Fw) : /\ new[s] \in {Blank, Fw}
                                  /\ img[s] = Fw => new[s] = Fw
        /\ Msg(n).seq \in Packets(Fw) /\ new[Msg(n).seq] = Fw
        /\ Msg(n).seq \notin Loaded(n).bits
    BY <1>11, <2>2, Written
  <2>4. /\ Recorded(n).bits = Loaded(n).bits \cup {Msg(n).seq}
        /\ Recorded(n).fw = Loaded(n).fw
    BY <1>0, <1>11, RecordedFields
  <2>5. new \in [AllSeq -> Cell]
    BY <1>0, <1>11, FlashWrittenType, TargetType
  <2>6. boot[n] = running[n]
    BY <1>1, <1>5, <2>3 DEF Switched
  <2>7. Loaded(n).bits \subseteq Packets(Fw)
        /\ (nvs[n].fw # NoFw => nvs[n].bits \subseteq Packets(Fw))
    BY <1>2, <2>1, OneName
  <2> HIDE DEF new, img
  <2> QED
    BY <1>1, <2>1, <2>3, <2>4, <2>5, <2>6, <2>7 DEF Backed, new
<1>12. CASE DataWrite(n)
  <2>1. /\ cfg'[n] = Recorded(n) /\ nvs'[n] \in {nvs[n], Recorded(n)}
        /\ flash' = FlashWritten(n) /\ UNCHANGED <<finished, boot, running>>
    BY <1>0, <1>12 DEF DataWrite, NodeTypeOK
  <2> QED
    BY <1>3, <1>11, <1>12, <2>1 DEF DataWrite, Switched
<1>13. CASE DataComplete(n)
  <2> DEFINE e == IF Verified(n) THEN "ok" ELSE "fail"
             c == [Recorded(n) EXCEPT !.err = e]
  <2>1. c.fw = Recorded(n).fw /\ c.bits = Recorded(n).bits /\ c.err # "stop"
    BY <1>0, <1>13, RecordedType, ConfigFields DEF DataComplete, ErrorCode
  <2>2. /\ cfg'[n] = c /\ nvs'[n] = EmptyCfg
        /\ flash' = FlashWritten(n) /\ UNCHANGED running
        /\ \/ finished'[n] = TRUE
           \/ boot' = boot
    BY <1>0, <1>4, <1>13 DEF DataComplete, NodeTypeOK
  <2>3. Recorded(n).bits = Packets(Fw) /\ Recorded(n).fw = Fw
    <3>1. \A s \in Packets(Fw) : img[s] \in {Blank, Fw}
      BY <1>1, <1>13 DEF Backed, DataComplete, Accepts
    <3> QED
      BY <1>0, <1>13, <3>1, Written, RecordedFields DEF DataComplete
  <2> HIDE DEF e, c
  <2> QED
    BY <1>3, <1>4, <1>11, <1>13, <2>1, <2>2, <2>3, Single
    DEF DataComplete, Backed, Switched
<1>14. CASE NodeStop(n)
  <2> DEFINE c == [cfg[n] EXCEPT !.err = "stop", !.written = 0, !.bits = {}]
  <2>1. c.bits = {} /\ c.fw = cfg[n].fw
    BY <1>0, ConfigFields DEF ErrorCode
  <2>2. /\ cfg'[n] = c /\ nvs'[n] = EmptyCfg
        /\ boot'[n] = IF finished[n] THEN running[n] ELSE boot[n]
        /\ UNCHANGED <<finished, flash, running>>
    BY <1>0, <1>4, <1>14 DEF NodeStop, NodeTypeOK
  <2>3. boot'[n] = running[n]
    BY <1>1, <2>2 DEF Switched
  <2> HIDE DEF c
  <2> QED
    BY <1>1, <1>3, <1>4, <2>1, <2>2, <2>3 DEF Backed, Switched
<1>15. ASSUME PowerCycle(n), boot[n] = running[n],
              flash'[n][running[n]] = flash[n][running[n]],
              Backed(nvs'[n], flash'[n][Target(n)])
       PROVE  Good
  <2>1. Valid(flash'[n][boot[n]])
    BY <1>15 DEF RunningIntact
  <2>2. cfg'[n] = EmptyCfg /\ running'[n] = boot[n] /\ boot' = boot
    BY <1>0, <1>15, <2>1 DEF PowerCycle, NodeTypeOK
  <2> QED
    BY <1>3, <1>4, <1>15, <2>2 DEF Backed, Switched
<1>16. CASE Reboot(n)
  <2>1. CASE boot[n] = running[n]
    BY <1>1, <1>15, <1>16, <2>1 DEF Reboot
  <2>2. CASE boot[n] # running[n]
    <3>1. boot[n] = Target(n)
      BY <1>3, <2>2 DEF Slot
    <3>2. IsImage(Fw, flash[n][boot[n]])
      BY <1>1, <2>2, <3>1 DEF Switched, Backed, IsImage
    <3>3. Valid(flash'[n][boot[n]])
      BY <1>16, <3>2, Single DEF Valid, Reboot
    <3>4. /\ cfg'[n] = EmptyCfg /\ running'[n] = boot[n] /\ boot' = boot
          /\ nvs'[n] = nvs[n]
      BY <1>0, <1>16, <3>3 DEF PowerCycle, NodeTypeOK, Reboot
    <3> QED
      BY <1>1, <1>4, <2>2, <3>4 DEF Backed, Switched
  <2> QED
    BY <2>1, <2>2
<1>17. CASE CrashInStatus(n)
  <2>1. Loaded(n).fw = NoFw
    BY <1>2, <1>17, SoundStatus, Single, OneName DEF CrashInStatus
  <2>2. boot[n] = running[n] /\ nvs[n].fw = NoFw
    BY <1>1, <1>5, <2>1 DEF Switched, Loaded
  <2>3. flash'[n][running[n]] = flash[n][running[n]]
    BY <1>0, <1>17, WipeType DEF CrashInStatus
  <2>4. PowerCycle(n) /\ nvs'[n] = nvs[n]
    BY <1>17 DEF CrashInStatus
  <2> QED
    BY <1>15, <2>2, <2>3, <2>4 DEF Backed
<1>18. ASSUME NEW at \in Moment, CrashInWrite(n, at)
       PROVE  Good
  <2>1. /\ Receive(n, "data") /\ Accepts(n) /\ PowerCycle(n)
        /\ flash' = FlashWritten(n)
    BY <1>18 DEF CrashInWrite
  <2>2. nvs'[n] \in {nvs[n], Recorded(n), EmptyCfg}
    BY <1>0, <1>4, <1>18 DEF CrashInWrite, Moment, NodeTypeOK
  <2>3. flash'[n][running[n]] = flash[n][running[n]]
    BY <1>0, <2>1, FlashWrittenType
  <2>4. Backed(EmptyCfg, flash'[n][Target(n)])
    BY <1>4 DEF Backed
  <2> QED
    BY <1>11, <1>15, <2>1, <2>2, <2>3, <2>4
<1> QED
  BY <1>6, <1>7, <1>8, <1>9, <1>10, <1>12, <1>13, <1>14, <1>16, <1>17, <1>18,
     DeviceSteps

LEMMA FlashInit == OneRelease /\ Init => FlashInv
<1> SUFFICES ASSUME Init PROVE FlashInv
  OBVIOUS
<1>1. \A n \in Node : cfg[n] = EmptyCfg /\ nvs[n] = EmptyCfg /\ boot[n] = running[n]
  BY DEF Init, NodeInit
<1> QED
  BY <1>1 DEF FlashInv, Backed, Switched, EmptyCfg

LEMMA FlashStep ==
  OneRelease /\ TypeOK /\ RunningIntact /\ CountInv /\ FlashInv /\ [Next]_vars
    => FlashInv'
<1>1. ASSUME OneRelease, TypeOK, RunningIntact, CountInv, FlashInv, Next
      PROVE  FlashInv'
  <2> SUFFICES ASSUME spent'["fault"] = 0, NEW n \in Node
               PROVE  /\ Backed(cfg'[n], flash'[n][1 - running'[n]])
                      /\ Backed(nvs'[n], flash'[n][1 - running'[n]])
                      /\ Switched(n)'
    BY DEF FlashInv, Target, Backed
  <2> QED
    BY <1>1, FlashStepAt
<1>2. ASSUME FlashInv, UNCHANGED vars
      PROVE  FlashInv'
  BY <1>2 DEF vars, netVars, nodeVars, ramVars, FlashInv, Backed, Switched, Target
<1> QED
  BY <1>1, <1>2

\* With a single release and no failing OTA call, the packets a device has
\* saved as received are in its target slot, whenever it is reset.
THEOREM AlwaysResumable ==
  ASSUME OneRelease
  PROVE  Spec => []ResumeSound
<1>1. CountInv /\ FlashInv => ResumeSound
  <2> SUFFICES ASSUME CountInv, FlashInv, spent["fault"] = 0, NEW n \in Node,
                      nvs[n].fw # NoFw, NEW s \in nvs[n].bits
               PROVE  flash[n][Target(n)][s] = nvs[n].fw
    BY DEF ResumeSound
  <2>1. nvs[n].fw = Fw
    BY OneName DEF CountInv
  <2> QED
    BY <2>1 DEF FlashInv, Backed
<1>2. TypeOK /\ CountInv /\ [Next]_vars => CountInv'
  BY Single, CountStep
<1>3. TypeOK /\ RunningIntact /\ CountInv /\ FlashInv /\ [Next]_vars => FlashInv'
  BY FlashStep
<1>4. Init => FlashInv
  BY FlashInit
<1> QED
  BY <1>1, <1>2, <1>3, <1>4, CountInit, RunningInit, RunningStep, TypeInit, TypeStep,
     PTL DEF Spec

----------------------------------------------------------------------------
(* Who is reported as succeeded.                                           *)

LEMMA SequenceEnds ==
  ASSUME NEW S, NEW s \in Seq(S), NEW e \in S
  PROVE  /\ \A i \in 1 .. Len(Append(s, e)) :
              Append(s, e)[i] = e \/ (i \in 1 .. Len(s) /\ Append(s, e)[i] = s[i])
         /\ s # <<>> =>
              /\ 1 \in 1 .. Len(s) /\ Head(s) = s[1]
              /\ \A i \in 1 .. Len(Tail(s)) :
                   i + 1 \in 1 .. Len(s) /\ Tail(s)[i] = s[i + 1]
OBVIOUS

\* Once upgraded, a device stays so, as long as nothing fails or is stopped.
LEMMA UpgradedKept ==
  ASSUME OneRelease, TypeOK, RunningIntact, CountInv, FlashInv, Next,
         NEW n \in Node, spent'["fault"] = 0, spent'["nodeStop"] = 0,
         Honest(n), Upgraded(n)
  PROVE  Upgraded(n)'
<1>0. NetTypeOK /\ NodeTypeOK /\ boot[n] \in Slot /\ running[n] \in Slot
  BY DEF TypeOK, NodeTypeOK
<1>1. /\ Backed(cfg[n], flash[n][Target(n)]) /\ Switched(n) /\ ~NodeStop(n)
      /\ Counted(cfg[n]) /\ Counted(nvs[n]) /\ Counted(Loaded(n))
      /\ downlink \in [Node -> Seq(SoundMsg)]
  BY SpentOnce DEF FlashInv, CountInv, Loaded, Hazard
<1>2. flash'[n][running[n]] = flash[n][running[n]]
  BY RunningSlotKept
<1>3. \A o \in Outcome : StatusNew(n, o) => Loaded(n).fw = NoFw
  BY <1>1, SoundStatus, Single, OneName DEF StatusNew
<1>4. CrashInStatus(n) => Loaded(n).fw = NoFw
  BY <1>1, SoundStatus, Single, OneName DEF CrashInStatus
<1>5. Receive(n, "data") => Msg(n).seq \in Packets(Fw)
  BY <1>1, SoundData, Single
<1>6. ASSUME PowerCycle(n)
      PROVE  /\ running'[n] = IF Valid(flash'[n][boot[n]]) THEN boot[n] ELSE 1 - boot[n]
             /\ boot' = boot
             /\ boot[n] = running[n] => running'[n] = running[n]
  <2>1. boot[n] = running[n] => Valid(flash'[n][boot[n]])
    BY <1>2 DEF RunningIntact
  <2> QED
    BY <1>0, <1>6, <2>1 DEF PowerCycle, NodeTypeOK
<1>7. CASE boot[n] # running[n]
  <2>1. Loaded(n) = cfg[n] /\ cfg[n].fw # NoFw /\ cfg[n].bits = Packets(Fw)
    BY <1>1, <1>7 DEF Switched, Loaded
  <2>2. ~(Receive(n, "data") /\ Accepts(n))
    BY <1>5, <2>1 DEF Accepts
  <2>3. CASE Reboot(n)
    <3>1. boot[n] = Target(n)
      BY <1>0, <1>7 DEF Slot, Target
    <3>2. IsImage(Fw, flash'[n][boot[n]]) /\ PowerCycle(n)
      BY <1>1, <2>1, <2>3, <3>1 DEF Backed, IsImage, Reboot
    <3> QED
      BY <1>6, <3>2, Single DEF Valid, Upgraded, IsImage
  <2>4. CASE StatusKnown(n) \/ DataIgnored(n) \/ DataStopped(n) \/ Frozen(n)
    BY <1>7, <2>4 DEF StatusKnown, DataIgnored, DataStopped, Frozen, Upgraded
  <2> QED
    BY <1>1, <1>3, <1>4, <2>1, <2>2, <2>3, <2>4, DeviceSteps
    DEF DataWrite, DataComplete, CrashInWrite
<1>8. CASE boot[n] = running[n] /\ IsImage(Fw, flash[n][running[n]])
  <2>1. running'[n] = running[n]
    <3>1. running'[n] = running[n] \/ PowerCycle(n)
      <4>1. ASSUME \/ Frozen(n) \/ StatusKnown(n) \/ DataStopped(n) \/ DataIgnored(n)
                   \/ DataWrite(n) \/ DataComplete(n)
                   \/ \E o \in Outcome : StatusNew(n, o)
            PROVE  running'[n] = running[n]
        BY <4>1 DEF Frozen, StatusKnown, DataStopped, DataIgnored, DataWrite,
                    DataComplete, StatusNew
      <4> QED
        BY <1>1, <4>1, DeviceSteps DEF Reboot, CrashInStatus, CrashInWrite
    <3> QED
      BY <1>6, <1>8, <3>1
  <2> QED
    BY <1>2, <1>8, <2>1 DEF Upgraded, IsImage
<1>9. CASE nvs[n].fw # NoFw /\ nvs[n].bits = Packets(Fw)
  <2>1. Loaded(n).fw # NoFw /\ Packets(Fw) \subseteq Loaded(n).bits
        /\ Loaded(n).err # "stop"
    BY <1>9 DEF Honest, Loaded
  <2>2. ~(Receive(n, "data") /\ Accepts(n))
    BY <1>5, <2>1 DEF Accepts
  <2>3. CASE StatusKnown(n) \/ DataIgnored(n) \/ Frozen(n) \/ Reboot(n)
    BY <1>9, <2>3 DEF StatusKnown, DataIgnored, Frozen, Reboot, Upgraded
  <2> QED
    BY <1>1, <1>3, <1>4, <2>1, <2>2, <2>3, DeviceSteps
    DEF DataWrite, DataComplete, CrashInWrite, DataStopped
<1> QED
  BY <1>7, <1>8, <1>9 DEF Upgraded

\* What an accepted packet makes of a device on which nothing failed.
LEMMA AcceptedPacket ==
  ASSUME OneRelease, TypeOK, CountInv, FlashInv, spent["fault"] = 0,
         NEW n \in Node, Receive(n, "data"), Accepts(n)
  PROVE  /\ Loaded(n).fw = Fw /\ Recorded(n).fw = Fw
         /\ Recorded(n).err = Loaded(n).err
         /\ Recorded(n).bits = Loaded(n).bits \cup {Msg(n).seq}
         /\ Recorded(n).written = TotalSize[Recorded(n).fw]
              <=> Recorded(n).bits = Packets(Fw)
         /\ Recorded(n).bits = Packets(Fw) => Verified(n)
<1> DEFINE img == flash[n][Target(n)]
           new == FlashWritten(n)[n][Target(n)]
<1>0. NetTypeOK /\ NodeTypeOK
  BY DEF TypeOK
<1>1. Backed(Loaded(n), img)
  BY DEF FlashInv, Loaded
<1>2. Loaded(n).fw # NoFw
  BY DEF Accepts
<1>3. \A s \in Packets(Fw) : img[s] \in {Blank, Fw}
  BY <1>1, <1>2 DEF Backed
<1>4. /\ \A s \in Packets(Fw) : img[s] = Fw => new[s] = Fw
      /\ new[Msg(n).seq] = Fw
      /\ Loaded(n).fw = Fw
      /\ Recorded(n).written = TotalSize[Recorded(n).fw]
           <=> Recorded(n).bits = Packets(Fw)
  BY <1>3, Written
<1>5. /\ Recorded(n).fw = Loaded(n).fw /\ Recorded(n).err = Loaded(n).err
      /\ Recorded(n).bits = Loaded(n).bits \cup {Msg(n).seq}
  BY <1>0, RecordedFields
<1>6. Recorded(n).bits = Packets(Fw) => IsImage(Fw, new)
  <2> HIDE DEF new, img
  <2> QED
    BY <1>1, <1>2, <1>4, <1>5 DEF Backed, IsImage
<1>7. IsImage(Fw, new) => Verified(n)
  BY Single DEF Verified, Valid
<1> HIDE DEF new, img
<1> QED
  BY <1>4, <1>5, <1>6, <1>7

LEMMA HonestStep ==
  ASSUME OneRelease, TypeOK, RunningIntact, CountInv, FlashInv, Next,
         NEW n \in Node, spent'["fault"] = 0, spent'["nodeStop"] = 0, Honest(n)
  PROVE  Honest(n)'
<1> DEFINE Whole(c) == c.fw # NoFw /\ c.bits = Packets(Fw)
<1>0. NetTypeOK /\ NodeTypeOK /\ Loaded(n) \in Config
  BY LoadedType DEF TypeOK, NodeTypeOK
<1>1. /\ Counted(cfg[n]) /\ Counted(nvs[n]) /\ Counted(Loaded(n))
      /\ downlink \in [Node -> Seq(SoundMsg)]
      /\ Backed(Loaded(n), flash[n][Target(n)]) /\ Switched(n) /\ ~NodeStop(n)
  BY SpentOnce DEF FlashInv, CountInv, Loaded, Hazard
<1>2. Upgraded(n) => Upgraded(n)'
  BY UpgradedKept
<1>3. Whole(Loaded(n)) => Upgraded(n)
  BY DEF Honest, Loaded, Upgraded
<1>4. /\ Loaded(n).err # "stop"
      /\ nvs[n].fw # NoFw => Loaded(n).fw # NoFw /\ nvs[n].bits \subseteq Loaded(n).bits
  BY DEF Honest, Loaded
<1>5. EmptyCfg.fw = NoFw /\ EmptyCfg.err = "ok" /\ NvsErased(n)[n] = EmptyCfg
  BY <1>0 DEF EmptyCfg, NvsErased, NodeTypeOK
<1>6. CASE Frozen(n)
  BY <1>2, <1>6 DEF Frozen, Honest
<1>7. CASE StatusKnown(n)
  <2> DEFINE c == WithError(Loaded(n), "ok")
  <2>1. c.fw = Loaded(n).fw /\ c.bits = Loaded(n).bits /\ c.err = "ok"
    BY <1>0, <1>4, ConfigFields DEF ErrorCode
  <2>2. cfg'[n] = c /\ nvs'[n] = nvs[n]
    BY <1>0, <1>7 DEF StatusKnown, NodeTypeOK
  <2> HIDE DEF c
  <2> QED
    BY <1>2, <1>3, <1>4, <2>1, <2>2 DEF Honest
<1>8. CASE DataIgnored(n)
  <2>1. cfg'[n] = Loaded(n) /\ nvs'[n] = nvs[n]
    BY <1>0, <1>8 DEF DataIgnored, NodeTypeOK
  <2> QED
    BY <1>2, <1>3, <1>4, <2>1 DEF Honest
<1>9. ASSUME NEW o \in Outcome, StatusNew(n, o)
      PROVE  Honest(n)'
  <2> DEFINE c == NewCfg(Fw, "ok")
  <2>1. o = "done" /\ Msg(n).fw = Fw
    BY <1>1, <1>9, SpentOnce, SoundStatus, Single DEF StatusNew
  <2>2. cfg'[n] = c /\ nvs'[n] = c
    BY <1>0, <1>9, <2>1 DEF StatusNew, NodeTypeOK
  <2>3. c.bits = {} /\ c.err = "ok"
    BY DEF NewCfg
  <2>4. Packets(Fw) # {}
    <3>1. PacketNum(Fw) \in Nat \ {0}
      BY Single, ImageSize
    <3> QED
      BY <3>1 DEF Packets
  <2> HIDE DEF c
  <2> QED
    BY <2>2, <2>3, <2>4 DEF Honest
<1>10. CASE DataStopped(n)
  BY <1>4, <1>10 DEF DataStopped
<1>11. ASSUME Receive(n, "data"), Accepts(n)
       PROVE  /\ Recorded(n).fw = Fw /\ Recorded(n).err # "stop"
              /\ nvs[n].fw # NoFw => nvs[n].bits \subseteq Recorded(n).bits
              /\ Recorded(n).written = TotalSize[Recorded(n).fw]
                   <=> Recorded(n).bits = Packets(Fw)
              /\ Recorded(n).bits = Packets(Fw) => Verified(n)
  <2>1. spent["fault"] = 0
    BY SpentOnce DEF Hazard
  <2> QED
    BY <1>4, <1>11, <2>1, AcceptedPacket
<1>12. CASE DataWrite(n)
  <2>1. /\ cfg'[n] = Recorded(n) /\ nvs'[n] \in {nvs[n], Recorded(n)}
        /\ Recorded(n).written # TotalSize[Recorded(n).fw]
    BY <1>0, <1>12 DEF DataWrite, NodeTypeOK
  <2> QED
    BY <1>11, <1>12, <2>1 DEF DataWrite, Honest
<1>13. CASE DataComplete(n)
  <2>1. Recorded(n).bits = Packets(Fw) /\ Verified(n)
    BY <1>11, <1>13 DEF DataComplete
  <2> DEFINE c == [Recorded(n) EXCEPT !.err = "ok"]
  <2>2. cfg'[n] = c /\ nvs'[n] = EmptyCfg /\ boot'[n] = Target(n) /\ running' = running
    BY <1>0, <1>5, <1>13, <2>1 DEF DataComplete, NodeTypeOK
  <2>3. c.err = "ok"
    BY <1>0, <1>13, RecordedType, ConfigFields DEF DataComplete, ErrorCode
  <2>4. Upgraded(n)'
    BY <1>0, <2>2, TargetType DEF Upgraded
  <2> HIDE DEF c
  <2> QED
    BY <1>5, <2>2, <2>3, <2>4 DEF Honest
<1>14. ASSUME PowerCycle(n), nvs'[n].err # "stop"
       PROVE  Honest(n)'
  <2>1. cfg'[n] = EmptyCfg
    BY <1>0, <1>14 DEF PowerCycle, NodeTypeOK
  <2> QED
    BY <1>5, <1>14, <2>1 DEF Honest
<1>15. CASE Reboot(n) \/ CrashInStatus(n)
  BY <1>14, <1>15 DEF Reboot, CrashInStatus, Honest
<1>16. ASSUME NEW at \in Moment, CrashInWrite(n, at)
       PROVE  Honest(n)'
  <2>1. nvs'[n] \in {nvs[n], Recorded(n), EmptyCfg}
    BY <1>0, <1>5, <1>16 DEF CrashInWrite, Moment, NodeTypeOK
  <2> QED
    BY <1>5, <1>11, <1>14, <1>16, <2>1 DEF CrashInWrite, Honest
<1> QED
  BY <1>1, <1>6, <1>7, <1>8, <1>9, <1>10, <1>12, <1>13, <1>15, <1>16, DeviceSteps

\* What is on its way from a device: an answer is made of what the device knows
\* when it sends it.
LEMMA UplinkSteps ==
  ASSUME TypeOK, Next, NEW n \in Node
  PROVE  \/ uplink'[n] = uplink[n]
         \/ uplink[n] # <<>> /\ uplink'[n] = Tail(uplink[n])
         \/ /\ cfg'[n] \in Config /\ cfg'[n].fw # NoFw
            /\ uplink'[n] = Append(uplink[n], AnswerOf(cfg'[n]))
<1> DEFINE Done == \/ uplink'[n] = uplink[n]
                   \/ uplink[n] # <<>> /\ uplink'[n] = Tail(uplink[n])
                   \/ /\ cfg'[n] \in Config /\ cfg'[n].fw # NoFw
                      /\ uplink'[n] = Append(uplink[n], AnswerOf(cfg'[n]))
<1>0. NetTypeOK /\ NodeTypeOK /\ uplink \in [Node -> Seq(Answer)]
  BY DEF TypeOK, NetTypeOK
<1>1. cfg' \in [Node -> Config]
  BY NodeTypeStep DEF NodeTypeOK
<1>2. ASSUME NEW m \in Node, NEW c \in Config, c.fw # NoFw,
             cfg' = [cfg EXCEPT ![m] = c], SendToRoot(m, AnswerOf(c))
      PROVE  Done
  <2>1. cfg'[m] = c
    BY <1>0, <1>2 DEF NodeTypeOK
  <2>2. uplink' = [uplink EXCEPT ![m] = Append(@, AnswerOf(c))]
    BY <1>2 DEF SendToRoot
  <2>3. CASE m = n
    BY <1>0, <1>2, <2>1, <2>2, <2>3
  <2>4. CASE m # n
    BY <1>0, <2>2, <2>4
  <2> QED
    BY <2>3, <2>4
<1>3. CASE UNCHANGED uplink
  BY <1>3
<1>4. ASSUME NEW m \in Node, uplink[m] # <<>>, uplink' = [uplink EXCEPT ![m] = Tail(@)]
      PROVE  Done
  BY <1>0, <1>4
<1>5. ASSUME NEW m \in Node, StatusKnown(m)
      PROVE  Done
  <2> DEFINE c == WithError(Loaded(m), "ok")
  <2>1. Loaded(m).fw # NoFw
    BY <1>0, <1>5, ReceiveStatus, NetAssumption DEF StatusKnown
  <2>2. c \in Config /\ c.fw # NoFw
    BY <1>0, <2>1, LoadedType, WithErrorType DEF ErrorCode
  <2>3. cfg' = [cfg EXCEPT ![m] = c] /\ SendToRoot(m, AnswerOf(c))
    BY <1>5 DEF StatusKnown
  <2> HIDE DEF c
  <2> QED
    BY <1>2, <2>2, <2>3
<1>6. ASSUME NEW m \in Node, NEW o \in Outcome, StatusNew(m, o)
      PROVE  Done
  <2> DEFINE c == NewCfg(Msg(m).fw, IF o = "done" THEN "ok" ELSE "fail")
  <2>1. Msg(m).fw \in Firmware
    BY <1>0, <1>6, ReceiveStatus DEF StatusNew
  <2>2. c \in Config /\ c.fw # NoFw
    BY <2>1, NewCfgType, NetAssumption DEF ErrorCode
  <2>3. cfg' = [cfg EXCEPT ![m] = c] /\ SendToRoot(m, AnswerOf(c))
    BY <1>6 DEF StatusNew
  <2> HIDE DEF c
  <2> QED
    BY <1>2, <2>2, <2>3
<1>7. ASSUME NEW m \in Node, DataStopped(m)
      PROVE  Done
  <2> DEFINE c == [Loaded(m) EXCEPT !.written = 0, !.bits = {}]
  <2>1. c \in Config /\ c.fw # NoFw
    BY <1>0, <1>7, LoadedType, ClearedType DEF DataStopped
  <2>2. cfg' = [cfg EXCEPT ![m] = c] /\ SendToRoot(m, AnswerOf(c))
    BY <1>7 DEF DataStopped
  <2> HIDE DEF c
  <2> QED
    BY <1>2, <2>1, <2>2
<1>8. ASSUME NEW m \in Node, DataComplete(m)
      PROVE  Done
  <2> DEFINE c == [Recorded(m) EXCEPT !.err = "ok"]
  <2>1. c \in Config /\ c.fw # NoFw
    BY <1>0, <1>8, RecordedType, ErrType DEF DataComplete, Accepts, ErrorCode
  <2>2. CASE Verified(m)
    <3>1. cfg' = [cfg EXCEPT ![m] = c] /\ SendToRoot(m, AnswerOf(c))
      BY <1>8, <2>2 DEF DataComplete
    <3> HIDE DEF c
    <3> QED
      BY <1>2, <2>1, <3>1
  <2>3. CASE ~Verified(m)
    BY <1>8, <2>3 DEF DataComplete
  <2> QED
    BY <2>2, <2>3
<1>9. ASSUME NEW m \in Node, NodeStop(m)
      PROVE  Done
  <2> DEFINE c == [cfg[m] EXCEPT !.err = "stop", !.written = 0, !.bits = {}]
  <2>1. c \in Config /\ c.fw # NoFw
    BY <1>0, <1>9, StoppedType DEF NodeStop, NodeTypeOK
  <2>2. cfg' = [cfg EXCEPT ![m] = c] /\ SendToRoot(m, AnswerOf(c))
    BY <1>9 DEF NodeStop
  <2> HIDE DEF c
  <2> QED
    BY <1>2, <2>1, <2>2
<1>10. ASSUME NEW m \in Node, RootHandle(m) \/ Lose(m)
       PROVE  Done
  BY <1>3, <1>4, <1>10 DEF RootHandle, Lose
<1>11. ASSUME NEW m \in Node,
              \/ DataNotInit(m) \/ DataIgnored(m) \/ DataWrite(m)
              \/ Reboot(m) \/ CrashInStatus(m) \/ \E at \in Moment : CrashInWrite(m, at)
       PROVE  Done
  BY <1>3, <1>11 DEF DataNotInit, DataIgnored, DataWrite, Reboot, CrashInStatus,
                     CrashInWrite, PowerCycle
<1>12. CASE \/ \E f \in Releases, ok \in BOOLEAN : FirmwareInit(f, ok)
            \/ \E ok \in BOOLEAN : FirmwareDownload(ok)
            \/ \E T \in Lists, all \in Modes : SendBegin(T, all)
            \/ RoundBegin \/ DrainTake \/ DrainTimeout \/ Ask \/ CollectTimeout
            \/ CollectStop \/ CollectUnasked \/ CollectAnswer \/ RequestEnd
            \/ SendHead \/ ReadFails \/ PushTake \/ PushWrite \/ SendExit
            \/ StopCall \/ StopArm \/ StopReturn
  BY <1>3, <1>12
  DEF FirmwareInit, FirmwareDownload, SendBegin, RoundBegin, DrainTake,
      DrainTimeout, Ask, CollectTimeout, CollectStop, CollectUnasked,
      CollectAnswer, Collecting, RequestEnd, SendHead, ReadFails, PushTake,
      PushWrite, SendExit, StopCall, StopArm, StopReturn, netVars
<1> QED
  BY <1>5, <1>6, <1>7, <1>8, <1>9, <1>10, <1>11, <1>12 DEF Next

\* What the root does with the queue: answers enter it in the order in which
\* they arrive.
LEMMA QueueSteps ==
  ASSUME TypeOK, Next
  PROVE  \/ queue' = queue
         \/ queue' = <<>>
         \/ queue # <<>> /\ queue' = Tail(queue)
         \/ \E m \in Node :
              /\ uplink[m] # <<>>
              /\ queue' = Append(queue, [src |-> m, st |-> Head(uplink[m])])
<1>1. CASE DrainTake \/ PushTake \/ CollectStop \/ CollectUnasked \/ CollectAnswer
  BY <1>1 DEF DrainTake, PushTake, CollectStop, CollectUnasked, CollectAnswer,
              Collecting
<1>2. ASSUME NEW m \in Node, RootHandle(m)
      PROVE  \/ queue' = queue
             \/ /\ uplink[m] # <<>>
                /\ queue' = Append(queue, [src |-> m, st |-> Head(uplink[m])])
  BY <1>2 DEF RootHandle
<1>3. CASE (\E f \in Releases, ok \in BOOLEAN : FirmwareInit(f, ok)) \/ SendExit
  BY <1>3 DEF FirmwareInit, SendExit
<1>4. CASE \/ \E ok \in BOOLEAN : FirmwareDownload(ok)
           \/ \E T \in Lists, all \in Modes : SendBegin(T, all)
           \/ RoundBegin \/ DrainTimeout \/ Ask \/ CollectTimeout \/ RequestEnd
           \/ SendHead \/ ReadFails \/ PushWrite \/ StopCall \/ StopArm
           \/ StopReturn \/ UNCHANGED rootVars
  BY <1>4 DEF FirmwareDownload, SendBegin, RoundBegin, DrainTimeout, Ask,
              CollectTimeout, RequestEnd, SendHead, ReadFails, PushWrite, StopCall,
              StopArm, StopReturn, rootVars
<1> QED
  BY <1>1, <1>2, <1>3, <1>4 DEF Next

\* What the root does with its lists: a campaign begins, ends, or takes the
\* answer at the head of the queue, whose device is then not waited for any
\* longer; a complete answer is the only one that counts it as succeeded.
LEMMA ListSteps ==
  ASSUME TypeOK, Next
  PROVE  \/ UNCHANGED <<rpc = "idle", unfinished, successed>>
         \/ /\ rpc = "idle" /\ rpc' # "idle"
            /\ unfinished' \subseteq Node /\ successed' = {}
         \/ /\ rpc # "idle" /\ rpc' = "idle"
            /\ UNCHANGED <<unfinished, successed>>
         \/ /\ rpc # "idle" /\ rpc' # "idle"
            /\ queue # <<>> /\ Src \in unfinished
            /\ unfinished' = unfinished \ {Src}
            /\ \/ successed' = successed
               \/ IsComplete(St) /\ successed' = successed \cup {Src}
<1> USE DEF lists
<1>1. CASE DrainTake \/ PushTake \/ CollectStop \/ CollectUnasked \/ CollectAnswer
  BY <1>1 DEF DrainTake, PushTake, CollectStop, CollectUnasked, CollectAnswer,
              Collecting, MoveToSuccessed
<1>2. ASSUME NEW T \in Lists, NEW all \in Modes, SendBegin(T, all)
      PROVE  /\ rpc = "idle" /\ rpc' # "idle"
             /\ unfinished' \subseteq Node /\ successed' = {}
  BY <1>2, RootAssumption DEF SendBegin
<1>3. CASE SendExit
  BY <1>3 DEF SendExit
<1>4. CASE \/ \E f \in Releases, ok \in BOOLEAN : FirmwareInit(f, ok)
           \/ \E ok \in BOOLEAN : FirmwareDownload(ok)
           \/ \E n \in Node : RootHandle(n)
           \/ RoundBegin \/ DrainTimeout \/ Ask \/ CollectTimeout \/ RequestEnd
           \/ SendHead \/ ReadFails \/ PushWrite \/ StopCall \/ StopArm
           \/ StopReturn \/ UNCHANGED rootVars
  BY <1>4 DEF FirmwareInit, FirmwareDownload, RootHandle, RoundBegin, DrainTimeout,
              Ask, CollectTimeout, RequestEnd, SendHead, ReadFails, PushWrite,
              StopCall, StopArm, StopReturn, rootVars
<1> QED
  BY <1>1, <1>2, <1>3, <1>4 DEF Next

LEMMA SuccessInit == Init => SuccessInv
<1> SUFFICES ASSUME Init PROVE SuccessInv
  OBVIOUS
<1>1. /\ \A n \in Node : cfg[n] = EmptyCfg /\ nvs[n] = EmptyCfg /\ uplink[n] = <<>>
      /\ queue = <<>> /\ successed = {}
  BY DEF Init, NodeInit, NetInit, RootInit
<1>2. EmptyCfg.fw = NoFw /\ EmptyCfg.err = "ok"
  BY DEF EmptyCfg
<1>3. \A n \in Node : Honest(n)
  BY <1>1, <1>2 DEF Honest
<1> HIDE DEF Init
<1> QED
  BY <1>1, <1>3 DEF SuccessInv

\* An answer that says everything is there is made of a configuration with
\* every packet marked.
LEMMA CompleteAnswer ==
  ASSUME OneRelease, NEW c, Counted(c), c.fw # NoFw, IsComplete(AnswerOf(c))
  PROVE  c.bits = Packets(Fw)
<1>1. c.fw = Fw /\ Counted(c)
  BY OneName
<1>2. c.written = TotalSize[Fw]
  BY <1>1 DEF IsComplete, AnswerOf
<1> QED
  BY <1>1, <1>2, Single, CountedAll DEF Counted

LEMMA SuccessStep ==
  OneRelease /\ TypeOK /\ RunningIntact /\ CountInv /\ FlashInv /\ SuccessInv
    /\ [Next]_vars => SuccessInv'
<1>1. ASSUME OneRelease, TypeOK, RunningIntact, CountInv, FlashInv, SuccessInv, Next
      PROVE  SuccessInv'
  <2> SUFFICES ASSUME spent'["fault"] = 0, spent'["nodeStop"] = 0
               PROVE  /\ \A n \in Node : Honest(n)'
                      /\ \A n \in Node : \A i \in 1 .. Len(uplink'[n]) :
                           IsComplete(uplink'[n][i]) => Upgraded(n)'
                      /\ \A n \in Node : \A i \in 1 .. Len(queue') :
                           queue'[i].src = n /\ IsComplete(queue'[i].st)
                             => Upgraded(n)'
                      /\ \A n \in successed' : Upgraded(n)'
    BY DEF SuccessInv
  <2>1. /\ \A n \in Node : Honest(n)
        /\ \A n \in Node : \A i \in 1 .. Len(uplink[n]) :
             IsComplete(uplink[n][i]) => Upgraded(n)
        /\ \A n \in Node : \A i \in 1 .. Len(queue) :
             queue[i].src = n /\ IsComplete(queue[i].st) => Upgraded(n)
        /\ \A n \in successed : Upgraded(n)
    BY <1>1, SpentOnce DEF SuccessInv, Hazard
  <2>2. \A n \in Node : Honest(n)'
    BY <1>1, <2>1, HonestStep
  <2>3. \A n \in Node : Upgraded(n) => Upgraded(n)'
    BY <1>1, <2>1, UpgradedKept
  <2>4. /\ uplink \in [Node -> Seq(Answer)] /\ queue \in Seq(Queued)
        /\ CountInv' /\ \A n \in Node : cfg'[n].fw # NoFw => Counted(cfg'[n])
    <3>1. CountInv'
      BY <1>1, CountStep, Single
    <3> QED
      BY <1>1, <3>1 DEF TypeOK, NetTypeOK, RootTypeOK, CountInv
  <2>5. ASSUME NEW n \in Node, NEW i \in 1 .. Len(uplink'[n]),
               IsComplete(uplink'[n][i])
        PROVE  Upgraded(n)'
    <3>1. CASE uplink'[n] = uplink[n]
      BY <2>1, <2>3, <2>5, <3>1
    <3>2. CASE uplink[n] # <<>> /\ uplink'[n] = Tail(uplink[n])
      <4>1. i + 1 \in 1 .. Len(uplink[n]) /\ uplink'[n][i] = uplink[n][i + 1]
        BY <2>4, <2>5, <3>2, SequenceEnds
      <4> QED
        BY <2>1, <2>3, <2>5, <4>1
    <3>3. CASE /\ cfg'[n] \in Config /\ cfg'[n].fw # NoFw
               /\ uplink'[n] = Append(uplink[n], AnswerOf(cfg'[n]))
      <4> DEFINE e == AnswerOf(cfg'[n])
      <4>1. e \in Answer
        BY <3>3, AnswerOfType
      <4>2. IsComplete(e) => cfg'[n].bits = Packets(Fw)
        BY <1>1, <2>4, <3>3, CompleteAnswer
      <4>3. IsComplete(e) => Upgraded(n)'
        BY <2>2, <3>3, <4>2 DEF Honest
      <4> HIDE DEF e
      <4>4. uplink'[n] = Append(uplink[n], e)
        BY <3>3 DEF e
      <4>5. \/ uplink'[n][i] = e
            \/ i \in 1 .. Len(uplink[n]) /\ uplink'[n][i] = uplink[n][i]
        BY <2>4, <2>5, <4>1, <4>4, SequenceEnds
      <4> QED
        BY <2>1, <2>3, <2>5, <4>3, <4>5
    <3> QED
      BY <1>1, <3>1, <3>2, <3>3, UplinkSteps
  <2>6. ASSUME NEW n \in Node, NEW i \in 1 .. Len(queue'),
               queue'[i].src = n, IsComplete(queue'[i].st)
        PROVE  Upgraded(n)'
    <3>1. CASE queue' = queue
      BY <2>1, <2>3, <2>6, <3>1
    <3>2. CASE queue' = <<>>
      BY <2>6, <3>2
    <3>3. CASE queue # <<>> /\ queue' = Tail(queue)
      <4>1. i + 1 \in 1 .. Len(queue) /\ queue'[i] = queue[i + 1]
        BY <2>4, <2>6, <3>3, SequenceEnds
      <4> QED
        BY <2>1, <2>3, <2>6, <4>1
    <3>4. ASSUME NEW m \in Node, uplink[m] # <<>>,
                 queue' = Append(queue, [src |-> m, st |-> Head(uplink[m])])
          PROVE  Upgraded(n)'
      <4> DEFINE a == Head(uplink[m])
                 e == [src |-> m, st |-> a]
      <4>1. 1 \in 1 .. Len(uplink[m]) /\ a = uplink[m][1] /\ a \in Answer
        BY <2>4, <3>4, SequenceEnds
      <4>2. IsComplete(a) => Upgraded(m)
        BY <2>1, <4>1
      <4>3. e \in Queued /\ e.src = m /\ e.st = a /\ queue' = Append(queue, e)
        BY <3>4, <4>1 DEF Queued
      <4> HIDE DEF a, e
      <4>4. \/ queue'[i] = e
            \/ i \in 1 .. Len(queue) /\ queue'[i] = queue[i]
        BY <2>4, <2>6, <4>3, SequenceEnds
      <4> QED
        BY <2>1, <2>3, <2>6, <4>2, <4>3, <4>4
    <3> QED
      BY <1>1, <3>1, <3>2, <3>3, <3>4, QueueSteps
  <2>7. ASSUME NEW n \in successed'
        PROVE  Upgraded(n)'
    <3>1. CASE n \in successed
      BY <1>1, <2>1, <2>3, <3>1 DEF TypeOK, RootTypeOK
    <3>2. CASE queue # <<>> /\ IsComplete(St) /\ n = Src
      <4>1. 1 \in 1 .. Len(queue) /\ Head(queue) = queue[1] /\ n \in Node
        BY <1>1, <2>4, <3>2, SequenceEnds, QueueHead DEF TypeOK
      <4> QED
        BY <2>1, <2>3, <3>2, <4>1 DEF St, Src
    <3> QED
      BY <1>1, <2>7, <3>1, <3>2, ListSteps
  <2> QED
    BY <2>2, <2>5, <2>6, <2>7
<1>2. ASSUME SuccessInv, UNCHANGED vars
      PROVE  SuccessInv'
  BY <1>2 DEF vars, netVars, rootVars, lists, nodeVars, ramVars, SuccessInv, Honest,
              Upgraded
<1> QED
  BY <1>1, <1>2

\* An upgraded device holds the image.
LEMMA UpgradedHolds ==
  ASSUME OneRelease, TypeOK, FlashInv, spent["fault"] = 0,
         NEW n \in Node, Upgraded(n)
  PROVE  n \in Holders
<1>1. running[n] \in Slot /\ Target(n) \in Slot
  BY TargetType DEF TypeOK, NodeTypeOK
<1>2. CASE IsImage(Fw, flash[n][running[n]])
  BY <1>1, <1>2, Single DEF Holders
<1>3. CASE boot[n] # running[n] \/ (nvs[n].fw # NoFw /\ nvs[n].bits = Packets(Fw))
  <2>1. IsImage(Fw, flash[n][Target(n)])
    BY <1>3 DEF FlashInv, Backed, Switched, IsImage
  <2> QED
    BY <1>1, <2>1, Single DEF Holders
<1> QED
  BY <1>2, <1>3 DEF Upgraded

\* With a single release, no failing OTA call and no device told to stop, a
\* device that the root lists as succeeded holds the whole image, whichever
\* answers were lost, queued, late or taken out of step, and whoever was reset.
THEOREM SuccessAlwaysFlashed ==
  ASSUME OneRelease
  PROVE  Spec => []SuccessFlashed
<1>1. TypeOK /\ FlashInv /\ SuccessInv => SuccessFlashed
  <2> SUFFICES ASSUME TypeOK, FlashInv, SuccessInv, rpc # "idle",
                      spent["nodeStop"] = 0, spent["fault"] = 0,
                      NEW n \in successed
               PROVE  \E i \in Slot : IsImage(rootFw, flash[n][i])
    BY DEF SuccessFlashed
  <2>1. n \in Node /\ Upgraded(n)
    BY DEF TypeOK, RootTypeOK, SuccessInv
  <2>2. rootFw = Fw
    BY Single DEF TypeOK, RootTypeOK
  <2> QED
    BY <2>1, <2>2, UpgradedHolds, Single DEF Holders
<1>2. TypeOK /\ CountInv /\ [Next]_vars => CountInv'
  BY Single, CountStep
<1>3. TypeOK /\ RunningIntact /\ CountInv /\ FlashInv /\ [Next]_vars => FlashInv'
  BY FlashStep
<1>4. TypeOK /\ RunningIntact /\ CountInv /\ FlashInv /\ SuccessInv /\ [Next]_vars
        => SuccessInv'
  BY SuccessStep
<1>5. Init => FlashInv
  BY FlashInit
<1> QED
  BY <1>1, <1>2, <1>3, <1>4, <1>5, CountInit, SuccessInit, RunningInit, RunningStep,
     TypeInit, TypeStep, PTL DEF Spec

----------------------------------------------------------------------------
(* Refinement.                                                             *)

\* No OTA call has failed, and no device was told to stop its upgrade.
Undisturbed == spent["fault"] = 0 /\ spent["nodeStop"] = 0

\* Every device reported to have succeeded holds the image.
ReportsHold == Undisturbed => successed \subseteq Holders

\* A step changes the flash of at most one device.
LEMMA OneDevice ==
  ASSUME TypeOK, Next
  PROVE  \/ flash' = flash
         \/ \E m \in Node : \A n \in Node \ {m} : flash'[n] = flash[n]
<1>0. NodeTypeOK
  BY DEF TypeOK
<1>1. ASSUME NEW m \in Node, NEW o \in Outcome, StatusNew(m, o)
      PROVE  \A n \in Node \ {m} : flash'[n] = flash[n]
  BY <1>0, <1>1 DEF StatusNew, NodeTypeOK
<1>2. ASSUME NEW m \in Node,
             \/ DataWrite(m) \/ DataComplete(m)
             \/ \E at \in Moment : CrashInWrite(m, at)
      PROVE  \A n \in Node \ {m} : flash'[n] = flash[n]
  BY <1>0, <1>2 DEF DataWrite, DataComplete, CrashInWrite, FlashWritten, NodeTypeOK
<1>3. ASSUME NEW m \in Node, CrashInStatus(m)
      PROVE  \A n \in Node \ {m} : flash'[n] = flash[n]
  BY <1>0, <1>3 DEF CrashInStatus, NodeTypeOK
<1>4. ASSUME NEW m \in Node,
             \/ StatusKnown(m) \/ DataNotInit(m) \/ DataStopped(m)
             \/ DataIgnored(m) \/ NodeStop(m) \/ Reboot(m)
      PROVE  flash' = flash
  BY <1>4 DEF StatusKnown, DataNotInit, DataStopped, DataIgnored, NodeStop, Reboot,
              nodeVars
<1>5. CASE UNCHANGED nodeVars
  BY <1>5 DEF nodeVars
<1> QED
  BY <1>1, <1>2, <1>3, <1>4, <1>5 DEF Next

\* A device takes a step, or the root or the mesh does.
LEMMA Sides ==
  ASSUME Next
  PROVE  UNCHANGED nodeVars \/ UNCHANGED rootVars
BY DEF Next

LEMMA CampaignStep ==
  OneRelease /\ TypeOK /\ FlashInv /\ SuccessInv /\ Undisturbed
    /\ ReportsHold' /\ Undisturbed' /\ [Next]_vars
    => [Campaign!Next]_(Campaign!vars)
<1> SUFFICES ASSUME OneRelease, TypeOK, FlashInv, SuccessInv, Undisturbed,
                    ReportsHold', Undisturbed', [Next]_vars
             PROVE  [Campaign!Next]_(Campaign!vars)
  OBVIOUS
<1> DEFINE active  == rpc # "idle"
           active2 == rpc' # "idle"
           Still   == active2 = active /\ UNCHANGED <<unfinished, successed>>
<1>1. CASE UNCHANGED vars
  <2>1. Still /\ UNCHANGED flash
    BY <1>1 DEF vars, rootVars, lists, nodeVars
  <2> QED
    BY <2>1 DEF Campaign!vars, Holders
<1>2. CASE Next /\ UNCHANGED nodeVars
  <2>1. UNCHANGED Holders
    BY <1>2 DEF nodeVars, Holders
  <2>2. CASE Still
    BY <2>1, <2>2 DEF Campaign!vars
  <2>3. CASE /\ ~active /\ active2
             /\ unfinished' \subseteq Node /\ successed' = {}
    BY <2>1, <2>3 DEF Campaign!Next, Campaign!Begin
  <2>4. CASE /\ active /\ ~active2
             /\ UNCHANGED <<unfinished, successed>>
    BY <2>1, <2>4 DEF Campaign!Next, Campaign!End
  <2>5. CASE /\ active /\ active2
             /\ queue # <<>> /\ Src \in unfinished
             /\ unfinished' = unfinished \ {Src}
             /\ \/ successed' = successed
                \/ IsComplete(St) /\ successed' = successed \cup {Src}
    <3>1. Src \in Node /\ queue \in Seq(Queued)
      BY <2>5 DEF TypeOK, RootTypeOK
    <3>2. CASE successed' = successed
      <4>1. Campaign!GiveUp(Src)
        BY <2>1, <2>5, <3>2 DEF Campaign!GiveUp
      <4> QED
        BY <3>1, <4>1 DEF Campaign!Next
    <3>3. CASE IsComplete(St) /\ successed' = successed \cup {Src}
      <4>1. 1 \in 1 .. Len(queue) /\ Head(queue) = queue[1]
        BY <2>5, <3>1, SequenceEnds
      <4>2. Upgraded(Src)
        BY <3>1, <3>3, <4>1 DEF SuccessInv, Undisturbed, Src, St
      <4>3. Src \in Holders
        BY <3>1, <4>2, UpgradedHolds DEF Undisturbed
      <4>4. Campaign!Report(Src)
        BY <2>1, <2>5, <3>3, <4>3 DEF Campaign!Report
      <4> QED
        BY <3>1, <4>4 DEF Campaign!Next
    <3> QED
      BY <2>5, <3>2, <3>3
  <2> QED
    BY <1>2, <2>2, <2>3, <2>4, <2>5, ListSteps
<1>3. CASE Next /\ UNCHANGED rootVars
  <2>1. Still
    BY <1>3 DEF rootVars, lists
  <2>2. CASE UNCHANGED Holders
    BY <2>1, <2>2 DEF Campaign!vars
  <2>3. ASSUME NEW m \in Node, \A n \in Node \ {m} : flash'[n] = flash[n]
        PROVE  [Campaign!Next]_(Campaign!vars)
    <3>1. \A n \in Node \ {m} : n \in Holders' <=> n \in Holders
      BY <2>3 DEF Holders
    <3>2. Holders \subseteq Node /\ Holders' \subseteq Node
      BY DEF Holders
    <3>3. CASE m \in Holders'
      <4>1. Holders' = Holders \cup {m}
        BY <2>3, <3>1, <3>2, <3>3
      <4>2. Campaign!Install(m)
        BY <2>1, <4>1 DEF Campaign!Install
      <4> QED
        BY <4>2 DEF Campaign!Next
    <3>4. CASE m \notin Holders'
      <4>1. Holders' = Holders \ {m}
        BY <3>1, <3>2, <3>4
      <4>2. m \notin successed
        BY <2>1, <3>4 DEF ReportsHold
      <4>3. Campaign!Forget(m)
        BY <2>1, <4>1, <4>2 DEF Campaign!Forget
      <4> QED
        BY <4>3 DEF Campaign!Next
    <3> QED
      BY <3>3, <3>4
  <2> QED
    BY <1>3, <2>2, <2>3, OneDevice DEF Holders
<1> QED
  BY <1>1, <1>2, <1>3, Sides

\* As long as nothing fails and no device is told to stop, a campaign of a
\* single release keeps the promise of MupgradeCampaign: mupgrade_firmware_send
\* reports a device only while it is pending, once, and only if it holds the
\* image, which the device never loses afterwards.
THEOREM CampaignKept ==
  ASSUME OneRelease
  PROVE  Spec /\ []Undisturbed => Campaign!Safety
<1>1. TypeOK /\ FlashInv /\ SuccessInv => ReportsHold
  BY UpgradedHolds DEF ReportsHold, Undisturbed, SuccessInv, TypeOK, RootTypeOK
<1>2. TypeOK /\ CountInv /\ [Next]_vars => CountInv'
  BY Single, CountStep
<1>3. TypeOK /\ RunningIntact /\ CountInv /\ FlashInv /\ [Next]_vars => FlashInv'
  BY FlashStep
<1>4. TypeOK /\ RunningIntact /\ CountInv /\ FlashInv /\ SuccessInv /\ [Next]_vars
        => SuccessInv'
  BY SuccessStep
<1>5. TypeOK /\ FlashInv /\ SuccessInv /\ Undisturbed
        /\ ReportsHold' /\ Undisturbed' /\ [Next]_vars
        => [Campaign!Next]_(Campaign!vars)
  BY CampaignStep
<1>6. Init => Campaign!Init
  BY DEF Init, RootInit, Holders, Campaign!Init
<1>7. Init => FlashInv
  BY FlashInit
<1> QED
  BY <1>1, <1>2, <1>3, <1>4, <1>5, <1>6, <1>7, CountInit, SuccessInit, RunningInit,
     RunningStep, TypeInit, TypeStep, PTL DEF Spec, Campaign!Safety

----------------------------------------------------------------------------
(* What a reset costs.  A handler saves when the percentage is exactly the *)
(* next one to report, so no percentage to report may be jumped over:      *)
(* either a packet is at most one percent of the image, or a packet is     *)
(* exactly one report interval of it.                                      *)

NoPercentSkipped(f) ==
  \/ 100 * PacketMaxSize <= TotalSize[f]
  \/ TotalSize[f] % PacketMaxSize = 0
     /\ 100 * PacketMaxSize = ReportInterval * TotalSize[f]

\* With p the next percentage to report: it is not reached by the w bytes
\* written, and the one before it is reached by the bytes saved.
Within(w, saved, p) ==
  /\ \E j \in Nat : p = ReportInterval * (j + 1)
  /\ w * 100 < p * TotalSize[Fw]
  /\ (p - ReportInterval) * TotalSize[Fw] <= saved * 100

\* A device that was not reset.
SavedAt(n) ==
  /\ cfg[n].fw = NoFw => nvs[n] = EmptyCfg /\ nextPct[n] = ReportInterval
  /\ cfg[n].fw # NoFw /\ cfg[n].err # "stop" /\ cfg[n].written # TotalSize[Fw] =>
       Within(cfg[n].written, nvs[n].written, nextPct[n])

SavedInv == spent["reboot"] = 0 => \A n \in Node : SavedAt(n)

LEMMA NoReset ==
  ASSUME TypeOK, NEW h \in {"reboot", "fault", "nodeStop", "rootStop"},
         spent'[h] = 0
  PROVE  ~Spend(h)
BY DEF TypeOK, NetTypeOK, Spend, Hazard

LEMMA PercentSteps ==
  ASSUME TypeOK, Next, NEW n \in Node, ~Spend("reboot")
  PROVE  nextPct'[n] = nextPct[n] \/ DataWrite(n) \/ DataComplete(n)
<1>0. NodeTypeOK
  BY DEF TypeOK
<1>1. ASSUME NEW m \in Node, DataWrite(m) \/ DataComplete(m), m # n
      PROVE  nextPct'[n] = nextPct[n]
  BY <1>0, <1>1 DEF DataWrite, DataComplete, NodeTypeOK
<1>2. ASSUME NEW m \in Node,
             \/ StatusKnown(m) \/ \E o \in Outcome : StatusNew(m, o)
             \/ DataNotInit(m) \/ DataStopped(m) \/ DataIgnored(m) \/ NodeStop(m)
      PROVE  nextPct'[n] = nextPct[n]
  BY <1>2 DEF StatusKnown, StatusNew, DataNotInit, DataStopped, DataIgnored, NodeStop,
              nodeVars, ramVars
<1>3. CASE UNCHANGED nodeVars
  BY <1>3 DEF nodeVars, ramVars
<1>4. \A m \in Node : ~PowerCycle(m)
  BY DEF PowerCycle
<1> QED
  BY <1>1, <1>2, <1>3, <1>4 DEF Next, Reboot, CrashInStatus, CrashInWrite

\* One packet of z bytes more, where w bytes are written.
LEMMA OnePacketMore ==
  ASSUME OneRelease, NEW w \in Nat, NEW saved \in Nat, NEW p \in Nat,
         NEW z \in 1 .. PacketMaxSize, Within(w, saved, p),
         \/ 100 * PacketMaxSize <= TotalSize[Fw]
         \/ /\ 100 * PacketMaxSize = ReportInterval * TotalSize[Fw]
            /\ z = PacketMaxSize
            /\ \E k \in Nat : w = k * PacketMaxSize
  PROVE  IF ((w + z) * 100) \div TotalSize[Fw] = p
           THEN Within(w + z, w + z, p + ReportInterval)
           ELSE Within(w + z, saved, p)
<1> DEFINE T == TotalSize[Fw]
           R == ReportInterval
           P == PacketMaxSize
           v == (w + z) * 100
           q == v \div T
<1>1. T \in Nat \ {0} /\ R \in Nat \ {0} /\ P \in Nat \ {0} /\ v \in Nat
  BY Single, NetAssumption, NodeAssumption
<1>2. PICK j \in Nat : p = R * (j + 1)
  BY DEF Within
<1>3. w * 100 < p * T /\ (p - R) * T <= saved * 100
  BY DEF Within
<1>4. q \in Nat /\ v % T \in 0 .. T - 1 /\ v = T * q + (v % T)
  BY <1>1, Division
<1>5. v < p * T + T
  <2>1. CASE 100 * P <= T
    <3>1. v = w * 100 + 100 * z /\ 100 * z <= 100 * P
      BY <1>1
    <3> QED
      BY <1>1, <1>3, <2>1, <3>1
  <2>2. CASE 100 * P = R * T /\ z = P /\ \E k \in Nat : w = k * P
    <3>1. PICK k \in Nat : w = k * P
      BY <2>2
    <3> DEFINE u == R * T
    <3>2. u \in Nat
      BY <1>1
    <3>3. w * 100 = k * u
      <4>1. w * 100 = k * (100 * P)
        BY <1>1, <3>1
      <4> QED
        BY <2>2, <4>1
    <3>4. v = k * u + u
      <4>1. v = w * 100 + 100 * P
        BY <1>1, <2>2
      <4> QED
        BY <2>2, <3>3, <4>1
    <3>5. p * T = (j + 1) * u
      BY <1>1, <1>2
    <3> HIDE DEF u, v
    <3>6. k < j + 1
      <4>1. CASE j + 1 <= k
        <5>1. u * (j + 1) <= u * k /\ u * (j + 1) = (j + 1) * u /\ u * k = k * u
          BY <3>2, <4>1, TimesMonotone
        <5> QED
          BY <1>1, <1>3, <3>2, <3>3, <3>5, <5>1
      <4> QED
        BY <4>1
    <3>7. u * (k + 1) <= u * (j + 1)
      BY <3>2, <3>6, TimesMonotone
    <3>8. u * (k + 1) = k * u + u /\ u * (j + 1) = (j + 1) * u
      BY <3>2
    <3>9. v <= p * T
      BY <3>4, <3>5, <3>7, <3>8
    <3>10. p * T \in Nat
      BY <1>1
    <3>11. v \in Nat
      BY <1>1
    <3> HIDE DEF T
    <3> QED
      BY <1>1, <3>9, <3>10, <3>11
  <2> QED
    BY <2>1, <2>2
<1> HIDE DEF T, R, P, v, q
<1>6. p * T = T * p /\ T * p \in Nat
  BY <1>1
<1>7. CASE q >= p + 1
  <2>1. T * (p + 1) <= T * q /\ T * (p + 1) = T * p + T /\ T * q \in Nat
    BY <1>1, <1>4, <1>7, TimesMonotone
  <2> QED
    BY <1>1, <1>4, <1>5, <1>6, <2>1
<1>8. CASE q = p
  <2>1. p + R = R * ((j + 1) + 1)
    BY <1>1, <1>2
  <2>2. (p + R) * T = T * p + T * R /\ T * 1 <= T * R /\ T * R \in Nat
    BY <1>1, TimesMonotone
  <2>3. v < (p + R) * T
    BY <1>1, <1>5, <1>6, <2>2
  <2>4. ((p + R) - R) * T <= v
    <3>1. (p + R) - R = p
      BY <1>1
    <3> QED
      BY <1>1, <1>4, <1>6, <1>8, <3>1
  <2> QED
    BY <1>8, <2>1, <2>3, <2>4 DEF Within, T, R, v, q
<1>9. CASE q <= p - 1
  <2>1. T * (q + 1) <= T * p /\ T * (q + 1) = T * q + T /\ T * q \in Nat
    BY <1>1, <1>4, <1>9, TimesMonotone
  <2>2. v < p * T
    BY <1>1, <1>4, <1>6, <2>1
  <2>3. q # p
    BY <1>4, <1>9
  <2> QED
    BY <1>2, <1>3, <2>2, <2>3 DEF Within, T, R, v, q
<1> QED
  BY <1>4, <1>7, <1>8, <1>9

LEMMA SavedStepAt ==
  ASSUME OneRelease, NoPercentSkipped(Fw), TypeOK, CountInv, Next,
         NEW n \in Node, spent'["reboot"] = 0, SavedAt(n)
  PROVE  SavedAt(n)'
<1>0. /\ NetTypeOK /\ NodeTypeOK /\ Loaded(n) \in Config /\ cfg[n] \in Config
      /\ nvs[n] \in Config
  BY LoadedType DEF TypeOK, NodeTypeOK
<1>1. ~Spend("reboot") /\ ~PowerCycle(n)
  BY NoReset DEF PowerCycle
<1>2. /\ Counted(cfg[n]) /\ Counted(Loaded(n))
      /\ downlink \in [Node -> Seq(SoundMsg)]
  BY DEF CountInv, Loaded
<1>3. EmptyCfg.fw = NoFw /\ NvsErased(n)[n] = EmptyCfg
  BY <1>0 DEF EmptyCfg, NvsErased, NodeTypeOK
<1>4. Loaded(n).fw # NoFw => cfg[n].fw # NoFw /\ Loaded(n) = cfg[n]
  BY <1>3 DEF SavedAt, Loaded
<1>5. nextPct'[n] = nextPct[n] \/ DataWrite(n) \/ DataComplete(n)
  BY <1>1, PercentSteps
<1>6. CASE Frozen(n) /\ nextPct'[n] = nextPct[n]
  BY <1>6 DEF Frozen, SavedAt
<1>7. CASE StatusKnown(n)
  <2> DEFINE c == WithError(cfg[n], "ok")
  <2>1. Loaded(n).fw # NoFw
    BY <1>2, <1>7, SoundStatus, Single DEF StatusKnown
  <2>2. /\ c.fw = cfg[n].fw /\ c.written = cfg[n].written
        /\ c.err # "stop" => cfg[n].err # "stop"
    BY <1>0, ConfigFields DEF ErrorCode
  <2>3. cfg'[n] = c /\ nvs' = nvs /\ nextPct' = nextPct
    BY <1>0, <1>4, <1>7, <2>1 DEF StatusKnown, NodeTypeOK
  <2> HIDE DEF c
  <2> QED
    BY <1>4, <2>1, <2>2, <2>3 DEF SavedAt
<1>8. ASSUME NEW o \in Outcome, StatusNew(n, o)
      PROVE  SavedAt(n)'
  <2> DEFINE c == NewCfg(Fw, IF o = "done" THEN "ok" ELSE "fail")
  <2>1. Msg(n).fw = Fw /\ Loaded(n).fw = NoFw
    BY <1>2, <1>8, SoundStatus, Single, OneName DEF StatusNew
  <2>2. cfg[n].fw = NoFw /\ nvs[n] = EmptyCfg /\ nextPct[n] = ReportInterval
    BY <1>0, <2>1 DEF SavedAt, Loaded
  <2>3. cfg'[n] = c /\ nvs'[n] \in {c, EmptyCfg} /\ nextPct'[n] = ReportInterval
    BY <1>0, <1>8, <2>1, <2>2 DEF StatusNew, NodeTypeOK
  <2>4. c.fw # NoFw /\ c.written = 0 /\ EmptyCfg.written = 0
    BY Single DEF NewCfg, EmptyCfg
  <2>5. Within(0, 0, ReportInterval)
    <3>1. ReportInterval \in Nat \ {0} /\ TotalSize[Fw] \in Nat \ {0}
      BY Single, NetAssumption, NodeAssumption
    <3>2. ReportInterval = ReportInterval * (0 + 1) /\ ReportInterval - ReportInterval = 0
      BY <3>1
    <3>3. TotalSize[Fw] * 1 <= TotalSize[Fw] * ReportInterval
      BY <3>1, TimesMonotone
    <3>4. 0 < ReportInterval * TotalSize[Fw] /\ 0 * TotalSize[Fw] <= 0 * 100
      BY <3>1, <3>3
    <3> QED
      BY <3>2, <3>4 DEF Within
  <2> HIDE DEF c
  <2> QED
    BY <2>3, <2>4, <2>5 DEF SavedAt
<1>9. CASE DataStopped(n)
  <2> DEFINE c == [cfg[n] EXCEPT !.written = 0, !.bits = {}]
  <2>1. Loaded(n).fw # NoFw /\ Loaded(n).err = "stop"
    BY <1>9 DEF DataStopped
  <2>2. c.fw = cfg[n].fw /\ c.err = cfg[n].err
    BY <1>0, ConfigFields DEF ErrorCode
  <2>3. cfg'[n] = c
    BY <1>0, <1>4, <1>9, <2>1 DEF DataStopped, NodeTypeOK
  <2> HIDE DEF c
  <2> QED
    BY <1>4, <2>1, <2>2, <2>3 DEF SavedAt
<1>10. CASE DataIgnored(n)
  <2>1. Loaded(n) = cfg[n]
    BY <1>4, <1>10 DEF DataIgnored
  <2>2. cfg'[n] = cfg[n] /\ nvs' = nvs /\ nextPct' = nextPct
    BY <1>0, <1>10, <2>1 DEF DataIgnored, NodeTypeOK
  <2> QED
    BY <2>2 DEF SavedAt
<1>11. ASSUME Receive(n, "data"), Accepts(n)
       PROVE  /\ cfg[n].fw = Fw /\ cfg[n].err # "stop" /\ Loaded(n) = cfg[n]
              /\ Recorded(n).fw = Fw
              /\ IF SavesNow(n)
                   THEN Within(Recorded(n).written, Recorded(n).written,
                               nextPct[n] + ReportInterval)
                   ELSE Within(Recorded(n).written, nvs[n].written, nextPct[n])
  <2> DEFINE w == cfg[n].written
             z == Msg(n).size
  <2>1. /\ cfg[n].fw # NoFw /\ cfg[n].err # "stop" /\ Loaded(n) = cfg[n]
        /\ Msg(n).seq \notin cfg[n].bits
    BY <1>4, <1>11 DEF Accepts
  <2>2. cfg[n].fw = Fw /\ cfg[n].bits \subseteq Packets(Fw) /\ w = BytesOf(cfg[n])
    BY <1>2, <2>1, OneName DEF Counted
  <2>3. Msg(n).seq \in Packets(Fw) /\ z = PacketSize(Fw, Msg(n).seq)
    BY <1>2, <1>11, SoundData, Single
  <2>4. w # TotalSize[Fw]
    BY <2>1, <2>2, <2>3, CountedAll, Single
  <2>5. Within(w, nvs[n].written, nextPct[n])
    BY <2>1, <2>4 DEF SavedAt
  <2>6. /\ Recorded(n).fw = Fw /\ Recorded(n).written = w + z
        /\ SavesNow(n) <=> ((w + z) * 100) \div TotalSize[Fw] = nextPct[n]
    BY <1>0, <1>11, <2>1, <2>2, RecordedFields DEF SavesNow, Percent
  <2>7. z \in 1 .. PacketMaxSize
    BY <2>3, ImageSize, Single, NetAssumption DEF PacketSize
  <2>8. \/ 100 * PacketMaxSize <= TotalSize[Fw]
        \/ /\ 100 * PacketMaxSize = ReportInterval * TotalSize[Fw]
           /\ z = PacketMaxSize
           /\ \E k \in Nat : w = k * PacketMaxSize
    <3>1. SUFFICES ASSUME TotalSize[Fw] % PacketMaxSize = 0
                   PROVE  z = PacketMaxSize /\ \E k \in Nat : w = k * PacketMaxSize
      BY DEF NoPercentSkipped
    <3>2. LastPacketSize(Fw) = PacketMaxSize
      BY <3>1 DEF LastPacketSize
    <3>3. Cardinality(cfg[n].bits) \in Nat /\ PacketMaxSize \in Nat
      BY <2>2, PacketsFinite, Single, ImageSize, NetAssumption
    <3>4. w = Cardinality(cfg[n].bits) * PacketMaxSize
      BY <2>2, <3>2, <3>3 DEF BytesOf
    <3> QED
      BY <2>3, <3>2, <3>3, <3>4 DEF PacketSize
  <2>9. w \in Nat /\ nvs[n].written \in Nat /\ nextPct[n] \in Nat
    BY <1>0 DEF Config, NodeTypeOK
  <2> HIDE DEF w, z
  <2>10. IF ((w + z) * 100) \div TotalSize[Fw] = nextPct[n]
           THEN Within(w + z, w + z, nextPct[n] + ReportInterval)
           ELSE Within(w + z, nvs[n].written, nextPct[n])
    BY <2>5, <2>7, <2>8, <2>9, OnePacketMore
  <2> QED
    BY <2>1, <2>2, <2>6, <2>10
<1>12. CASE DataWrite(n)
  <2>1. /\ cfg'[n] = Recorded(n)
        /\ IF SavesNow(n)
             THEN nextPct'[n] = nextPct[n] + ReportInterval /\ nvs'[n] = Recorded(n)
             ELSE nextPct'[n] = nextPct[n] /\ nvs'[n] = nvs[n]
    BY <1>0, <1>12 DEF DataWrite, NodeTypeOK
  <2> QED
    BY <1>11, <1>12, <2>1, Single DEF DataWrite, SavedAt
<1>13. CASE DataComplete(n)
  <2> DEFINE e == IF Verified(n) THEN "ok" ELSE "fail"
             c == [Recorded(n) EXCEPT !.err = e]
  <2>1. Recorded(n).fw = Fw /\ Recorded(n).written = TotalSize[Fw]
    BY <1>11, <1>13 DEF DataComplete
  <2>2. c.fw = Recorded(n).fw /\ c.written = Recorded(n).written
    BY <1>0, <1>13, RecordedType, ConfigFields DEF DataComplete, ErrorCode
  <2>3. cfg'[n] = c
    BY <1>0, <1>13 DEF DataComplete, NodeTypeOK
  <2> HIDE DEF e, c
  <2> QED
    BY <2>1, <2>2, <2>3, Single DEF SavedAt
<1>14. CASE NodeStop(n)
  <2> DEFINE c == [cfg[n] EXCEPT !.err = "stop", !.written = 0, !.bits = {}]
  <2>1. c.fw = cfg[n].fw /\ c.err = "stop" /\ cfg[n].fw # NoFw
    BY <1>0, <1>14, ConfigFields DEF ErrorCode, NodeStop
  <2>2. cfg'[n] = c
    BY <1>0, <1>14 DEF NodeStop, NodeTypeOK
  <2> HIDE DEF c
  <2> QED
    BY <2>1, <2>2 DEF SavedAt
<1> QED
  BY <1>1, <1>5, <1>6, <1>7, <1>8, <1>9, <1>10, <1>12, <1>13, <1>14, DeviceSteps
  DEF Reboot, CrashInStatus, CrashInWrite

LEMMA SavedStep ==
  OneRelease /\ NoPercentSkipped(Fw) /\ TypeOK /\ CountInv /\ SavedInv /\ [Next]_vars
    => SavedInv'
<1>1. ASSUME OneRelease, NoPercentSkipped(Fw), TypeOK, CountInv, SavedInv, Next
      PROVE  SavedInv'
  <2> SUFFICES ASSUME spent'["reboot"] = 0, NEW n \in Node
               PROVE  SavedAt(n)'
    BY DEF SavedInv
  <2>1. SavedAt(n)
    BY <1>1, SpentOnce DEF SavedInv, Hazard
  <2> QED
    BY <1>1, <2>1, SavedStepAt
<1>2. ASSUME SavedInv, UNCHANGED vars
      PROVE  SavedInv'
  BY <1>2 DEF vars, netVars, nodeVars, ramVars, SavedInv, SavedAt
<1> QED
  BY <1>1, <1>2

\* While one release is distributed, a device that is reset for the first time
\* has lost the progress of one report interval at most, provided that no
\* percentage to report is jumped over by a packet: the handler saves only when
\* it is met exactly (mupgrade_node.c:207).
THEOREM AlwaysSavedPeriodically ==
  ASSUME OneRelease, \A f \in Releases : NoPercentSkipped(f)
  PROVE  Spec => [](spent["reboot"] = 0 => SavedPeriodically)
<1>1. NoPercentSkipped(Fw)
  BY Single
<1>2. Init => SavedInv
  BY DEF Init, NodeInit, SavedInv, SavedAt, EmptyCfg
<1>3. TypeOK /\ CountInv /\ SavedInv => (spent["reboot"] = 0 => SavedPeriodically)
  <2> SUFFICES ASSUME TypeOK, CountInv, SavedInv, spent["reboot"] = 0,
                      NEW n \in Node, cfg[n].fw # NoFw, cfg[n].err = "ok",
                      cfg[n].written # TotalSize[cfg[n].fw]
               PROVE  (cfg[n].written - nvs[n].written - PacketMaxSize) * 100
                        <= ReportInterval * TotalSize[cfg[n].fw]
    BY DEF SavedPeriodically
  <2> DEFINE w == cfg[n].written
             s == nvs[n].written
             p == nextPct[n]
             T == TotalSize[Fw]
  <2>1. cfg[n].fw = Fw
    BY OneName DEF CountInv
  <2>2. Within(w, s, p)
    BY <2>1 DEF SavedInv, SavedAt
  <2>3. /\ w \in Nat /\ s \in Nat /\ p \in Nat
    BY DEF TypeOK, NodeTypeOK, Config
  <2>4. /\ T \in Nat /\ PacketMaxSize \in Nat /\ ReportInterval \in Nat
    BY Single, NetAssumption, NodeAssumption
  <2>5. w * 100 < p * T /\ (p - ReportInterval) * T <= s * 100
    BY <2>2 DEF Within
  <2> HIDE DEF w, s, p, T
  <2>6. (p - ReportInterval) * T = p * T - ReportInterval * T
        /\ p * T \in Nat /\ ReportInterval * T \in Nat
    BY <2>3, <2>4
  <2>7. (w - s - PacketMaxSize) * 100 = w * 100 - s * 100 - PacketMaxSize * 100
    BY <2>3, <2>4
  <2> QED
    BY <2>1, <2>3, <2>4, <2>5, <2>6, <2>7 DEF w, s, T
<1>4. TypeOK /\ CountInv /\ [Next]_vars => CountInv'
  BY Single, CountStep
<1>5. TypeOK /\ CountInv /\ SavedInv /\ [Next]_vars => SavedInv'
  BY <1>1, SavedStep
<1> QED
  BY <1>2, <1>3, <1>4, <1>5, CountInit, TypeInit, TypeStep, PTL DEF Spec

----------------------------------------------------------------------------
(* What a campaign reaches when messages are lost.  Nothing fails, is reset *)
(* or stopped; the devices answer in time.                                 *)

Calm == \A h \in {"fault", "reboot", "nodeStop", "rootStop"} : spent[h] = 0

\* Device n has the image and will boot it.
Moved(n) == boot[n] # running[n]

AllMoved == \A n \in Node : Moved(n)

Knows(n) == cfg[n].fw # NoFw

\* Data packet s is on its way to n.
Coming(n, s) ==
  \E i \in 1 .. Len(downlink[n]) :
    downlink[n][i].type = "data" /\ downlink[n][i].seq = s

Has(n, s) == s \in cfg[n].bits \/ Coming(n, s)

\* Everything that n needs is there or on its way.
Reached(n) == Moved(n) \/ (Knows(n) /\ \A s \in Packets(Fw) : Has(n, s))

\* A request to n, or an answer of n, is on its way.
Awaited(n) ==
  \/ \E i \in 1 .. Len(downlink[n]) : downlink[n][i].type = "status"
  \/ uplink[n] # <<>>
  \/ \E i \in 1 .. Len(queue) : queue[i].src = n

Fresh(n) ==
  /\ cfg[n].err # "stop"
  /\ ~Knows(n) => nvs[n].fw = NoFw
  /\ Knows(n) /\ cfg[n].bits = Packets(Fw) => Moved(n)

\* Answer a of n, however old, says nothing that is not true of n now.
Honors(n, a) ==
  /\ Knows(n) /\ a.err # "stop" /\ a.bits \subseteq cfg[n].bits
  /\ IsComplete(a) => Moved(n)

DeviceInv ==
  \A n \in Node :
    /\ Fresh(n)
    /\ \A i \in 1 .. Len(uplink[n]) : Honors(n, uplink[n][i])
    /\ \A i \in 1 .. Len(queue) : queue[i].src = n => Honors(n, queue[i].st)

LEMMA CalmBefore ==
  ASSUME TypeOK, Next, Calm'
  PROVE  /\ Calm /\ spent["fault"] = 0 /\ spent'["fault"] = 0
         /\ ~Spend("fault") /\ ~Spend("reboot") /\ ~Spend("nodeStop")
         /\ ~Spend("rootStop")
         /\ spent["loss"] \in Nat /\ spent'["loss"] \in Nat
         /\ spent'["loss"] >= spent["loss"]
<1>1. \A h \in {"fault", "reboot", "nodeStop", "rootStop"} : spent'[h] = 0
  BY DEF Calm
<1>2. \A h \in {"fault", "reboot", "nodeStop", "rootStop"} : ~Spend(h)
  BY <1>1, NoReset
<1>3. spent \in [Hazard -> Nat]
  BY DEF TypeOK, NetTypeOK
<1>4. UNCHANGED spent \/ \E h \in Hazard : Spend(h)
  BY SpendSteps
<1>5. /\ spent["loss"] \in Nat /\ spent'["loss"] \in Nat
      /\ spent'["loss"] >= spent["loss"]
  BY <1>3, <1>4 DEF Spend, Hazard
<1> QED
  BY <1>1, <1>2, <1>5, SpentOnce DEF Calm, Hazard

LEMMA LossCounts ==
  ASSUME TypeOK, NEW n \in Node, Lose(n)
  PROVE  spent'["loss"] = spent["loss"] + 1
BY DEF Lose, Spend, TypeOK, NetTypeOK, Hazard

\* A device in calm: it works on what it knows, marks ever more packets, and
\* has moved to the new image when it has them all.
LEMMA DeviceStep ==
  ASSUME OneRelease, TypeOK, CountInv, FlashInv, Next, Calm',
         NEW n \in Node, Fresh(n)
  PROVE  /\ Fresh(n)'
         /\ Knows(n) => Knows(n)' /\ cfg[n].bits \subseteq cfg'[n].bits
         /\ Moved(n) => Moved(n)'
<1> DEFINE Good == /\ Fresh(n)'
                   /\ Knows(n) => Knows(n)' /\ cfg[n].bits \subseteq cfg'[n].bits
                   /\ Moved(n) => Moved(n)'
<1>0. /\ NetTypeOK /\ NodeTypeOK /\ Loaded(n) \in Config /\ cfg[n] \in Config
      /\ boot[n] \in Slot /\ running[n] \in Slot
  BY LoadedType DEF TypeOK, NodeTypeOK
<1>1. /\ spent["fault"] = 0 /\ spent'["fault"] = 0
      /\ ~PowerCycle(n) /\ ~NodeStop(n)
      /\ \A o \in Outcome : StatusNew(n, o) => o = "done"
  BY CalmBefore, SpentOnce DEF PowerCycle, NodeStop
<1>2. /\ Counted(cfg[n]) /\ Counted(Loaded(n))
      /\ downlink \in [Node -> Seq(SoundMsg)]
  BY DEF CountInv, Loaded
<1>3. Loaded(n).fw # NoFw => Knows(n) /\ Loaded(n) = cfg[n]
  BY DEF Fresh, Loaded, Knows
<1>4. CASE Frozen(n)
  BY <1>4 DEF Frozen, Fresh, Knows, Moved
<1>5. CASE StatusKnown(n)
  <2> DEFINE c == WithError(cfg[n], "ok")
  <2>1. Loaded(n).fw # NoFw
    BY <1>2, <1>5, SoundStatus, Single DEF StatusKnown
  <2>2. c.fw = cfg[n].fw /\ c.bits = cfg[n].bits /\ c.err # "stop"
    BY <1>0, ConfigFields DEF ErrorCode, Fresh
  <2>3. cfg'[n] = c /\ UNCHANGED <<nvs, boot, running>>
    BY <1>0, <1>3, <1>5, <2>1 DEF StatusKnown, NodeTypeOK
  <2> HIDE DEF c
  <2> QED
    BY <1>3, <2>1, <2>2, <2>3 DEF Fresh, Knows, Moved
<1>6. ASSUME NEW o \in Outcome, StatusNew(n, o)
      PROVE  Good
  <2> DEFINE c == NewCfg(Fw, "ok")
  <2>1. Msg(n).fw = Fw /\ Loaded(n).fw = NoFw /\ o = "done"
    BY <1>1, <1>2, <1>6, SoundStatus, Single, OneName DEF StatusNew
  <2>2. ~Knows(n)
    BY <2>1 DEF Loaded, Knows
  <2>3. cfg'[n] = c /\ UNCHANGED <<boot, running>>
    BY <1>0, <1>6, <2>1 DEF StatusNew, NodeTypeOK
  <2>4. c.fw # NoFw /\ c.bits = {} /\ c.err = "ok"
    BY Single DEF NewCfg
  <2>5. Packets(Fw) # {}
    <3>1. PacketNum(Fw) \in Nat \ {0}
      BY Single, ImageSize
    <3> QED
      BY <3>1 DEF Packets
  <2> HIDE DEF c
  <2> QED
    BY <2>2, <2>3, <2>4, <2>5 DEF Fresh, Knows, Moved
<1>7. CASE DataStopped(n)
  BY <1>3, <1>7 DEF DataStopped, Fresh
<1>8. CASE DataIgnored(n)
  <2>1. cfg'[n] = cfg[n] /\ UNCHANGED <<nvs, boot, running>>
    BY <1>0, <1>3, <1>8 DEF DataIgnored, NodeTypeOK
  <2> QED
    BY <2>1 DEF Fresh, Knows, Moved
<1>9. CASE DataWrite(n)
  <2>1. cfg'[n] = Recorded(n) /\ UNCHANGED <<boot, running>>
    BY <1>0, <1>9 DEF DataWrite, NodeTypeOK
  <2>2. Loaded(n).fw # NoFw
    BY <1>9 DEF DataWrite, Accepts
  <2> QED
    BY <1>1, <1>3, <1>9, <2>1, <2>2, AcceptedPacket DEF DataWrite, Fresh, Knows, Moved
<1>10. CASE DataComplete(n)
  <2>1. Loaded(n).fw # NoFw /\ Recorded(n).bits = Packets(Fw) /\ Verified(n)
    BY <1>1, <1>10, AcceptedPacket DEF DataComplete, Accepts
  <2> DEFINE c == [Recorded(n) EXCEPT !.err = "ok"]
  <2>2. cfg'[n] = c /\ boot'[n] = Target(n) /\ running' = running
    BY <1>0, <1>10, <2>1 DEF DataComplete, NodeTypeOK
  <2>3. c.fw = Recorded(n).fw /\ c.bits = Recorded(n).bits /\ c.err = "ok"
    BY <1>0, <1>10, RecordedType, ConfigFields DEF DataComplete, ErrorCode
  <2>4. Moved(n)'
    BY <1>0, <2>2, TargetType DEF Moved
  <2> HIDE DEF c
  <2> QED
    BY <1>1, <1>3, <1>10, <2>1, <2>2, <2>3, <2>4, AcceptedPacket, Single
    DEF DataComplete, Fresh, Knows
<1> QED
  BY <1>1, <1>4, <1>5, <1>6, <1>7, <1>8, <1>9, <1>10, DeviceSteps
  DEF Reboot, CrashInStatus, CrashInWrite

LEMMA SequenceKeeps ==
  ASSUME NEW S, NEW s \in Seq(S), NEW e \in S
  PROVE  /\ \A i \in 1 .. Len(s) :
              i \in 1 .. Len(Append(s, e)) /\ Append(s, e)[i] = s[i]
         /\ Len(s) + 1 \in 1 .. Len(Append(s, e)) /\ Append(s, e)[Len(s) + 1] = e
         /\ s # <<>> => \A i \in 1 .. Len(s) :
              i = 1 \/ (i - 1 \in 1 .. Len(Tail(s)) /\ Tail(s)[i - 1] = s[i])
OBVIOUS

\* A data packet that a device handles is marked, if it was not before.
LEMMA PacketTaken ==
  ASSUME OneRelease, TypeOK, CountInv, FlashInv, Next, Calm', NEW n \in Node,
         Fresh(n), Knows(n), NodeHandle(n), Receive(n, "data")
  PROVE  Msg(n).seq \in cfg'[n].bits
<1>0. /\ NetTypeOK /\ NodeTypeOK
      /\ spent["fault"] = 0 /\ ~Spend("fault")
  BY CalmBefore DEF TypeOK
<1>1. Loaded(n) = cfg[n] /\ cfg[n].fw = Fw /\ cfg[n].err # "stop"
  BY OneName DEF Knows, Loaded, CountInv, Fresh
<1>2. Msg(n).seq \in Packets(Fw)
  BY SoundData, Single DEF CountInv
<1>3. Msg(n).seq * PacketMaxSize <= TotalSize[Fw]
  <2> DEFINE p   == PacketMaxSize
             num == PacketNum(Fw)
             s   == Msg(n).seq
  <2>1. /\ p \in Nat \ {0} /\ num \in Nat \ {0} /\ LastPacketSize(Fw) \in 1 .. p
        /\ TotalSize[Fw] = p * (num - 1) + LastPacketSize(Fw)
    BY Single, NetAssumption, ImageSize
  <2>2. s \in Nat /\ s <= num - 1
    BY <1>2, <2>1 DEF Packets
  <2> HIDE DEF p, num, s
  <2>3. p * s <= p * (num - 1) /\ s * p = p * s /\ p * (num - 1) \in Nat
    BY <2>1, <2>2, TimesMonotone
  <2> QED
    BY <2>1, <2>2, <2>3 DEF p, num, s
<1>4. ~DataNotInit(n) /\ ~DataStopped(n)
  BY <1>1 DEF DataNotInit, DataStopped, Knows
<1>5. CASE DataIgnored(n)
  <2>1. cfg'[n] = cfg[n]
    BY <1>0, <1>1, <1>5 DEF DataIgnored, NodeTypeOK
  <2>2. ~Accepts(n)
    BY <1>0, <1>5 DEF DataIgnored
  <2> QED
    BY <1>1, <1>3, <2>1, <2>2 DEF Accepts, Knows
<1>6. CASE DataWrite(n)
  <2>1. cfg'[n] = Recorded(n)
    BY <1>0, <1>6 DEF DataWrite, NodeTypeOK
  <2> QED
    BY <1>0, <1>6, <2>1, AcceptedPacket DEF DataWrite
<1>7. CASE DataComplete(n)
  <2> DEFINE c == [Recorded(n) EXCEPT !.err = IF Verified(n) THEN "ok" ELSE "fail"]
  <2>1. cfg'[n] = c
    BY <1>0, <1>7 DEF DataComplete, NodeTypeOK
  <2>2. c.bits = Recorded(n).bits
    BY <1>0, <1>7, RecordedType, ConfigFields DEF DataComplete, ErrorCode
  <2> HIDE DEF c
  <2> QED
    BY <1>0, <1>7, <2>1, <2>2, AcceptedPacket DEF DataComplete
<1>8. ~Receive(n, "status")
  BY DEF Receive
<1> QED
  BY <1>4, <1>5, <1>6, <1>7, <1>8 DEF NodeHandle, StatusKnown, StatusNew

\* A request is answered.
LEMMA RequestTaken ==
  ASSUME TypeOK, Next, NEW n \in Node, NodeHandle(n), Receive(n, "status")
  PROVE  uplink'[n] # <<>>
<1>0. uplink \in [Node -> Seq(Answer)]
  BY DEF TypeOK, NetTypeOK
<1>1. ~Receive(n, "data")
  BY DEF Receive
<1>2. ASSUME NEW a, SendToRoot(n, a)
      PROVE  uplink'[n] # <<>>
  <2>1. uplink'[n] = Append(uplink[n], a) /\ uplink[n] \in Seq(Answer)
    BY <1>0, <1>2 DEF SendToRoot
  <2> QED
    BY <2>1
<1> QED
  BY <1>1, <1>2
  DEF NodeHandle, StatusKnown, StatusNew, DataNotInit, DataStopped, DataIgnored,
      DataWrite, DataComplete

LEMMA HandledFirst ==
  ASSUME NEW n \in Node, NodeHandle(n)
  PROVE  downlink[n] # <<>> /\ downlink' = [downlink EXCEPT ![n] = Tail(@)]
BY DEF NodeHandle, StatusKnown, StatusNew, DataNotInit, DataStopped, DataIgnored,
       DataWrite, DataComplete, Receive, Consume

\* A handler of another device leaves the answers of n alone.
LEMMA HandledUplink ==
  ASSUME TypeOK, NEW m \in Node, NEW n \in Node, NodeHandle(m)
  PROVE  /\ m # n => uplink'[n] = uplink[n]
         /\ uplink[n] # <<>> => uplink'[n] # <<>>
<1>0. uplink \in [Node -> Seq(Answer)]
  BY DEF TypeOK, NetTypeOK
<1>1. uplink' = uplink \/ \E a : SendToRoot(m, a)
  BY DEF NodeHandle, StatusKnown, StatusNew, DataNotInit, DataStopped, DataIgnored,
         DataWrite, DataComplete
<1>2. ASSUME NEW a, SendToRoot(m, a)
      PROVE  /\ m # n => uplink'[n] = uplink[n]
             /\ uplink[n] # <<>> => uplink'[n] # <<>>
  <2>1. uplink'[n] = (IF m = n THEN Append(uplink[n], a) ELSE uplink[n])
        /\ uplink[n] \in Seq(Answer)
    BY <1>0, <1>2 DEF SendToRoot
  <2> QED
    BY <2>1
<1> QED
  BY <1>1, <1>2

\* What a device needs is not lost by handling what has arrived.
LEMMA HandledKeeps ==
  ASSUME OneRelease, TypeOK, CountInv, FlashInv, Next, Calm',
         NEW m \in Node, NodeHandle(m), UNCHANGED queue, NEW n \in Node, Fresh(n)
  PROVE  /\ Awaited(n) => Awaited(n)'
         /\ \A s : Knows(n) /\ Has(n, s) => Has(n, s)'
<1>1. /\ downlink \in [Node -> Seq(StatusMsg \cup DataMsg)]
      /\ downlink[m] # <<>> /\ downlink' = [downlink EXCEPT ![m] = Tail(@)]
  BY HandledFirst DEF TypeOK, NetTypeOK
<1>2. uplink[n] # <<>> => uplink'[n] # <<>>
  BY HandledUplink
<1>3. Knows(n) => cfg[n].bits \subseteq cfg'[n].bits
  BY DeviceStep
<1>4. CASE m # n
  <2>1. downlink'[n] = downlink[n]
    BY <1>1, <1>4
  <2> QED
    BY <1>2, <1>3, <2>1 DEF Awaited, Has, Coming
<1>5. CASE m = n
  <2> DEFINE d == downlink[n]
  <2>1. d \in Seq(StatusMsg \cup DataMsg) /\ d # <<>> /\ downlink'[n] = Tail(d)
    BY <1>1, <1>5
  <2>2. \A i \in 1 .. Len(d) :
          i = 1 \/ (i - 1 \in 1 .. Len(downlink'[n]) /\ downlink'[n][i - 1] = d[i])
    <3>1. (StatusMsg \cup DataMsg) # {}
      BY <2>1
    <3>2. PICK e : e \in StatusMsg \cup DataMsg
      BY <3>1
    <3> HIDE DEF d
    <3> QED
      BY <2>1, <3>2, SequenceKeeps
  <2>3. d[1] = Msg(n)
    BY <2>1 DEF Msg
  <2>4. ASSUME NEW i \in 1 .. Len(d), d[i].type = "status"
        PROVE  Awaited(n)'
    <3>1. CASE i = 1
      BY <1>5, <2>1, <2>3, <2>4, <3>1, RequestTaken DEF Receive, Awaited
    <3>2. CASE i # 1
      BY <2>2, <2>4, <3>2 DEF Awaited
    <3> QED
      BY <3>1, <3>2
  <2>5. ASSUME NEW s, Knows(n), NEW i \in 1 .. Len(d),
               d[i].type = "data", d[i].seq = s
        PROVE  Has(n, s)'
    <3>1. CASE i = 1
      BY <1>5, <2>1, <2>3, <2>5, <3>1, PacketTaken DEF Receive, Has
    <3>2. CASE i # 1
      BY <2>2, <2>5, <3>2 DEF Has, Coming
    <3> QED
      BY <3>1, <3>2
  <2>6. Awaited(n) => Awaited(n)'
    BY <1>2, <2>4 DEF Awaited
  <2>7. \A s : Knows(n) /\ Has(n, s) => Has(n, s)'
    BY <1>3, <2>5 DEF Has, Coming
  <2> QED
    BY <2>6, <2>7
<1> QED
  BY <1>4, <1>5

\* Nor by handing an answer over to the task that waits for it.
LEMMA HandOverKeeps ==
  ASSUME TypeOK, Timely, sendRunning, NEW m \in Node, RootHandle(m),
         NEW n \in Node, Awaited(n)
  PROVE  Awaited(n)'
<1>1. /\ uplink \in [Node -> Seq(Answer)] /\ queue \in Seq(Queued)
  BY DEF TypeOK, NetTypeOK, RootTypeOK
<1> DEFINE e == [src |-> m, st |-> Head(uplink[m])]
<1>2. /\ uplink' = [uplink EXCEPT ![m] = Tail(@)] /\ uplink[m] # <<>>
      /\ queue' = Append(queue, e) /\ downlink' = downlink
  BY DEF RootHandle
<1>3. e \in Queued /\ e.src = m
  BY <1>1, <1>2 DEF Queued
<1> HIDE DEF e
<1>4. /\ \A i \in 1 .. Len(queue) : i \in 1 .. Len(queue') /\ queue'[i] = queue[i]
      /\ Len(queue) + 1 \in 1 .. Len(queue') /\ queue'[Len(queue) + 1] = e
  BY <1>1, <1>2, <1>3, SequenceKeeps
<1>5. n # m => uplink'[n] = uplink[n]
  BY <1>1, <1>2
<1> QED
  BY <1>2, <1>3, <1>4, <1>5 DEF Awaited

LEMMA DeviceInvStep ==
  ASSUME OneRelease, TypeOK, CountInv, FlashInv, Next, Calm', DeviceInv
  PROVE  DeviceInv'
<1>1. \A n \in Node : Fresh(n) /\ Fresh(n)'
  BY DeviceStep DEF DeviceInv
<1>2. ASSUME NEW n \in Node, NEW a, Honors(n, a)
      PROVE  Honors(n, a)'
  BY <1>1, <1>2, DeviceStep DEF Honors, IsComplete
<1>3. /\ uplink \in [Node -> Seq(Answer)] /\ queue \in Seq(Queued)
      /\ \A n \in Node : cfg'[n].fw # NoFw => Counted(cfg'[n])
  <2>1. CountInv'
    BY CountStep, Single
  <2> QED
    BY <2>1 DEF TypeOK, NetTypeOK, RootTypeOK, CountInv
<1>4. ASSUME NEW n \in Node, NEW i \in 1 .. Len(uplink'[n])
      PROVE  Honors(n, uplink[n][i])'
  <2>1. CASE uplink'[n] = uplink[n]
    <3>1. Honors(n, uplink[n][i])
      BY <1>4, <2>1 DEF DeviceInv
    <3> QED
      BY <1>2, <2>1, <3>1 DEF Honors
  <2>2. CASE uplink[n] # <<>> /\ uplink'[n] = Tail(uplink[n])
    <3>1. i + 1 \in 1 .. Len(uplink[n]) /\ uplink'[n][i] = uplink[n][i + 1]
      BY <1>3, <1>4, <2>2, SequenceEnds
    <3>2. Honors(n, uplink[n][i + 1])
      BY <3>1 DEF DeviceInv
    <3> DEFINE b == uplink[n][i + 1]
    <3> HIDE DEF b
    <3>3. Honors(n, b)
      BY <3>2 DEF b
    <3> QED
      BY <1>2, <3>1, <3>2 DEF Honors, b
  <2>3. CASE /\ cfg'[n] \in Config /\ cfg'[n].fw # NoFw
             /\ uplink'[n] = Append(uplink[n], AnswerOf(cfg'[n]))
    <3> DEFINE e == AnswerOf(cfg'[n])
    <3>1. /\ e \in Answer /\ e.err = cfg'[n].err
          /\ e.bits \subseteq cfg'[n].bits
          /\ IsComplete(e) => cfg'[n].bits = Packets(Fw)
      <4>1. e \in Answer /\ (IsComplete(e) => cfg'[n].bits = Packets(Fw))
        BY <1>3, <2>3, AnswerOfType, CompleteAnswer
      <4> QED
        BY <4>1 DEF AnswerOf
    <3> HIDE DEF e
    <3>2. uplink'[n] = Append(uplink[n], e)
      BY <2>3 DEF e
    <3>3. \/ uplink'[n][i] = e
          \/ i \in 1 .. Len(uplink[n]) /\ uplink'[n][i] = uplink[n][i]
      BY <1>3, <1>4, <3>1, <3>2, SequenceEnds
    <3>4. CASE uplink'[n][i] = e
      BY <1>1, <2>3, <3>1, <3>4 DEF Honors, Knows, Fresh
    <3>5. CASE i \in 1 .. Len(uplink[n]) /\ uplink'[n][i] = uplink[n][i]
      <4>1. Honors(n, uplink[n][i])
        BY <3>5 DEF DeviceInv
      <4> QED
        BY <1>2, <3>5, <4>1 DEF Honors
    <3> QED
      BY <3>3, <3>4, <3>5
  <2> QED
    BY <2>1, <2>2, <2>3, UplinkSteps
<1>5. ASSUME NEW n \in Node, NEW i \in 1 .. Len(queue'), queue'[i].src = n
      PROVE  Honors(n, queue[i].st)'
  <2>0. ASSUME NEW j \in 1 .. Len(queue), queue'[i] = queue[j]
        PROVE  Honors(n, queue[i].st)'
    <3>1. Honors(n, queue[j].st)
      BY <1>5, <2>0 DEF DeviceInv
    <3> QED
      BY <1>2, <2>0, <3>1 DEF Honors
  <2>1. CASE queue' = queue
    BY <1>5, <2>0, <2>1
  <2>2. CASE queue' = <<>>
    BY <1>5, <2>2
  <2>3. CASE queue # <<>> /\ queue' = Tail(queue)
    <3>1. i + 1 \in 1 .. Len(queue) /\ queue'[i] = queue[i + 1]
      BY <1>3, <1>5, <2>3, SequenceEnds
    <3> QED
      BY <2>0, <3>1
  <2>4. ASSUME NEW m \in Node, uplink[m] # <<>>,
               queue' = Append(queue, [src |-> m, st |-> Head(uplink[m])])
        PROVE  Honors(n, queue[i].st)'
    <3> DEFINE a == Head(uplink[m])
               e == [src |-> m, st |-> a]
    <3>1. 1 \in 1 .. Len(uplink[m]) /\ a = uplink[m][1] /\ a \in Answer
      BY <1>3, <2>4, SequenceEnds
    <3>2. Honors(m, a)
      BY <3>1 DEF DeviceInv
    <3>3. e \in Queued /\ e.src = m /\ e.st = a /\ queue' = Append(queue, e)
      BY <2>4, <3>1 DEF Queued
    <3> HIDE DEF a, e
    <3>4. \/ queue'[i] = e
          \/ i \in 1 .. Len(queue) /\ queue'[i] = queue[i]
      BY <1>3, <1>5, <3>3, SequenceEnds
    <3>5. CASE queue'[i] = e
      BY <1>2, <1>5, <3>2, <3>3, <3>5 DEF Honors
    <3> QED
      BY <2>0, <3>4, <3>5
  <2> QED
    BY <2>1, <2>2, <2>3, <2>4, QueueSteps
<1> QED
  BY <1>1, <1>4, <1>5 DEF DeviceInv

\* k losses have struck, or there is nothing left to lose.
Lost(k) == spent["loss"] >= k \/ AllMoved

\* The first request of this round: who was asked will be heard, and who was
\* heard has every packet that counts as received.
Asking ==
  /\ tries = 0
  /\ rpc = "collect" => \A n \in requestAddrs : Awaited(n)
  /\ \A n \in unfinished \ requestAddrs :
       n \in requested /\ Knows(n) /\ progress \cap Packets(Fw) \subseteq cfg[n].bits

\* Every device that needs them gets the packets of this round.
Sending ==
  \A n \in Node :
    \/ Moved(n)
    \/ /\ n \in requested /\ Knows(n)
       /\ \A s \in Packets(Fw) : Has(n, s) \/ (s >= seq /\ s \notin progress)

\* A round that was not the last one has cost a loss.
RoundInv ==
  rpc # "idle" =>
    /\ sendRunning
    /\ \A n \in Node \ unfinished : Moved(n)
    /\ round >= 1 => Lost(round - 1)
    /\ rpc \in {"round", "drain"} => Lost(round) \/ \A n \in Node : Reached(n)
    /\ rpc \in {"ask", "collect", "send", "push"} => Lost(round)
    /\ rpc \in {"ask", "collect"} =>
         /\ progress = AllSeq => unfinished \subseteq requestAddrs
         /\ Lost(round + 1) \/ Asking
    /\ rpc = "collect" => requestAddrs # {}
    /\ rpc \in {"send", "push"} => Lost(round + 1) \/ Sending
    /\ rpc = "exit" => spent["loss"] + 2 > RetryCount \/ AllMoved

LossInv == Calm => DeviceInv /\ stopPc = "none" /\ RoundInv

\* The root's position and lists do not change, and no device falls behind.
LEMMA RoundKept ==
  ASSUME TypeOK, RoundInv, spent["loss"] \in Nat, spent'["loss"] \in Nat,
         spent'["loss"] >= spent["loss"],
         UNCHANGED <<sendRunning, rpc, lists, loop>>,
         \A n \in Node :
           /\ Moved(n) => Moved(n)'
           /\ Knows(n) => Knows(n)' /\ cfg[n].bits \subseteq cfg'[n].bits
           /\ Awaited(n) => Awaited(n)'
           /\ \A s : Knows(n) /\ Has(n, s) => Has(n, s)'
  PROVE  RoundInv'
<1>0. UNCHANGED <<unfinished, requested, successed, requestAddrs, progress, round,
                  tries, seq, rpc, sendRunning>>
  BY DEF lists, loop
<1>1. round \in Nat /\ unfinished \subseteq Node /\ requestAddrs \subseteq Node
  BY DEF TypeOK, RootTypeOK
<1>2. AllMoved => AllMoved'
  BY DEF AllMoved
<1>3. ASSUME NEW k \in Int, Lost(k)
      PROVE  spent'["loss"] >= k \/ AllMoved'
  BY <1>2, <1>3 DEF Lost
<1>4. /\ round >= 1 /\ Lost(round - 1) => Lost(round - 1)'
      /\ Lost(round) => Lost(round)'
      /\ Lost(round + 1) => Lost(round + 1)'
  BY <1>0, <1>1, <1>3 DEF Lost
<1>5. Asking => Asking'
  BY <1>0, <1>1 DEF Asking
<1>6. Sending => Sending'
  BY <1>0 DEF Sending
<1>7. \A n \in Node : Reached(n) => Reached(n)'
  BY DEF Reached
<1>8. spent["loss"] + 2 > RetryCount => spent'["loss"] + 2 > RetryCount
  BY RootAssumption
<1> QED
  BY <1>0, <1>2, <1>4, <1>5, <1>6, <1>7, <1>8 DEF RoundInv

\* A loss costs at most the round it falls in.
LEMMA RoundLose ==
  ASSUME TypeOK, RoundInv, NEW m \in Node, Lose(m), UNCHANGED <<rootVars, nodeVars>>
  PROVE  RoundInv'
<1>0. UNCHANGED <<unfinished, requested, successed, requestAddrs, progress, round,
                  tries, seq, rpc, sendRunning, boot, running>>
  BY DEF rootVars, lists, loop, nodeVars
<1>1. /\ round \in Nat /\ spent["loss"] \in Nat /\ RetryCount \in Nat
      /\ spent'["loss"] = spent["loss"] + 1
  BY LossCounts, RootAssumption DEF TypeOK, RootTypeOK, NetTypeOK, Hazard
<1>2. (\A n \in Node : Moved(n)' <=> Moved(n)) /\ (AllMoved' <=> AllMoved)
  BY <1>0 DEF Moved, AllMoved
<1>3. /\ round >= 1 /\ Lost(round - 1) => Lost(round - 1)' /\ Lost(round)'
      /\ round = 0 => Lost(round)'
      /\ Lost(round) => Lost(round)' /\ Lost(round + 1)'
  BY <1>0, <1>1, <1>2 DEF Lost
<1>4. spent["loss"] + 2 > RetryCount => spent'["loss"] + 2 > RetryCount
  BY <1>1
<1> QED
  BY <1>0, <1>1, <1>2, <1>3, <1>4 DEF RoundInv

\* The steps of mupgrade_firmware_send, one by one.

LEMMA RootSame ==
  ASSUME UNCHANGED nodeVars, UNCHANGED spent
  PROVE  /\ \A n \in Node : (Moved(n)' <=> Moved(n)) /\ (Knows(n)' <=> Knows(n))
         /\ cfg' = cfg /\ (AllMoved' <=> AllMoved)
         /\ \A k : spent'["loss"] >= k \/ AllMoved' <=> Lost(k)
BY DEF nodeVars, ramVars, Moved, Knows, AllMoved, Lost

LEMMA RoundBegins ==
  ASSUME TypeOK, Lists = {Node}, RoundInv, UNCHANGED nodeVars,
         \/ RoundBegin \/ SendExit
         \/ \E T \in Lists, all \in Modes : SendBegin(T, all)
  PROVE  RoundInv'
<1>1. CASE SendExit
  BY <1>1 DEF SendExit, RoundInv
<1>2. ASSUME NEW T \in Lists, NEW all \in Modes, SendBegin(T, all)
      PROVE  RoundInv'
  <2>1. /\ rpc' = "round" /\ sendRunning' /\ unfinished' = Node /\ round' = 0
        /\ spent' \in [Hazard -> Nat]
    BY <1>2, SpendType DEF SendBegin, TypeOK, NetTypeOK, Hazard
  <2>2. Lost(round)'
    BY <2>1 DEF Lost, Hazard
  <2> QED
    BY <2>1, <2>2 DEF RoundInv
<1>3. CASE RoundBegin
  <2>1. /\ UNCHANGED <<unfinished, round, sendRunning, downlink, spent>>
        /\ rpc = "round"
        /\ \/ rpc' = "drain"
           \/ rpc' = "exit" /\ (round >= RetryCount \/ unfinished = {} \/ ~sendRunning)
    BY <1>3, RootAssumption DEF RoundBegin, loop, netVars, TypeOK, RootTypeOK
  <2>2. /\ cfg' = cfg /\ (AllMoved' <=> AllMoved)
        /\ \A n \in Node : (Moved(n)' <=> Moved(n)) /\ (Knows(n)' <=> Knows(n))
        /\ \A k : spent'["loss"] >= k \/ AllMoved' <=> Lost(k)
    BY <2>1, RootSame
  <2>3. /\ Lost(round)' <=> Lost(round)
        /\ Lost(round - 1)' <=> Lost(round - 1)
        /\ \A n \in Node : Reached(n)' <=> Reached(n)
    BY <2>1, <2>2 DEF Lost, Reached, Has, Coming
  <2>4. round \in Nat /\ RetryCount \in Nat /\ spent["loss"] \in Nat
    BY RootAssumption DEF TypeOK, RootTypeOK, NetTypeOK, Hazard
  <2>5. rpc' = "exit" => spent["loss"] + 2 > RetryCount \/ AllMoved
    <3>1. CASE unfinished = {}
      BY <2>1, <3>1 DEF RoundInv, AllMoved
    <3>2. CASE round >= RetryCount
      BY <2>1, <2>4, <3>2 DEF RoundInv, Lost
    <3> QED
      BY <2>1, <3>1, <3>2 DEF RoundInv
  <2> QED
    BY <2>1, <2>2, <2>3, <2>5 DEF RoundInv
<1> QED
  BY <1>1, <1>2, <1>3

LEMMA FirstAnswer ==
  ASSUME TypeOK, DeviceInv, queue # <<>>
  PROVE  Src \in Node /\ Honors(Src, St) /\ St \in Answer
<1>1. queue \in Seq(Queued)
  BY DEF TypeOK, RootTypeOK
<1>2. 1 \in 1 .. Len(queue) /\ Head(queue) = queue[1] /\ Head(queue) \in Queued
  BY <1>1
<1> QED
  BY <1>2 DEF DeviceInv, Src, St, Queued

LEMMA RoundDrain ==
  ASSUME OneRelease, TypeOK, CountInv, Timely, DeviceInv, RoundInv,
         UNCHANGED nodeVars, DrainTake \/ DrainTimeout
  PROVE  RoundInv'
<1>1. /\ UNCHANGED <<round, sendRunning, downlink, spent>> /\ rpc = "drain"
      /\ \/ DrainTimeout
         \/ /\ queue # <<>> /\ (rpc' = IF unfinished' = {} THEN "exit" ELSE "drain")
            /\ unfinished' = unfinished \/ unfinished' = unfinished \ {Src}
            /\ unfinished' # unfinished => IsComplete(St) \/ St.err = "stop"
  BY DEF DrainTake, DrainTimeout, MoveToSuccessed, loop, netVars
<1>2. /\ cfg' = cfg /\ (AllMoved' <=> AllMoved)
      /\ \A n \in Node : (Moved(n)' <=> Moved(n)) /\ (Knows(n)' <=> Knows(n))
      /\ \A k : spent'["loss"] >= k \/ AllMoved' <=> Lost(k)
  BY <1>1, RootSame
<1>3. /\ Lost(round)' <=> Lost(round)
      /\ Lost(round - 1)' <=> Lost(round - 1)
      /\ \A n \in Node : Reached(n)' <=> Reached(n)
  BY <1>1, <1>2 DEF Lost, Reached, Has, Coming
<1>4. CASE DrainTimeout
  <2>1. /\ rpc' = "ask" /\ requestAddrs' = unfinished /\ tries' = 0
        /\ UNCHANGED unfinished
    BY <1>4 DEF DrainTimeout, lists
  <2>2. ASSUME NEW n \in Node, Reached(n)
        PROVE  Moved(n)
    <3>1. \A s : ~Coming(n, s)
      BY <1>4 DEF DrainTimeout, QueueTimeout, Coming
    <3>2. Knows(n) => cfg[n].bits \subseteq Packets(Fw)
      BY OneName DEF Knows, CountInv
    <3>3. ~Moved(n) => Knows(n) /\ Packets(Fw) \subseteq cfg[n].bits
      BY <2>2, <3>1 DEF Reached, Has
    <3>4. Fresh(n)
      BY DEF DeviceInv
    <3> QED
      BY <3>2, <3>3, <3>4 DEF Fresh
  <2>3. Lost(round)
    BY <1>1, <2>2 DEF RoundInv, Lost, AllMoved
  <2>4. Asking'
    BY <2>1 DEF Asking
  <2> QED
    BY <1>1, <1>2, <1>3, <2>1, <2>3, <2>4 DEF RoundInv
<1>5. CASE ~DrainTimeout
  <2>1. unfinished' # unfinished => Moved(Src)
    BY <1>1, <1>5, FirstAnswer DEF Honors
  <2>2. \A n \in Node \ unfinished' : Moved(n)
    BY <1>1, <1>5, <2>1 DEF RoundInv
  <2>3. unfinished' = {} => AllMoved
    BY <2>2 DEF AllMoved
  <2> QED
    BY <1>1, <1>2, <1>3, <1>5, <2>2, <2>3 DEF RoundInv
<1> QED
  BY <1>4, <1>5

LEMMA RoundAsk ==
  ASSUME TypeOK, Timely, RequestCount >= 1, RoundInv, UNCHANGED nodeVars,
         Ask \/ CollectTimeout \/ RequestEnd
  PROVE  RoundInv'
<1>1. UNCHANGED <<unfinished, requested, successed, requestAddrs, progress, round,
                  sendRunning, spent>>
  BY DEF Ask, CollectTimeout, RequestEnd, lists, loop, netVars
<1>2. /\ cfg' = cfg /\ (AllMoved' <=> AllMoved)
      /\ \A n \in Node : (Moved(n)' <=> Moved(n)) /\ (Knows(n)' <=> Knows(n))
      /\ \A k : spent'["loss"] >= k \/ AllMoved' <=> Lost(k)
  BY <1>1, RootSame
<1>3. /\ Lost(round)' <=> Lost(round)
      /\ Lost(round - 1)' <=> Lost(round - 1)
      /\ Lost(round + 1)' <=> Lost(round + 1)
  BY <1>1, <1>2 DEF Lost
<1>4. CASE Ask
  <2>1. /\ rpc = "ask" /\ rpc' = "collect" /\ requestAddrs # {} /\ tries' = tries
        /\ Multicast(requestAddrs, [type |-> "status", fw |-> rootFw])
    BY <1>4 DEF Ask, loop
  <2>2. ASSUME NEW n \in requestAddrs
        PROVE  Awaited(n)'
    <3> DEFINE m == [type |-> "status", fw |-> rootFw]
    <3>1. /\ n \in Node /\ m \in StatusMsg \cup DataMsg
          /\ downlink[n] \in Seq(StatusMsg \cup DataMsg)
      BY <2>1 DEF TypeOK, RootTypeOK, NetTypeOK, StatusMsg
    <3>2. downlink'[n] = Append(downlink[n], m) /\ m.type = "status"
      BY <2>1, <3>1 DEF Multicast
    <3> HIDE DEF m
    <3> QED
      BY <3>1, <3>2, SequenceKeeps DEF Awaited
  <2>3. Asking => Asking'
    BY <1>1, <1>2, <2>1, <2>2 DEF Asking, TypeOK, RootTypeOK
  <2> QED
    BY <1>1, <1>2, <1>3, <2>1, <2>3 DEF RoundInv
<1>5. CASE CollectTimeout
  <2>1. rpc = "collect" /\ rpc' = "ask" /\ QueueTimeout
    BY <1>5 DEF CollectTimeout
  <2>2. \A n \in Node : ~Awaited(n)
    BY <2>1 DEF QueueTimeout, Awaited
  <2>3. ~Asking
    BY <2>1, <2>2 DEF RoundInv, Asking, TypeOK, RootTypeOK
  <2> QED
    BY <1>1, <1>2, <1>3, <2>1, <2>3 DEF RoundInv
<1>6. CASE RequestEnd
  <2>1. /\ rpc = "ask" /\ seq' = 0
        /\ tries >= RequestCount \/ requestAddrs = {}
        /\ rpc' = IF requestAddrs = {} /\ progress = AllSeq THEN "exit" ELSE "send"
    BY <1>6 DEF RequestEnd
  <2>2. rpc' = "exit" => AllMoved
    <3>1. rpc' = "exit" => unfinished = {}
      BY <2>1 DEF RoundInv
    <3> QED
      BY <2>1, <3>1 DEF RoundInv, AllMoved
  <2>3. Asking => Sending'
    <3> SUFFICES ASSUME Asking, NEW n \in Node, ~Moved(n)
                 PROVE  /\ n \in requested' /\ Knows(n)'
                        /\ \A s \in Packets(Fw) :
                             Has(n, s)' \/ (s >= seq' /\ s \notin progress')
      BY <1>2 DEF Sending
    <3>1. requestAddrs = {} /\ n \in unfinished
      BY <2>1, RootAssumption DEF Asking, RoundInv
    <3>2. n \in requested /\ Knows(n) /\ progress \cap Packets(Fw) \subseteq cfg[n].bits
      BY <3>1 DEF Asking
    <3>3. \A s \in Packets(Fw) : s >= 0
      BY DEF Packets
    <3> QED
      BY <1>1, <1>2, <2>1, <3>2, <3>3 DEF Has
  <2> QED
    BY <1>1, <1>2, <1>3, <2>1, <2>2, <2>3 DEF RoundInv
<1> QED
  BY <1>4, <1>5, <1>6

\* The answer taken from the queue is not the one still awaited.
LEMMA TakeKeeps ==
  ASSUME TypeOK, queue # <<>>, queue' = Tail(queue), UNCHANGED <<downlink, uplink>>,
         NEW n \in Node, n # Src, Awaited(n)
  PROVE  Awaited(n)'
<1>1. queue \in Seq(Queued)
  BY DEF TypeOK, RootTypeOK
<1>2. \A i \in 1 .. Len(queue) :
        i = 1 \/ (i - 1 \in 1 .. Len(queue') /\ queue'[i - 1] = queue[i])
  <2>1. Head(queue) \in Queued
    BY <1>1
  <2> QED
    BY <1>1, <2>1, SequenceKeeps
<1>3. Src = queue[1].src
  BY <1>1 DEF Src
<1> QED
  BY <1>2, <1>3 DEF Awaited

LEMMA RoundCollect ==
  ASSUME OneRelease, TypeOK, CountInv, DeviceInv, RoundInv, UNCHANGED nodeVars,
         CollectStop \/ CollectUnasked \/ CollectAnswer
  PROVE  RoundInv'
<1>0. /\ rpc = "collect" /\ queue # <<>> /\ queue' = Tail(queue)
      /\ UNCHANGED <<round, tries, seq, sendRunning, downlink, uplink, spent>>
      /\ rpc' = IF requestAddrs' = {} THEN "ask" ELSE "collect"
  BY DEF CollectStop, CollectUnasked, CollectAnswer, Collecting, netVars
<1>1. Src \in Node /\ Honors(Src, St)
  BY <1>0, FirstAnswer
<1>2. /\ cfg' = cfg /\ (AllMoved' <=> AllMoved)
      /\ \A n \in Node : (Moved(n)' <=> Moved(n)) /\ (Knows(n)' <=> Knows(n))
      /\ \A k : spent'["loss"] >= k \/ AllMoved' <=> Lost(k)
  BY <1>0, RootSame
<1>3. /\ Lost(round)' <=> Lost(round)
      /\ Lost(round - 1)' <=> Lost(round - 1)
      /\ Lost(round + 1)' <=> Lost(round + 1)
  BY <1>0, <1>2 DEF Lost
<1>4. \A n \in Node : n # Src /\ Awaited(n) => Awaited(n)'
  BY <1>0, TakeKeeps
<1>5. ~CollectStop
  BY <1>1 DEF CollectStop, Honors
<1>6. CASE CollectUnasked
  <2>1. /\ Src \notin requestAddrs
        /\ UNCHANGED <<unfinished, requested, requestAddrs, progress>>
    BY <1>6 DEF CollectUnasked, Collecting, lists
  <2>2. requestAddrs \subseteq Node /\ unfinished \subseteq Node
    BY DEF TypeOK, RootTypeOK
  <2>3. Asking => Asking'
    BY <1>0, <1>2, <1>4, <2>1, <2>2 DEF Asking
  <2> QED
    BY <1>0, <1>2, <1>3, <2>1, <2>3 DEF RoundInv
<1>7. CASE CollectAnswer
  <2>0. /\ requestAddrs' = requestAddrs \ {Src} /\ Src \in requestAddrs
        /\ requestAddrs \subseteq Node /\ unfinished \subseteq Node
    BY <1>7 DEF CollectAnswer, Collecting, TypeOK, RootTypeOK
  <2>1. CASE IsComplete(St)
    <3>1. unfinished' = unfinished \ {Src} /\ UNCHANGED <<requested, progress>>
      BY <1>7, <2>1 DEF CollectAnswer, MoveToSuccessed
    <3>2. Moved(Src)
      BY <1>1, <2>1 DEF Honors
    <3>3. Asking => Asking'
      BY <1>0, <1>2, <1>4, <2>0, <3>1 DEF Asking
    <3>4. \A n \in Node \ unfinished' : Moved(n)
      BY <1>0, <3>1, <3>2 DEF RoundInv
    <3> QED
      BY <1>0, <1>2, <1>3, <2>0, <3>1, <3>3, <3>4 DEF RoundInv
  <2>2. CASE ~IsComplete(St)
    <3>1. /\ requested' = requested \cup {Src} /\ UNCHANGED unfinished
          /\ progress' = progress \cap St.bits
      BY <1>7, <2>2 DEF CollectAnswer, AndProgress
    <3>2. progress' # AllSeq
      <4>1. St.bits \subseteq Packets(Fw)
        BY <1>1, OneName DEF Honors, Knows, CountInv
      <4>2. PacketMaxNum - 1 \in AllSeq /\ PacketMaxNum - 1 \notin Packets(Fw)
        BY Single, NetAssumption DEF AllSeq, Packets
      <4> QED
        BY <3>1, <4>1, <4>2
    <3>3. Asking => Asking'
      BY <1>0, <1>1, <1>2, <1>4, <2>0, <3>1 DEF Asking, Honors
    <3> QED
      BY <1>0, <1>2, <1>3, <3>1, <3>2, <3>3 DEF RoundInv
  <2> QED
    BY <2>1, <2>2
<1> QED
  BY <1>5, <1>6, <1>7

LEMMA RoundHead ==
  ASSUME OneRelease, TypeOK, RoundInv, UNCHANGED nodeVars, SendHead
  PROVE  RoundInv'
<1>1. UNCHANGED <<unfinished, requested, successed, requestAddrs, progress,
                  sendRunning, spent, downlink>>
  BY DEF SendHead, lists, loop, netVars
<1>2. /\ cfg' = cfg /\ (AllMoved' <=> AllMoved)
      /\ \A n \in Node : (Moved(n)' <=> Moved(n)) /\ (Knows(n)' <=> Knows(n))
      /\ \A k : spent'["loss"] >= k \/ AllMoved' <=> Lost(k)
  BY <1>1, RootSame
<1>3. /\ \A n \in Node : Reached(n)' <=> Reached(n)
      /\ \A n \in Node : \A s : Has(n, s)' <=> Has(n, s)
  BY <1>1, <1>2 DEF Reached, Has, Coming
<1>4. round \in Nat /\ seq \in Nat /\ rpc = "send"
  BY DEF TypeOK, RootTypeOK, SendHead
<1>5. CASE PacketsSent
  <2>1. rpc' = "round" /\ round' = round + 1 /\ seq' = seq
    BY <1>5 DEF SendHead
  <2>2. round' - 1 = round
    BY <1>4, <2>1
  <2>3. Lost(round - 1)' <=> Lost(round)
    BY <1>2, <2>2 DEF Lost
  <2>4. Lost(round)' <=> Lost(round + 1)
    BY <1>2, <2>1 DEF Lost
  <2>5. Sending /\ sendRunning => \A n \in Node : Reached(n)
    <3>1. CASE requested = {}
      BY <3>1 DEF Sending, Reached
    <3>2. CASE seq >= PacketNum(rootFw) /\ requested # {}
      <4>1. \A s \in Packets(Fw) : ~(s >= seq)
        <5>1. rootFw \in Releases
          BY <1>4 DEF TypeOK, RootTypeOK
        <5>2. rootFw = Fw /\ PacketNum(Fw) \in Nat
          BY <5>1, Single, ImageSize
        <5> QED
          BY <1>4, <3>2, <5>2 DEF Packets
      <4> QED
        BY <4>1 DEF Sending, Reached
    <3> QED
      BY <1>5, <3>1, <3>2 DEF PacketsSent
  <2> QED
    BY <1>1, <1>2, <1>3, <1>4, <2>1, <2>3, <2>4, <2>5 DEF RoundInv
<1>6. CASE ~PacketsSent
  <2>1. /\ rpc' \in {"send", "push"} /\ round' = round
        /\ \/ seq' = seq
           \/ seq' = seq + 1 /\ seq \in progress
    BY <1>4, <1>6 DEF SendHead
  <2>2. /\ Lost(round)' <=> Lost(round)
        /\ Lost(round - 1)' <=> Lost(round - 1)
        /\ Lost(round + 1)' <=> Lost(round + 1)
    BY <1>2, <2>1 DEF Lost
  <2>3. ASSUME NEW s \in Packets(Fw), s >= seq, s \notin progress
        PROVE  s >= seq'
    BY <1>4, <2>1, <2>3 DEF Packets
  <2>4. Sending => Sending'
    BY <1>1, <1>2, <1>3, <2>3 DEF Sending
  <2> QED
    BY <1>1, <1>2, <1>4, <2>1, <2>2, <2>4 DEF RoundInv
<1> QED
  BY <1>5, <1>6

LEMMA RoundPush ==
  ASSUME OneRelease, TypeOK, CountInv, DeviceInv, RoundInv, UNCHANGED nodeVars,
         PushTake \/ PushWrite
  PROVE  RoundInv'
<1>0. /\ rpc = "push" /\ UNCHANGED <<round, sendRunning, requestAddrs, progress, spent>>
      /\ seq \in Nat /\ requested \subseteq Node
  BY DEF PushTake, PushWrite, loop, netVars, TypeOK, RootTypeOK
<1>1. /\ cfg' = cfg /\ (AllMoved' <=> AllMoved)
      /\ \A n \in Node : (Moved(n)' <=> Moved(n)) /\ (Knows(n)' <=> Knows(n))
      /\ \A k : spent'["loss"] >= k \/ AllMoved' <=> Lost(k)
  BY <1>0, RootSame
<1>2. /\ Lost(round)' <=> Lost(round)
      /\ Lost(round - 1)' <=> Lost(round - 1)
      /\ Lost(round + 1)' <=> Lost(round + 1)
  BY <1>0, <1>1 DEF Lost
<1>3. CASE PushTake
  <2>1. /\ queue # <<>> /\ UNCHANGED <<seq, downlink>>
        /\ rpc' \in {"exit", "push"} /\ (rpc' = "exit" => unfinished' = {})
        /\ \/ UNCHANGED <<unfinished, requested>>
           \/ /\ IsComplete(St) \/ St.err = "stop"
              /\ unfinished' = unfinished \ {Src}
              /\ requested' \in {requested, requested \ {Src}}
    BY <1>3 DEF PushTake, loop, netVars
  <2>2. unfinished' # unfinished \/ requested' # requested => Moved(Src)
    BY <2>1, FirstAnswer DEF Honors
  <2>3. \A n \in Node \ unfinished' : Moved(n)
    BY <1>0, <2>1, <2>2 DEF RoundInv
  <2>4. unfinished' = {} => AllMoved
    BY <2>3 DEF AllMoved
  <2>5. Sending => Sending'
    <3>1. \A n \in Node : \A s : Has(n, s)' <=> Has(n, s)
      BY <1>1, <2>1 DEF Has, Coming
    <3> QED
      BY <1>0, <1>1, <2>1, <2>2, <3>1 DEF Sending
  <2> QED
    BY <1>0, <1>1, <1>2, <2>1, <2>3, <2>4, <2>5 DEF RoundInv
<1>4. CASE PushWrite
  <2> DEFINE m == [type |-> "data", payload |-> rootFw, seq |-> seq,
                   size |-> PacketSize(rootFw, seq)]
  <2>1. /\ UNCHANGED <<unfinished, requested>> /\ seq' = seq + 1 /\ rpc' = "send"
        /\ downlink' = [n \in Node |-> IF n \in Destination
                          THEN Append(downlink[n], m) ELSE downlink[n]]
    BY <1>4 DEF PushWrite, lists, Multicast
  <2>2. requested \subseteq Destination
    BY <1>0 DEF Destination
  <2>3. m \in StatusMsg \cup DataMsg /\ m.type = "data" /\ m.seq = seq
    <3>1. rootFw \in Releases /\ seq \in AllSeq /\ PacketSize(rootFw, seq) \in Nat
      <4>1. rootFw \in Releases
        BY <1>0 DEF TypeOK, RootTypeOK
      <4>2. seq < PacketNum(rootFw)
        BY <1>0 DEF TypeOK, RootTypeOK
      <4> QED
        BY <1>0, <4>1, <4>2, PacketNumBounds, PacketSizeType, NetAssumption DEF AllSeq
    <3> QED
      BY <3>1 DEF DataMsg
  <2> HIDE DEF m
  <2>4. ASSUME NEW n \in Node, NEW s, Coming(n, s) \/ (n \in requested /\ s = seq)
        PROVE  Coming(n, s)'
    <3>1. /\ downlink[n] \in Seq(StatusMsg \cup DataMsg)
          /\ downlink'[n] \in {Append(downlink[n], m), downlink[n]}
          /\ n \in requested => downlink'[n] = Append(downlink[n], m)
      BY <2>1, <2>2 DEF TypeOK, NetTypeOK
    <3>2. CASE downlink'[n] = Append(downlink[n], m)
      BY <2>3, <2>4, <3>1, <3>2, SequenceKeeps DEF Coming
    <3>3. CASE downlink'[n] = downlink[n] /\ n \notin requested
      BY <2>4, <3>3 DEF Coming
    <3> QED
      BY <3>1, <3>2, <3>3
  <2>5. Sending => Sending'
    <3> SUFFICES ASSUME Sending, NEW n \in Node, ~Moved(n)
                 PROVE  /\ n \in requested' /\ Knows(n)'
                        /\ \A s \in Packets(Fw) :
                             Has(n, s)' \/ (s >= seq' /\ s \notin progress')
      BY <1>1 DEF Sending
    <3>1. n \in requested /\ Knows(n)
      BY DEF Sending
    <3>2. ASSUME NEW s \in Packets(Fw)
          PROVE  Has(n, s)' \/ (s >= seq' /\ s \notin progress')
      <4>1. CASE Has(n, s)
        BY <1>1, <2>4, <4>1 DEF Has
      <4>2. CASE s = seq
        BY <2>4, <3>1, <4>2 DEF Has
      <4>3. CASE s >= seq /\ s # seq /\ s \notin progress
        BY <1>0, <2>1, <4>3 DEF Packets
      <4> QED
        BY <4>1, <4>2, <4>3 DEF Sending
    <3> QED
      BY <1>1, <2>1, <3>1, <3>2
  <2> QED
    BY <1>0, <1>1, <1>2, <2>1, <2>5 DEF RoundInv
<1> QED
  BY <1>3, <1>4

LEMMA LossStep ==
  ASSUME OneRelease, Timely, Lists = {Node}, RequestCount >= 1,
         TypeOK, CountInv, FlashInv, LossInv, [Next]_vars
  PROVE  LossInv'
<1>1. ASSUME Next, Calm'
      PROVE  DeviceInv' /\ stopPc' = "none" /\ RoundInv'
  <2>1. /\ Calm /\ spent["loss"] \in Nat /\ spent'["loss"] \in Nat
        /\ spent'["loss"] >= spent["loss"]
        /\ ~Spend("fault") /\ ~Spend("reboot") /\ ~Spend("nodeStop")
        /\ ~Spend("rootStop")
    BY <1>1, CalmBefore
  <2>2. DeviceInv /\ stopPc = "none" /\ RoundInv
    BY <2>1 DEF LossInv
  <2>3. DeviceInv' /\ \A n \in Node : Fresh(n)
    BY <1>1, <2>2, DeviceInvStep DEF DeviceInv
  <2>4. \A n \in Node : /\ Moved(n) => Moved(n)'
                        /\ Knows(n) => Knows(n)' /\ cfg[n].bits \subseteq cfg'[n].bits
    BY <1>1, <2>3, DeviceStep
  <2>5. \A m \in Node : ~NodeStop(m) /\ ~Reboot(m) /\ ~CrashInStatus(m)
                        /\ \A at \in Moment : ~CrashInWrite(m, at)
    BY <2>1 DEF NodeStop, Reboot, CrashInStatus, CrashInWrite, PowerCycle
  <2>6. ~StopCall /\ ~StopArm /\ ~StopReturn /\ ~ReadFails
    BY <2>1, <2>2 DEF StopCall, StopArm, StopReturn, ReadFails
  <2>7. ASSUME NEW m \in Node, NodeHandle(m), UNCHANGED rootVars
        PROVE  stopPc' = stopPc /\ RoundInv'
    <3>1. UNCHANGED <<stopPc, queue, sendRunning, rpc, lists, loop>>
      BY <2>7 DEF rootVars, stop
    <3>2. \A n \in Node : /\ Awaited(n) => Awaited(n)'
                          /\ \A s : Knows(n) /\ Has(n, s) => Has(n, s)'
      BY <1>1, <2>3, <2>7, <3>1, HandledKeeps
    <3> QED
      BY <2>1, <2>2, <2>4, <3>1, <3>2, RoundKept
  <2>8. ASSUME NEW m \in Node, RootHandle(m), UNCHANGED nodeVars
        PROVE  stopPc' = stopPc /\ RoundInv'
    <3>1. UNCHANGED <<stopPc, sendRunning, rpc, lists, loop, downlink, cfg>>
      BY <2>8 DEF RootHandle, stop, nodeVars, ramVars
    <3>2. \A n \in Node : \A s : Has(n, s) => Has(n, s)'
      BY <3>1 DEF Has, Coming
    <3>3. CASE sendRunning
      BY <2>1, <2>2, <2>4, <2>8, <3>1, <3>2, <3>3, HandOverKeeps, RoundKept
    <3>4. CASE ~sendRunning
      BY <2>2, <3>1, <3>4 DEF RoundInv
    <3> QED
      BY <3>1, <3>3, <3>4
  <2>9. ASSUME NEW m \in Node, Lose(m), UNCHANGED <<rootVars, nodeVars>>
        PROVE  stopPc' = stopPc /\ RoundInv'
    BY <2>2, <2>9, RoundLose DEF rootVars, stop
  <2>10. ASSUME UNCHANGED nodeVars,
                \/ RoundBegin \/ SendExit
                \/ \E T \in Lists, all \in Modes : SendBegin(T, all)
         PROVE  stopPc' = stopPc /\ RoundInv'
    BY <2>2, <2>10, RoundBegins DEF RoundBegin, SendExit, SendBegin, stop
  <2>11. ASSUME UNCHANGED nodeVars, DrainTake \/ DrainTimeout
         PROVE  stopPc' = stopPc /\ RoundInv'
    BY <2>2, <2>11, RoundDrain DEF DrainTake, DrainTimeout, stop
  <2>12. ASSUME UNCHANGED nodeVars, Ask \/ CollectTimeout \/ RequestEnd
         PROVE  stopPc' = stopPc /\ RoundInv'
    BY <2>2, <2>12, RoundAsk DEF Ask, CollectTimeout, RequestEnd, stop
  <2>13. ASSUME UNCHANGED nodeVars, CollectStop \/ CollectUnasked \/ CollectAnswer
         PROVE  stopPc' = stopPc /\ RoundInv'
    BY <2>2, <2>13, RoundCollect
    DEF CollectStop, CollectUnasked, CollectAnswer, Collecting, stop
  <2>14. ASSUME UNCHANGED nodeVars, SendHead
         PROVE  stopPc' = stopPc /\ RoundInv'
    BY <2>2, <2>14, RoundHead DEF SendHead, stop
  <2>15. ASSUME UNCHANGED nodeVars, PushTake \/ PushWrite
         PROVE  stopPc' = stopPc /\ RoundInv'
    BY <2>2, <2>15, RoundPush DEF PushTake, PushWrite, stop
  <2>16. ASSUME \/ \E f \in Releases, ok \in BOOLEAN : FirmwareInit(f, ok)
                \/ \E ok \in BOOLEAN : FirmwareDownload(ok)
         PROVE  stopPc' = stopPc /\ RoundInv'
    BY <2>16 DEF FirmwareInit, FirmwareDownload, stop, RoundInv
  <2>17. stopPc' = stopPc /\ RoundInv'
    BY <1>1, <2>5, <2>6, <2>7, <2>8, <2>9, <2>10, <2>11, <2>12, <2>13, <2>14, <2>15,
       <2>16
    DEF Next, NodeHandle
  <2> QED
    BY <2>2, <2>3, <2>17
<1>2. CASE UNCHANGED vars
  <2>1. UNCHANGED <<downlink, uplink, spent, queue, sendRunning, rpc, unfinished,
                    requested, successed, requestAddrs, progress, round, tries, seq,
                    stopPc, cfg, nvs, boot, running>>
    BY <1>2 DEF vars, netVars, rootVars, lists, loop, stop, nodeVars, ramVars
  <2> QED
    BY <2>1
    DEF LossInv, Calm, DeviceInv, Fresh, Honors, IsComplete, Knows, Moved, RoundInv,
        Lost, AllMoved, Reached, Has, Coming, Asking, Awaited, Sending
<1> QED
  BY <1>1, <1>2 DEF LossInv

LEMMA LossInit == Init => LossInv
<1> SUFFICES ASSUME Init PROVE LossInv
  OBVIOUS
<1>1. /\ \A n \in Node : cfg[n] = EmptyCfg /\ nvs[n] = EmptyCfg /\ uplink[n] = <<>>
      /\ queue = <<>> /\ rpc = "idle" /\ stopPc = "none"
  BY DEF Init, NodeInit, NetInit, RootInit
<1>2. EmptyCfg.fw = NoFw /\ EmptyCfg.err = "ok"
  BY DEF EmptyCfg
<1> HIDE DEF Init
<1> QED
  BY <1>1, <1>2 DEF LossInv, DeviceInv, RoundInv, Fresh, Knows

\* mupgrade_firmware_send is called for every device, with fewer losses than
\* rounds by two; no device is reset, stops or fails, and answers come in time.
\* It then returns only when every device boots the new firmware next: a round
\* that leaves a device behind has lost a message, and what is lost in a round
\* is sent again in the next one.
THEOREM AlwaysAllUpgraded ==
  ASSUME OneRelease, Timely, Lists = {Node}, RequestCount >= 1
  PROVE  Spec => [](Calm /\ spent["loss"] + 2 <= RetryCount => AllUpgraded)
<1>1. TypeOK /\ FlashInv /\ LossInv
        => (Calm /\ spent["loss"] + 2 <= RetryCount => AllUpgraded)
  <2> SUFFICES ASSUME TypeOK, FlashInv, LossInv, Calm,
                      spent["loss"] + 2 <= RetryCount, rpc = "exit", NEW n \in Node
               PROVE  IsImage(rootFw, flash[n][boot[n]])
    BY DEF AllUpgraded
  <2>1. AllMoved
    <3>1. spent["loss"] \in Nat /\ RetryCount \in Nat
      BY RootAssumption DEF TypeOK, NetTypeOK, Hazard
    <3> QED
      BY <3>1 DEF LossInv, RoundInv
  <2>2. boot[n] # running[n] /\ boot[n] = Target(n)
    BY <2>1 DEF AllMoved, Moved, TypeOK, NodeTypeOK, Slot, Target
  <2>3. cfg[n].fw # NoFw /\ cfg[n].bits = Packets(Fw)
        /\ Backed(cfg[n], flash[n][Target(n)])
    BY <2>2 DEF Calm, FlashInv, Switched
  <2>4. rootFw = Fw
    BY Single DEF TypeOK, RootTypeOK
  <2> QED
    BY <2>2, <2>3, <2>4 DEF Backed, IsImage
<1>2. TypeOK /\ CountInv /\ [Next]_vars => CountInv'
  BY Single, CountStep
<1>3. TypeOK /\ RunningIntact /\ CountInv /\ FlashInv /\ [Next]_vars => FlashInv'
  BY FlashStep
<1>4. TypeOK /\ CountInv /\ FlashInv /\ LossInv /\ [Next]_vars => LossInv'
  BY LossStep
<1>5. Init => FlashInv
  BY FlashInit
<1> QED
  BY <1>1, <1>2, <1>3, <1>4, <1>5, CountInit, LossInit, RunningInit, RunningStep,
     TypeInit, TypeStep, PTL DEF Spec
=============================================================================
