---------------------------- MODULE MupgradeRoot ----------------------------
(***************************************************************************)
(* The root that distributes a firmware                                    *)
(* (components/mupgrade/mupgrade_root.c): mupgrade_firmware_init/_download *)
(* obtain an image, mupgrade_firmware_send distributes it in rounds, each  *)
(* a status request followed by the packets some device misses, and        *)
(* mupgrade_root_handle, called by another task, queues what devices       *)
(* answer.  The address lists are sets: no address is in a list twice.     *)
(*                                                                         *)
(* rpc is the position of the task inside mupgrade_firmware_send:          *)
(*   "idle"     not called         "round"    head of the retry loop       *)
(*   "drain"    mupgrade_request_status, loop before the request           *)
(*   "ask"      its request loop   "collect"  waiting for the answers      *)
(*   "send"     head of the packet loop                                    *)
(*   "push"     a packet is read, the queue is drained, then it is sent    *)
(*   "exit"     the EXIT label                                             *)
(***************************************************************************)
EXTENDS MupgradeNet

CONSTANTS
  Lists,          \* the address lists a caller may pass, as sets of devices
  Modes,          \* {TRUE}: broadcast (the list is the routing table),
                  \* {FALSE}: a list of addresses, or both
  RetryCount,     \* CONFIG_MUPGRADE_RETRY_COUNT
  RequestCount,   \* status requests of one round, 3 in the code
  QueueLen,       \* length of g_upgrade_config->queue, 3 in the code
  Timely          \* TRUE: devices answer within WAIT_RESPONSE_TIMEOUT

ASSUME RootAssumption ==
  /\ Lists \subseteq SUBSET Node
  /\ {} \notin Lists
  /\ Modes \subseteq BOOLEAN
  /\ RetryCount \in Nat /\ RequestCount \in Nat /\ QueueLen \in Nat
  /\ Timely \in BOOLEAN

VARIABLES
  rootFw,         \* g_upgrade_config->status.name; NoFw: not initialised
  rootErr,        \* g_upgrade_config->status.error_code
  queue,          \* g_upgrade_config->queue
  sendRunning,    \* g_mupgrade_send_running_flag
  rpc, everyone, unfinished, requested, successed, \* mupgrade_firmware_send
  requestAddrs, progress, round, tries, seq,
  stopPc,         \* position inside mupgrade_firmware_stop
  exitSem         \* g_mupgrade_send_exit_sem

lists    == <<unfinished, requested, successed>>
loop     == <<requestAddrs, progress, round, tries, seq>>
image    == <<rootFw, rootErr>>
stop     == <<stopPc, exitSem>>
rootVars == <<image, queue, sendRunning, rpc, everyone, lists, loop, stop>>

Queued == [src : Node, st : Answer]

RootInit ==
  /\ rootFw = NoFw /\ rootErr = "ok"
  /\ queue = <<>> /\ sendRunning = FALSE
  /\ rpc = "idle" /\ everyone = FALSE
  /\ unfinished = {} /\ requested = {} /\ successed = {}
  /\ requestAddrs = {} /\ progress = {}
  /\ round = 0 /\ tries = 0 /\ seq = 0
  /\ stopPc = "none" /\ exitSem = "null"

----------------------------------------------------------------------------
(* The image.                                                              *)

\* mupgrade_firmware_init.  A failing esp_ota_begin is not returned (the
\* check returns ret, still MDF_OK): it only makes the download refuse data.
FirmwareInit(f, ok) ==
  /\ rpc = "idle"
  /\ IF ok THEN UNCHANGED spent ELSE Spend("fault")
  /\ rootFw' = f
  /\ rootErr' = IF ok THEN "ok" ELSE "fail"
  /\ queue' = <<>>
  /\ UNCHANGED <<stop, sendRunning, rpc, everyone, lists, loop, downlink, uplink>>

\* mupgrade_firmware_download until the last byte and _download_finished.
FirmwareDownload(ok) ==
  /\ rpc = "idle"
  /\ rootFw # NoFw /\ rootErr = "ok"
  /\ IF ok THEN UNCHANGED spent ELSE Spend("fault")
  /\ rootErr' = IF ok THEN "finish" ELSE "fail"
  /\ UNCHANGED <<stop, rootFw, queue, sendRunning, rpc, everyone, lists, loop,
                 downlink, uplink>>

----------------------------------------------------------------------------
\* mupgrade_root_handle on an answer of n: the calling task reads the mesh.
\* With a full queue it waits for room, and drops the answer at its timeout.
RootHandle(n) ==
  /\ uplink[n] # <<>>
  /\ uplink' = [uplink EXCEPT ![n] = Tail(@)]
  /\ \/ /\ sendRunning
        /\ Len(queue) < QueueLen
        /\ queue' = Append(queue, [src |-> n, st |-> Head(uplink[n])])
     \/ /\ ~sendRunning \/ (Len(queue) >= QueueLen /\ ~Timely)
        /\ UNCHANGED queue
  /\ UNCHANGED <<stop, image, sendRunning, rpc, everyone, lists, loop,
                 downlink, spent>>

(***************************************************************************)
(* mupgrade_firmware_stop, called by any other task: the flag is tested,   *)
(* the semaphore created and the flag cleared, and EXIT waited for.        *)
(***************************************************************************)
StopCall ==
  /\ stopPc = "none" /\ sendRunning
  /\ Spend("rootStop")
  /\ stopPc' = "tested"
  /\ UNCHANGED <<image, queue, sendRunning, rpc, everyone, lists, loop, exitSem,
                 downlink, uplink>>

StopArm ==
  /\ stopPc = "tested"
  /\ stopPc' = "waiting"
  /\ exitSem' = IF exitSem = "null" THEN "empty" ELSE exitSem
  /\ sendRunning' = FALSE
  /\ UNCHANGED <<image, queue, rpc, everyone, lists, loop, netVars>>

StopReturn ==
  /\ stopPc = "waiting" /\ exitSem = "given"
  /\ stopPc' = "none" /\ exitSem' = "null"
  /\ UNCHANGED <<image, queue, sendRunning, rpc, everyone, lists, loop, netVars>>

----------------------------------------------------------------------------
(* mupgrade_firmware_send.                                                 *)

SendBegin(T, all) ==
  /\ rpc = "idle"
  /\ rootErr = "finish"
  /\ Spend("session")
  /\ rpc' = "round" /\ sendRunning' = TRUE
  /\ everyone' = all
  /\ unfinished' = T /\ requested' = {} /\ successed' = {}
  /\ round' = 0
  /\ UNCHANGED <<stop, image, queue, requestAddrs, progress, tries, seq,
                 downlink, uplink>>

RoundBegin ==
  /\ rpc = "round"
  /\ IF round < RetryCount /\ unfinished # {} /\ sendRunning
       THEN rpc' = "drain" /\ requested' = {}
       ELSE rpc' = "exit" /\ UNCHANGED requested
  /\ UNCHANGED <<stop, image, queue, sendRunning, everyone, unfinished, successed,
                 loop, netVars>>

\* Mutant: the semaphore is given only while the flag is set.
WokenIfRunning ==
  IF exitSem = "null" \/ ~sendRunning THEN exitSem ELSE "given"

\* The semaphore of a waiting mupgrade_firmware_stop.
Woken == IF exitSem = "null" THEN "null" ELSE "given"

\* EXIT: lists go to the caller, the queue is emptied, a waiting stop is woken.
SendExit ==
  /\ rpc = "exit"
  /\ rpc' = "idle" /\ sendRunning' = FALSE
  /\ queue' = <<>>
  /\ requestAddrs' = {} /\ progress' = {}
  /\ round' = 0 /\ tries' = 0 /\ seq' = 0
  /\ exitSem' = Woken
  /\ UNCHANGED <<image, everyone, lists, stopPc, netVars>>

\* The queue stays empty for WAIT_RESPONSE_TIMEOUT.
QueueTimeout ==
  /\ queue = <<>>
  /\ Timely => \A n \in Node : downlink[n] = <<>> /\ uplink[n] = <<>>

Src == Head(queue).src
St  == Head(queue).st

\* Mutant: a device that succeeded is not taken from the unfinished ones.
MoveToSuccessedKeeping(n) ==
  /\ UNCHANGED unfinished
  /\ successed' = IF n \in unfinished THEN successed \cup {n} ELSE successed

\* What the drain and the collect loops do with an answer of a finished
\* device: it moves from the unfinished to the succeeded ones.
MoveToSuccessed(n) ==
  /\ unfinished' = unfinished \ {n}
  /\ successed' = IF n \in unfinished THEN successed \cup {n} ELSE successed

DrainTake ==
  /\ rpc = "drain"
  /\ queue # <<>>
  /\ queue' = Tail(queue)
  /\ IF IsComplete(St) THEN MoveToSuccessed(Src)
     ELSE /\ unfinished' = IF St.err = "stop" THEN unfinished \ {Src}
                                              ELSE unfinished
          /\ UNCHANGED successed
  /\ rpc' = IF unfinished' = {} THEN "exit" ELSE "drain"
  /\ UNCHANGED <<stop, image, sendRunning, everyone, requested, loop, netVars>>

DrainTimeout ==
  /\ rpc = "drain"
  /\ QueueTimeout
  /\ rpc' = "ask"
  /\ requestAddrs' = unfinished
  /\ progress' = AllSeq
  /\ tries' = 0
  /\ UNCHANGED <<stop, image, queue, sendRunning, everyone, lists, round, seq,
                 netVars>>

Ask ==
  /\ rpc = "ask"
  /\ tries < RequestCount /\ requestAddrs # {}
  /\ Multicast(requestAddrs, [type |-> "status", fw |-> rootFw])
  /\ rpc' = "collect"
  /\ UNCHANGED <<stop, image, queue, sendRunning, everyone, lists, loop, uplink,
                 spent>>

\* Mutant: the attempt is not counted.
CollectTimeoutUncounted ==
  /\ rpc = "collect"
  /\ QueueTimeout
  /\ rpc' = "ask"
  /\ UNCHANGED <<stop, image, queue, sendRunning, everyone, lists, loop, netVars>>

CollectTimeout ==
  /\ rpc = "collect"
  /\ QueueTimeout
  /\ rpc' = "ask"
  /\ tries' = tries + 1
  /\ UNCHANGED <<stop, image, queue, sendRunning, everyone, lists, requestAddrs,
                 progress, round, seq, netVars>>

\* An answer is taken while the devices in rest remain to be heard of.
Collecting(rest) ==
  /\ rpc = "collect"
  /\ queue # <<>>
  /\ queue' = Tail(queue)
  /\ requestAddrs' = rest
  /\ rpc' = IF rest = {} THEN "ask" ELSE "collect"
  /\ UNCHANGED <<stop, image, sendRunning, everyone, round, tries, seq, netVars>>

CollectStop ==
  /\ Collecting(requestAddrs \ {Src})
  /\ St.err = "stop"
  /\ unfinished' = unfinished \ {Src}
  /\ UNCHANGED <<requested, successed, progress>>

CollectUnasked ==
  /\ Collecting(requestAddrs)
  /\ St.err # "stop"
  /\ Src \notin requestAddrs
  /\ UNCHANGED <<lists, progress>>

\* Mutant: a packet counts as received when any device has it.
OrProgress(bits) == progress \cup bits

\* A packet counts as received when every device that answered has it.
AndProgress(bits) == progress \cap bits

CollectAnswer ==
  /\ Collecting(requestAddrs \ {Src})
  /\ St.err # "stop"
  /\ Src \in requestAddrs
  /\ IF IsComplete(St)
       THEN /\ MoveToSuccessed(Src)
            /\ UNCHANGED <<requested, progress>>
       ELSE /\ requested' = requested \cup {Src}
            /\ progress' = AndProgress(St.bits)
            /\ UNCHANGED <<unfinished, successed>>

\* The end of mupgrade_request_status: success only when every device asked
\* has answered and none of the answers misses a packet.
RequestEnd ==
  /\ rpc = "ask"
  /\ tries >= RequestCount \/ requestAddrs = {}
  /\ rpc' = IF requestAddrs = {} /\ progress = AllSeq THEN "exit" ELSE "send"
  /\ seq' = 0
  /\ UNCHANGED <<stop, image, queue, sendRunning, everyone, lists, requestAddrs,
                 progress, round, tries, netVars>>

\* Mutant: one packet too many.
PacketsSentLate == requested = {} \/ seq > PacketNum(rootFw) \/ ~sendRunning

\* The condition that ends the packet loop.
PacketsSent == requested = {} \/ seq >= PacketNum(rootFw) \/ ~sendRunning

SendHead ==
  /\ rpc = "send"
  /\ IF PacketsSent
       THEN rpc' = "round" /\ round' = round + 1 /\ UNCHANGED seq
     ELSE IF seq \in progress
       THEN seq' = seq + 1 /\ UNCHANGED <<rpc, round>>
       ELSE rpc' = "push" /\ UNCHANGED <<seq, round>>
  /\ UNCHANGED <<stop, image, queue, sendRunning, everyone, lists, requestAddrs,
                 progress, tries, netVars>>

\* esp_partition_read fails at the head of the packet loop.
ReadFails ==
  /\ rpc = "send"
  /\ ~PacketsSent
  /\ seq \notin progress
  /\ Spend("fault")
  /\ rpc' = "exit"
  /\ UNCHANGED <<stop, image, queue, sendRunning, everyone, lists, loop,
                 downlink, uplink>>

(***************************************************************************)
(* An answer taken between two packets.  A finished device that is not     *)
(* among the requested ones leaves the unfinished list and enters no       *)
(* other: MDF_ERROR_CONTINUE skips the rest of the loop body, the check    *)
(* for an empty list included.                                             *)
(***************************************************************************)
PushTake ==
  LET skips == IsComplete(St) /\ Src \notin unfinished \cap requested IN
  /\ rpc = "push"
  /\ queue # <<>>
  /\ queue' = Tail(queue)
  /\ IF IsComplete(St) \/ St.err = "stop"
       THEN unfinished' = unfinished \ {Src}
       ELSE UNCHANGED unfinished
  /\ requested' =
       IF (IsComplete(St) /\ ~skips) \/ (~IsComplete(St) /\ St.err = "stop")
       THEN requested \ {Src} ELSE requested
  /\ successed' = IF IsComplete(St) /\ ~skips THEN successed \cup {Src}
                                              ELSE successed
  /\ rpc' = IF ~skips /\ unfinished' = {} THEN "exit" ELSE "push"
  /\ UNCHANGED <<stop, image, sendRunning, everyone, loop, netVars>>

\* To all devices as long as at most one has succeeded, if the caller named
\* no list; to the devices that answered the request otherwise.
Destination ==
  IF everyone /\ Cardinality(successed) < 2 THEN Node ELSE requested

PushWrite ==
  /\ rpc = "push"
  /\ queue = <<>>
  /\ Multicast(Destination, [type |-> "data", payload |-> rootFw, seq |-> seq,
                             size |-> PacketSize(rootFw, seq)])
  /\ rpc' = "send"
  /\ seq' = seq + 1
  /\ UNCHANGED <<stop, image, queue, sendRunning, everyone, lists, requestAddrs,
                 progress, round, tries, uplink, spent>>

----------------------------------------------------------------------------
\* The task inside mupgrade_firmware_send.
SendTask ==
  \/ RoundBegin \/ SendExit
  \/ DrainTake \/ DrainTimeout
  \/ Ask \/ CollectTimeout \/ CollectStop \/ CollectUnasked \/ CollectAnswer
  \/ RequestEnd
  \/ SendHead \/ ReadFails \/ PushTake \/ PushWrite

StopTask == StopArm \/ StopReturn

RootTypeOK ==
  /\ rootFw \in Releases \cup {NoFw}
  /\ rootErr \in {"ok", "fail", "finish"}
  /\ rootErr = "finish" => rootFw # NoFw
  /\ rpc # "idle" => rootErr = "finish"
  /\ queue \in Seq(Queued)
  /\ sendRunning \in BOOLEAN /\ everyone \in BOOLEAN
  /\ rpc \in {"idle", "round", "drain", "ask", "collect", "send", "push",
              "exit"}
  /\ unfinished \subseteq Node /\ requested \subseteq Node
  /\ successed \subseteq Node /\ requestAddrs \subseteq Node
  /\ progress \subseteq AllSeq
  /\ round \in Nat /\ tries \in Nat /\ seq \in Nat
  /\ rpc = "push" => seq < PacketNum(rootFw)
  /\ stopPc \in {"none", "tested", "waiting"}
  /\ exitSem \in {"null", "empty", "given"}
=============================================================================
