---------------------------- MODULE MupgradeNet ----------------------------
(***************************************************************************)
(* What the two ends of a mesh firmware upgrade share: the firmware images *)
(* and the packets they are cut into, the messages of mupgrade.h, and the  *)
(* mesh (ESP-MDF's mwifi, outside src/) that carries them.                 *)
(*                                                                         *)
(* The mesh keeps, per device, one FIFO of messages from the root          *)
(* (downlink) and one of answers to it (uplink).  A message may be lost; a *)
(* blocking write waits while the device's window is full.                 *)
(*                                                                         *)
(* Everything that a run bounds is counted in  spent  against  Limit.      *)
(***************************************************************************)
EXTENDS Integers, Sequences, FiniteSets, Functions

CONSTANTS
  Node,           \* the non-root devices of the mesh
  Firmware,       \* firmware images, named by mupgrade_status_t.name
  NoFw,           \* the all-zero name of a configuration never filled in
  Releases,       \* the images the server hands to the root
  TotalSize,      \* bytes of each image
  PacketMaxSize,  \* MUPGRADE_PACKET_MAX_SIZE
  PacketMaxNum,   \* MUPGRADE_PACKET_MAX_NUM, the bits of a progress array
  ChannelCap,     \* window of the mesh, in messages per device and direction
  Limit,          \* how often each Hazard may strike in a run
  Acts            \* and how often all of them but new sessions

Hazard == {"loss", "reboot", "fault", "nodeStop", "rootStop", "session"}

PacketNum(f) == (TotalSize[f] + PacketMaxSize - 1) \div PacketMaxSize

\* The OTA slot, hence every image, is smaller than the progress array can
\* name: 1800 KiB in partitions.csv against 4096 packets of 1 KiB.
ASSUME NetAssumption ==
  /\ NoFw \notin Firmware
  /\ Releases \subseteq Firmware
  /\ PacketMaxSize \in Nat \ {0}
  /\ PacketMaxNum \in Nat \ {0}
  /\ TotalSize \in [Firmware -> Nat \ {0}]
  /\ \A f \in Firmware : PacketNum(f) \in 1 .. PacketMaxNum - 1
  /\ ChannelCap \in Nat \ {0}
  /\ Limit \in [Hazard -> Nat]

VARIABLES
  downlink,       \* downlink[n]: messages on their way from the root to n
  uplink,         \* uplink[n]: answers of n on their way to the root
  spent           \* spent[h]: how often hazard h has struck

netVars == <<downlink, uplink, spent>>

----------------------------------------------------------------------------
(* Images and packets.                                                     *)

AllSeq == 0 .. PacketMaxNum - 1

Packets(f) == 0 .. PacketNum(f) - 1

LastPacketSize(f) ==
  IF TotalSize[f] % PacketMaxSize = 0 THEN PacketMaxSize
                                      ELSE TotalSize[f] % PacketMaxSize

PacketSize(f, seq) ==
  IF seq = PacketNum(f) - 1 THEN LastPacketSize(f) ELSE PacketMaxSize

(***************************************************************************)
(* Messages.  A data packet does not name the firmware it belongs to:      *)
(* "payload" stands for its 1024 bytes, which no receiver inspects.        *)
(***************************************************************************)
ErrorCode == {"ok", "stop", "fail"}

StatusMsg == [type : {"status"}, fw : Releases]

DataMsg == [type : {"data"}, payload : Releases, seq : AllSeq, size : Nat]

Answer == [err : ErrorCode, written : Nat, total : Nat, bits : SUBSET AllSeq]

\* Mutant: the last packet is not waited for.
IsCompleteEarly(a) == a.written + PacketMaxSize >= a.total

IsComplete(a) == a.written = a.total

----------------------------------------------------------------------------
NetInit ==
  /\ downlink = [n \in Node |-> <<>>]
  /\ uplink = [n \in Node |-> <<>>]
  /\ spent = [h \in Hazard |-> 0]

ActsLeft == FoldFunctionOnSet(+, 0, spent, Hazard \ {"session"}) < Acts

Spend(h) ==
  /\ spent[h] < Limit[h]
  /\ h = "session" \/ ActsLeft
  /\ spent' = [spent EXCEPT ![h] = @ + 1]

\* mwifi_root_write to a list of addresses, blocking.
Multicast(dest, m) ==
  /\ \A n \in dest : Len(downlink[n]) < ChannelCap
  /\ downlink' = [n \in Node |-> IF n \in dest THEN Append(downlink[n], m)
                                               ELSE downlink[n]]

\* mwifi_write(NULL, ...) of device n towards the root, blocking.
SendToRoot(n, a) ==
  /\ Len(uplink[n]) < ChannelCap
  /\ uplink' = [uplink EXCEPT ![n] = Append(@, a)]

\* A message of n is lost.  Losing the oldest is enough: a message that will
\* never be read is not observed before it becomes the oldest.
Lose(n) ==
  /\ Spend("loss")
  /\ \/ /\ downlink[n] # <<>>
        /\ downlink' = [downlink EXCEPT ![n] = Tail(@)]
        /\ UNCHANGED uplink
     \/ /\ uplink[n] # <<>>
        /\ uplink' = [uplink EXCEPT ![n] = Tail(@)]
        /\ UNCHANGED downlink

NetTypeOK ==
  /\ downlink \in [Node -> Seq(StatusMsg \cup DataMsg)]
  /\ uplink \in [Node -> Seq(Answer)]
  /\ spent \in [Hazard -> Nat]
=============================================================================
