----------------------------- MODULE PhotoRelay -----------------------------
(***************************************************************************)
(* The way of a photo to the server: a device cuts it into packets         *)
(* (node_send_pic, main/node_task.c), the root puts the packets together   *)
(* in g_root_mesh_read_data and sends them with the last one               *)
(* (do_process_image_data_from_root_or_node, main/router.c).               *)
(*                                                                         *)
(*   cam[n]  the photo n is sending: its number, the packet to send next,  *)
(*           how many it has; for the properties, whether a packet was     *)
(*           lost and whether the root was disturbed meanwhile             *)
(*   slot    g_root_mesh_read_data: the places for packets, from 0         *)
(*   at      pRootMsg, as an index; what comes next is read to this slot   *)
(*   start   bStartGetImage                                                *)
(*   err     err_count                                                     *)
(*   out     the slots that were last sent to the server                   *)
(*                                                                         *)
(* The mesh keeps the order of one device's packets, so the root sees some *)
(* interleaving of what the devices send: a packet is sent and handled in  *)
(* one step.  The connection to the server is up.                          *)
(***************************************************************************)
EXTENDS Integers, Sequences, FiniteSets

CONSTANTS
  Node,
  MaxCount,   \* PHOTO_PACKET_MAX_COUNT (400)
  ErrCount,   \* MAX_ERR_COUNT (10)
  Sizes,      \* packets a photo may have
  Alone,      \* TRUE: a photo is asked for when the last one is complete
  Limit       \* how often the environment acts

Event == {"photo", "lose", "other", "ping"}

ASSUME PhotoAssumption ==
  /\ MaxCount \in Nat \ {0} /\ ErrCount \in Nat
  /\ Sizes \subseteq Nat \ {0}
  /\ Limit \in [Event -> Nat]

VARIABLES cam, slot, at, start, err, out, spent

photoVars == <<cam, slot, at, start, err, out, spent>>

None  == "none"
Other == [src |-> None, id |-> 0, count |-> 0]

Packet == [src : Node \cup {None}, id : 0 .. Limit["photo"], count : Nat]

Idle == [id |-> 0, next |-> 0, max |-> 0, lost |-> FALSE, hit |-> FALSE]

Slot == [addr : Node \cup {None}, pkt : Packet]

\* One slot more than there are, to see the index pass the end.
Places == 0 .. MaxCount

PhotoTypeOK ==
  /\ cam \in [Node -> [id : 0 .. Limit["photo"], next : Nat, max : Sizes \cup {0},
                       lost : BOOLEAN, hit : BOOLEAN]]
  /\ slot \in [Places -> Slot]
  /\ at \in Places
  /\ start \in BOOLEAN
  /\ err \in 0 .. ErrCount
  /\ out \in Seq(Slot) /\ Len(out) <= MaxCount
  /\ spent \in [Event -> Nat] /\ \A what \in Event : spent[what] <= Limit[what]

PhotoInit ==
  /\ cam = [n \in Node |-> Idle]
  /\ slot = [k \in Places |-> [addr |-> None, pkt |-> Other]]
  /\ at = 0 /\ start = FALSE /\ err = 0
  /\ out = <<>>
  /\ spent = [what \in Event |-> 0]

Spend(what) ==
  /\ spent[what] < Limit[what]
  /\ spent' = [spent EXCEPT ![what] = @ + 1]

----------------------------------------------------------------------------
(* The device *)

\* A photo is asked for and taken.
Capture(n, size) ==
  /\ cam[n] = Idle
  /\ Alone => \A m \in Node : cam[m] = Idle
  /\ Spend("photo")
  /\ cam' = [cam EXCEPT ![n] = [id |-> spent'["photo"], next |-> 1, max |-> size,
                                lost |-> FALSE, hit |-> FALSE]]
  /\ UNCHANGED <<slot, at, start, err, out>>

Sending(n) == cam[n].next > 0

PacketOf(n) == [src |-> n, id |-> cam[n].id, count |-> cam[n].next]

IsLast(n) == cam[n].next = cam[n].max

\* The root read it to another slot than the first.
Misplaced(n) == cam[n].next = 1 /\ at # 0

Sent(n, lost) ==
  cam' = [m \in Node |->
    IF m # n THEN [cam[m] EXCEPT !.hit = @ \/ Sending(m)]
    ELSE IF IsLast(n) THEN Idle
    ELSE [cam[n] EXCEPT !.next = @ + 1, !.lost = @ \/ lost,
                        !.hit = @ \/ Misplaced(n)]]

PacketLost(n) ==
  /\ Sending(n) /\ Spend("lose")
  /\ Sent(n, TRUE)
  /\ UNCHANGED <<slot, at, start, err, out>>

----------------------------------------------------------------------------
(* The root *)

\* mwifi_root_read has put the packet into the slot at hand.
Read(n) == [slot EXCEPT ![at].pkt = PacketOf(n)]

TooMany(e) == e > ErrCount

\* A photo with more packets than there are slots.
TooLarge(n) ==
  /\ Sending(n) /\ cam[n].max > MaxCount
  /\ slot' = Read(n)
  /\ IF TooMany(err + 1)
       THEN err' = 0 /\ start' = FALSE /\ at' = 0
       ELSE err' = err + 1 /\ UNCHANGED <<start, at>>
  /\ Sent(n, FALSE)
  /\ UNCHANGED <<out, spent>>

\* Mutant: the first packet does not start a photo.
BegunQuiet(n) ==
  IF cam[n].next = 1
    THEN [slot |-> [Read(n) EXCEPT ![0].addr = n], at |-> 0, start |-> start, err |-> 0]
    ELSE [slot |-> Read(n), at |-> at, start |-> start, err |-> err]

\* The first packet of a photo: what was collected is dropped, but the packet
\* stays in the slot it was read to.
Begun(n) ==
  IF cam[n].next = 1
    THEN [slot |-> [Read(n) EXCEPT ![0].addr = n], at |-> 0, start |-> TRUE, err |-> 0]
    ELSE [slot |-> Read(n), at |-> at, start |-> start, err |-> err]

\* No first packet was seen: the packet is left where it is.
NotStarted(n) ==
  /\ Sending(n) /\ cam[n].max <= MaxCount
  /\ ~Begun(n).start
  /\ slot' = Read(n)
  /\ Sent(n, FALSE)
  /\ UNCHANGED <<at, start, err, out, spent>>

\* The last packet, of whatever device: as many slots as it says are sent.
LastPacket(n) ==
  /\ Sending(n) /\ cam[n].max <= MaxCount
  /\ IsLast(n) /\ Begun(n).start
  /\ LET b == Begun(n) IN
     /\ slot' = b.slot /\ start' = b.start /\ err' = b.err
     /\ out' = [k \in 1 .. cam[n].max |-> b.slot[k - 1]]
     /\ at' = 0
  /\ Sent(n, FALSE)
  /\ UNCHANGED spent

\* A packet of the device whose address is in the first slot.
NextPacket(n) ==
  /\ Sending(n) /\ cam[n].max <= MaxCount
  /\ ~IsLast(n) /\ Begun(n).start
  /\ LET b == Begun(n) IN
     /\ b.slot[0].addr = n
     /\ slot' = b.slot /\ start' = b.start
     /\ at' = b.at + 1
     /\ err' = 0
  /\ Sent(n, FALSE)
  /\ UNCHANGED <<out, spent>>

\* A packet of another device.
StrayPacket(n) ==
  /\ Sending(n) /\ cam[n].max <= MaxCount
  /\ ~IsLast(n) /\ Begun(n).start
  /\ LET b == Begun(n) IN
     /\ b.slot[0].addr # n
     /\ slot' = b.slot
     /\ IF TooMany(b.err + 1)
          THEN err' = 0 /\ start' = FALSE /\ at' = 0
          ELSE err' = b.err + 1 /\ start' = b.start /\ at' = b.at
  /\ Sent(n, FALSE)
  /\ UNCHANGED <<out, spent>>

\* Any other message of a device, or a command of the server on its way out.
OtherMessage(n) ==
  /\ Spend("other")
  /\ slot' = [slot EXCEPT ![at] = [addr |-> n, pkt |-> Other]]
  /\ UNCHANGED <<cam, at, start, err, out>>

\* root_send_ping builds its packet in the first slot.
Ping ==
  /\ Spend("ping")
  /\ slot' = [slot EXCEPT ![0].pkt = Other]
  /\ cam' = [n \in Node |-> [cam[n] EXCEPT !.hit = @ \/ cam[n].next > 1]]
  /\ UNCHANGED <<at, start, err, out>>

\* The last slot is followed by other memory: the model ends here.
InBuffer == at < MaxCount

RootReads(n) ==
  InBuffer /\ (TooLarge(n) \/ NotStarted(n) \/ LastPacket(n) \/ NextPacket(n)
               \/ StrayPacket(n))

PhotoNext ==
  \/ \E n \in Node, size \in Sizes : Capture(n, size)
  \/ \E n \in Node : PacketLost(n)
  \/ \E n \in Node : RootReads(n)
  \/ \E n \in Node : InBuffer /\ OtherMessage(n)
  \/ Ping

PhotoSpec == PhotoInit /\ [][PhotoNext]_photoVars

----------------------------------------------------------------------------
IsPhoto(o, n, id, max) ==
  Len(o) = max /\ \A k \in 1 .. max : o[k].pkt = [src |-> n, id |-> id, count |-> k]

\* The step reads the last packet of a photo that has lost none and that the
\* root has room for.
Arrives(n) ==
  /\ Sending(n) /\ IsLast(n) /\ cam[n].max <= MaxCount
  /\ ~cam[n].lost /\ UNCHANGED spent["lose"]
  /\ cam'[n] = Idle

Relayed(n) ==
  IsPhoto(out', n, cam[n].id, cam[n].max) /\ out'[1].addr = n

(***************************************************************************)
(* A photo all of whose packets reach the root is sent to the server       *)
(* whole, in order and under its device's address when its last packet     *)
(* arrives, whatever the root had collected before.                        *)
(***************************************************************************)
PhotoRelayed == [][\A n \in Node : Arrives(n) => Relayed(n)]_photoVars

(***************************************************************************)
(* After any losses, pings and mixed photos, a photo that begins when the  *)
(* root is back at the first slot and is then not disturbed is relayed.    *)
(***************************************************************************)
PhotoRecovered ==
  [][\A n \in Node :
       Arrives(n) /\ ~cam[n].hit /\ ~Misplaced(n) => Relayed(n)]_photoVars

\* What is sent to the server are packets of one photo, each in its place.
PhotoWhole ==
  out # <<>> =>
    \E n \in Node, id \in 1 .. Limit["photo"] : IsPhoto(out, n, id, Len(out))

\* Every packet that is sent to the server carries its device's address.
PacketsNamed == \A k \in DOMAIN out : out[k].addr = out[k].pkt.src
=============================================================================
