---------------------------- MODULE PhotoProofs ----------------------------
(***************************************************************************)
(* What is proved of a photo: of the camera that is set up for it          *)
(* (CameraSetup), and of its way to the server (PhotoRelay).               *)
(***************************************************************************)
EXTENDS CameraSetup, PhotoRelay, TLAPS, FiniteSetTheorems

Sender == [id : 0 .. Limit["photo"], next : Nat, max : Sizes \cup {0},
           lost : BOOLEAN, hit : BOOLEAN]

LEMMA SpendPhoto ==
  ASSUME PhotoTypeOK, NEW what \in Event, Spend(what)
  PROVE  /\ spent' \in [Event -> Nat] /\ \A w \in Event : spent'[w] <= Limit[w]
         /\ spent'[what] = spent[what] + 1
<1>1. spent \in [Event -> Nat] /\ Limit \in [Event -> Nat]
  BY PhotoAssumption DEF PhotoTypeOK
<1>2. /\ spent[what] \in Nat /\ Limit[what] \in Nat /\ spent[what] < Limit[what]
      /\ spent' = [spent EXCEPT ![what] = spent[what] + 1]
  BY <1>1 DEF Spend
<1>3. spent' \in [Event -> Nat] /\ spent'[what] = spent[what] + 1
  BY <1>1, <1>2
<1>4. \A w \in Event : spent[w] <= Limit[w]
  BY DEF PhotoTypeOK
<1>5. \A w \in Event \ {what} : spent'[w] = spent[w]
  BY <1>1, <1>2
<1> QED
  BY <1>2, <1>3, <1>4, <1>5

LEMMA IdleType == Idle \in Sender /\ Idle.next = 0
<1>1. Limit["photo"] \in Nat
  BY PhotoAssumption DEF Event
<1> QED
  BY <1>1 DEF Idle, Sender

\* What a packet of n makes of the devices.
LEMMA SentSteps ==
  ASSUME cam \in [Node -> Sender], NEW n \in Node, NEW l \in BOOLEAN, Sent(n, l)
  PROVE  /\ cam' \in [Node -> Sender]
         /\ IF IsLast(n) THEN cam'[n] = Idle
            ELSE /\ cam'[n].next = cam[n].next + 1
                 /\ cam'[n].id = cam[n].id /\ cam'[n].max = cam[n].max
                 /\ cam'[n].lost = (cam[n].lost \/ l)
                 /\ cam'[n].hit = (cam[n].hit \/ Misplaced(n))
         /\ \A m \in Node : m # n =>
              /\ cam'[m].next = cam[m].next
              /\ cam'[m].hit = (cam[m].hit \/ Sending(m))
<1> DEFINE c == cam[n]
           d == [c EXCEPT !.next = @ + 1, !.lost = @ \/ l, !.hit = @ \/ Misplaced(n)]
<1>1. \A m \in Node : cam[m] \in Sender
  OBVIOUS
<1>2. /\ d \in Sender /\ d.next = c.next + 1 /\ d.id = c.id /\ d.max = c.max
      /\ d.lost = (c.lost \/ l) /\ d.hit = (c.hit \/ Misplaced(n))
  <2> DEFINE l2 == c.lost \/ l
             h2 == c.hit \/ Misplaced(n)
             e == [c EXCEPT !.next = c.next + 1, !.lost = l2, !.hit = h2]
  <2>1. l2 \in BOOLEAN /\ h2 \in BOOLEAN /\ c \in Sender
    BY <1>1
  <2> HIDE DEF l2, h2, c
  <2>2. e.next = c.next + 1 /\ e.id = c.id /\ e.max = c.max
    BY <2>1 DEF Sender
  <2>3. e.lost = l2
    BY <2>1 DEF Sender
  <2>4. e.hit = h2
    BY <2>1 DEF Sender
  <2> DEFINE c1 == [c EXCEPT !.next = c.next + 1]
             c2 == [c1 EXCEPT !.lost = l2]
             c3 == [c2 EXCEPT !.hit = h2]
  <2>5. c1 \in Sender
    BY <2>1 DEF Sender
  <2>6. c2 \in Sender
    <3> HIDE DEF c1
    <3> QED
      BY <2>1, <2>5 DEF Sender
  <2>7. c3 \in Sender
    <3> HIDE DEF c2
    <3> QED
      BY <2>1, <2>6 DEF Sender
  <2>8. e = c3
    OBVIOUS
  <2> QED
    BY <2>2, <2>3, <2>4, <2>7, <2>8 DEF l2, h2, c
<1>3. ASSUME NEW m \in Node
      PROVE  LET e == [cam[m] EXCEPT !.hit = @ \/ Sending(m)] IN
             e \in Sender /\ e.next = cam[m].next /\ e.hit = (cam[m].hit \/ Sending(m))
  BY <1>1 DEF Sender, Sending
<1>4. cam' = [m \in Node |->
                IF m # n THEN [cam[m] EXCEPT !.hit = @ \/ Sending(m)]
                ELSE IF IsLast(n) THEN Idle ELSE d]
  BY DEF Sent
<1> HIDE DEF c, d
<1> QED
  BY <1>2, <1>3, <1>4, IdleType DEF c

LEMMA OtherType == Other \in Packet
<1>1. Limit["photo"] \in Nat
  BY PhotoAssumption DEF Event
<1> QED
  BY <1>1 DEF Other, Packet

LEMMA PacketType ==
  ASSUME PhotoTypeOK, NEW n \in Node
  PROVE  /\ PacketOf(n) \in Packet /\ PacketOf(n).count = cam[n].next
<1>1. Limit["photo"] \in Nat
  BY PhotoAssumption DEF Event
<1>2. cam[n].id \in 0 .. Limit["photo"] /\ cam[n].next \in Nat
  BY DEF PhotoTypeOK
<1> QED
  BY <1>1, <1>2 DEF PacketOf, Packet

\* A packet put into a slot.
LEMMA PlaceSteps ==
  ASSUME PhotoTypeOK, NEW k \in Places, NEW p \in Packet
  PROVE  LET t == [slot EXCEPT ![k].pkt = p] IN
         /\ t \in [Places -> Slot] /\ t[k].pkt = p
         /\ \A j \in Places : t[j].addr = slot[j].addr
         /\ \A j \in Places : j # k => t[j] = slot[j]
<1>1. slot \in [Places -> Slot] /\ slot[k] \in Slot
  BY DEF PhotoTypeOK
<1> DEFINE r == [slot[k] EXCEPT !.pkt = p]
<1>2. r \in Slot /\ r.pkt = p /\ r.addr = slot[k].addr
  BY <1>1 DEF Slot
<1>3. [slot EXCEPT ![k].pkt = p] = [slot EXCEPT ![k] = r]
  OBVIOUS
<1> HIDE DEF r
<1> QED
  BY <1>1, <1>2, <1>3

\* What the root makes of a packet before it looks at whose it is.
LEMMA BegunSteps ==
  ASSUME PhotoTypeOK, NEW n \in Node
  PROVE  LET b == Begun(n) IN
         /\ b.slot \in [Places -> Slot]
         /\ \A j \in Places :
              b.slot[j].pkt = IF j = at THEN PacketOf(n) ELSE slot[j].pkt
         /\ b.slot[0].addr = IF cam[n].next = 1 THEN n ELSE slot[0].addr
         /\ b.at = IF cam[n].next = 1 THEN 0 ELSE at
         /\ b.start \in BOOLEAN /\ (b.start <=> start \/ cam[n].next = 1)
         /\ b.err \in 0 .. ErrCount
<1> DEFINE t == Read(n)
           u == [t EXCEPT ![0].addr = n]
<1>1. /\ at \in Places /\ 0 \in Places /\ err \in 0 .. ErrCount /\ 0 \in 0 .. ErrCount
      /\ start \in BOOLEAN
  BY PhotoAssumption DEF PhotoTypeOK, Places
<1>2. /\ t \in [Places -> Slot] /\ t[at].pkt = PacketOf(n)
      /\ \A j \in Places : t[j].addr = slot[j].addr
      /\ \A j \in Places : j # at => t[j] = slot[j]
  BY <1>1, PacketType, PlaceSteps DEF Read
<1> DEFINE r == [t[0] EXCEPT !.addr = n]
<1> HIDE DEF t
<1>3. r \in Slot /\ r.pkt = t[0].pkt /\ r.addr = n
  BY <1>1, <1>2 DEF Slot
<1>4. u = [t EXCEPT ![0] = r]
  OBVIOUS
<1> HIDE DEF r
<1>5. /\ u \in [Places -> Slot] /\ u[0].addr = n
      /\ \A j \in Places : u[j].pkt = t[j].pkt
  BY <1>1, <1>2, <1>3, <1>4
<1> HIDE DEF u
<1>6. Begun(n) = IF cam[n].next = 1
                   THEN [slot |-> u, at |-> 0, start |-> TRUE, err |-> 0]
                   ELSE [slot |-> t, at |-> at, start |-> start, err |-> err]
  BY DEF Begun, u, t
<1>7. CASE cam[n].next = 1
  BY <1>1, <1>2, <1>5, <1>6, <1>7
<1>8. CASE cam[n].next # 1
  BY <1>1, <1>2, <1>6, <1>8
<1> QED
  BY <1>7, <1>8

LEMMA PhotoTypeInit == PhotoInit => PhotoTypeOK
<1> SUFFICES ASSUME PhotoInit PROVE PhotoTypeOK
  OBVIOUS
<1>1. Limit["photo"] \in Nat /\ Limit \in [Event -> Nat] /\ ErrCount \in Nat
      /\ MaxCount \in Nat
  BY PhotoAssumption DEF Event
<1>3. [addr |-> None, pkt |-> Other] \in Slot
  BY OtherType DEF Slot
<1>4. cam \in [Node -> Sender]
  BY IdleType DEF PhotoInit
<1>5. /\ slot \in [Places -> Slot] /\ at \in Places /\ start \in BOOLEAN
      /\ err \in 0 .. ErrCount /\ out \in Seq(Slot) /\ Len(out) <= MaxCount
  <2>1. slot \in [Places -> Slot]
    BY <1>3 DEF PhotoInit
  <2>2. at \in Places /\ err \in 0 .. ErrCount
    BY <1>1 DEF PhotoInit, Places
  <2>3. start \in BOOLEAN
    BY DEF PhotoInit
  <2>4. out \in Seq(Slot) /\ Len(out) <= MaxCount
    BY <1>1 DEF PhotoInit
  <2> QED
    BY <2>1, <2>2, <2>3, <2>4
<1>6. spent \in [Event -> Nat] /\ \A what \in Event : spent[what] <= Limit[what]
  BY <1>1 DEF PhotoInit
<1> QED
  BY <1>4, <1>5, <1>6 DEF PhotoTypeOK, Sender

LEMMA PhotoTypeStep == PhotoTypeOK /\ [PhotoNext]_photoVars => PhotoTypeOK'
<1> SUFFICES ASSUME PhotoTypeOK, [PhotoNext]_photoVars
             PROVE  PhotoTypeOK'
  OBVIOUS
<1>0. /\ cam \in [Node -> Sender] /\ slot \in [Places -> Slot]
      /\ at \in Places /\ 0 \in Places /\ start \in BOOLEAN
      /\ err \in 0 .. ErrCount /\ ErrCount \in Nat /\ MaxCount \in Nat
      /\ out \in Seq(Slot) /\ Len(out) <= MaxCount
      /\ spent \in [Event -> Nat] /\ \A what \in Event : spent[what] <= Limit[what]
      /\ {"photo", "lose", "other", "ping"} = Event
  BY PhotoAssumption DEF PhotoTypeOK, Sender, Places, Event
<1> DEFINE Sensors == cam' \in [Node -> Sender]
           Spends  == spent' \in [Event -> Nat] /\ \A w \in Event : spent'[w] <= Limit[w]
           Root    == /\ slot' \in [Places -> Slot] /\ at' \in Places
                      /\ start' \in BOOLEAN /\ err' \in 0 .. ErrCount
                      /\ out' \in Seq(Slot) /\ Len(out') <= MaxCount
<1>1. ASSUME NEW n \in Node, NEW size \in Sizes, Capture(n, size)
      PROVE  Sensors /\ Spends /\ Root
  <2>1. Spends /\ spent'["photo"] \in 0 .. Limit["photo"]
    BY <1>0, <1>1, SpendPhoto, PhotoAssumption DEF Capture
  <2>2. [id |-> spent'["photo"], next |-> 1, max |-> size, lost |-> FALSE,
         hit |-> FALSE] \in Sender
    BY <2>1 DEF Sender
  <2> QED
    BY <1>0, <1>1, <2>1, <2>2 DEF Capture
<1>2. ASSUME NEW n \in Node, PacketLost(n)
      PROVE  Sensors /\ Spends /\ Root
  BY <1>0, <1>2, SpendPhoto, SentSteps DEF PacketLost
<1>3. ASSUME NEW n \in Node, InBuffer /\ OtherMessage(n)
      PROVE  Sensors /\ Spends /\ Root
  <2>1. [addr |-> n, pkt |-> Other] \in Slot
    BY OtherType DEF Slot
  <2> QED
    BY <1>0, <1>3, <2>1, SpendPhoto DEF OtherMessage
<1>4. ASSUME Ping
      PROVE  Sensors /\ Spends /\ Root
  <2>1. Spends
    BY <1>0, <1>4, SpendPhoto DEF Ping
  <2>2. slot' \in [Places -> Slot] /\ UNCHANGED <<at, start, err, out>>
    BY <1>0, <1>4, OtherType, PlaceSteps DEF Ping
  <2>3. ASSUME NEW n \in Node
        PROVE  [cam[n] EXCEPT !.hit = @ \/ cam[n].next > 1] \in Sender
    BY <1>0 DEF Sender
  <2>4. Sensors
    BY <1>4, <2>3 DEF Ping
  <2>5. Root
    <3> HIDE DEF Sensors, Spends
    <3>1. at' \in Places /\ out' \in Seq(Slot) /\ Len(out') <= MaxCount /\ err' \in 0 .. ErrCount
      BY <1>0, <2>2
    <3>2. start' \in BOOLEAN
      BY <1>0, <2>2
    <3> QED
      BY <2>2, <3>1, <3>2
  <2> HIDE DEF Sensors, Spends, Root
  <2> QED
    BY <2>1, <2>4, <2>5
<1>5. ASSUME NEW n \in Node, RootReads(n)
      PROVE  Sensors /\ Spends /\ Root
  <2>1. Sensors /\ Spends
    BY <1>0, <1>5, SentSteps
    DEF RootReads, TooLarge, NotStarted, LastPacket, NextPacket, StrayPacket
  <2> DEFINE b == Begun(n)
  <2>2. /\ b.slot \in [Places -> Slot] /\ b.at \in {0, at}
        /\ b.start \in BOOLEAN /\ b.err \in 0 .. ErrCount
    BY <1>0, BegunSteps
  <2>3. Read(n) \in [Places -> Slot]
    BY <1>0, PacketType, PlaceSteps DEF Read
  <2>4. at < MaxCount /\ at + 1 \in Places /\ 1 \in Places
    BY <1>0, <1>5 DEF RootReads, InBuffer, Places
  <2>5. \A e \in 0 .. ErrCount : ~TooMany(e + 1) => e + 1 \in 0 .. ErrCount
    BY <1>0 DEF TooMany
  <2> HIDE DEF b
  <2>6. CASE TooLarge(n)
    BY <1>0, <2>3, <2>5, <2>6 DEF TooLarge
  <2>7. CASE NotStarted(n)
    <3>1. slot' = Read(n) /\ UNCHANGED <<at, start, err, out>>
      BY <2>7 DEF NotStarted
    <3> QED
      BY <1>0, <2>1, <2>3, <3>1
  <2>8. CASE LastPacket(n)
    <3>1. cam[n].max \in Nat /\ cam[n].max <= MaxCount
      <4>1. cam[n].max <= MaxCount /\ cam[n].max = cam[n].next
        BY <2>8 DEF LastPacket, IsLast
      <4> QED
        BY <1>0, <4>1 DEF Sender
    <3>2. /\ slot' = b.slot /\ start' = b.start /\ err' = b.err /\ at' = 0
          /\ out' = [k \in 1 .. cam[n].max |-> b.slot[k - 1]]
      BY <2>8 DEF LastPacket, b
    <3>3. \A k \in 1 .. cam[n].max : b.slot[k - 1] \in Slot
      BY <1>0, <2>2, <3>1 DEF Places
    <3>4. out' \in Seq(Slot) /\ Len(out') = cam[n].max
      BY <3>1, <3>2, <3>3
    <3> QED
      BY <1>0, <2>1, <2>2, <3>1, <3>2, <3>4
  <2>9. CASE NextPacket(n)
    <3>1. slot' = b.slot /\ start' = b.start /\ at' = b.at + 1 /\ err' = 0 /\ out' = out
      BY <2>9 DEF NextPacket, b
    <3> QED
      BY <1>0, <2>1, <2>2, <2>4, <3>1
  <2>10. CASE StrayPacket(n)
    <3>1. /\ slot' = b.slot /\ out' = out
          /\ IF TooMany(b.err + 1)
               THEN err' = 0 /\ start' = FALSE /\ at' = 0
               ELSE err' = b.err + 1 /\ start' = b.start /\ at' = b.at
      BY <2>10 DEF StrayPacket, b
    <3>2. CASE TooMany(b.err + 1)
      <4>0. err' = 0 /\ start' = FALSE /\ at' = 0
        BY <3>1, <3>2, Zenon
      <4>1. /\ start' \in BOOLEAN /\ at' \in Places /\ err' \in 0 .. ErrCount
        <5>1. start' \in BOOLEAN
          BY <4>0
        <5>2. at' \in Places
          BY <1>0, <4>0
        <5>3. err' \in 0 .. ErrCount
          BY <1>0, <4>0
        <5> QED
          BY <5>1, <5>2, <5>3
      <4>2. Root
        BY <1>0, <2>2, <3>1, <4>1
      <4> HIDE DEF Sensors, Spends, Root
      <4> QED
        BY <2>1, <4>2
    <3>3. CASE ~TooMany(b.err + 1)
      <4>1. b.err + 1 \in 0 .. ErrCount /\ b.at \in Places
        BY <1>0, <2>2, <2>5, <3>3
      <4> QED
        BY <1>0, <2>1, <2>2, <3>1, <3>3, <4>1
    <3> QED
      BY <3>2, <3>3
  <2> QED
    BY <1>5, <2>1, <2>6, <2>7, <2>8, <2>9, <2>10 DEF RootReads
<1>6. ASSUME UNCHANGED photoVars
      PROVE  Sensors /\ Spends /\ Root
  <2>1. UNCHANGED <<cam, slot, at, start, err, out, spent>>
    BY <1>6 DEF photoVars
  <2>2. Sensors /\ Spends
    BY <1>0, <2>1
  <2>3. Root
    BY <1>0, <2>1
  <2> HIDE DEF Sensors, Spends, Root
  <2> QED
    BY <2>2, <2>3
<1> HIDE DEF Sensors, Spends, Root
<1>7. Sensors /\ Spends /\ Root
  BY <1>1, <1>2, <1>3, <1>4, <1>5, <1>6 DEF PhotoNext
<1> QED
  BY <1>7 DEF PhotoTypeOK, Sender, Sensors, Spends, Root
----------------------------------------------------------------------------
(***************************************************************************)
(* The inductive invariant behind PhotoRecovered: of a photo that is under *)
(* way, fits and was neither hit nor short of a packet, the root has every *)
(* packet so far in the slot of its number, and the next one is read to    *)
(* the slot after them.                                                    *)
(***************************************************************************)
Undisturbed(n) ==
  cam[n].next > 1 /\ cam[n].max <= MaxCount /\ ~cam[n].hit /\ ~cam[n].lost

Gathered(n) ==
  /\ start /\ at = cam[n].next - 1 /\ slot[0].addr = n
  /\ \A k \in 0 .. cam[n].next - 2 :
       slot[k].pkt = [src |-> n, id |-> cam[n].id, count |-> k + 1]

Collected == \A n \in Node : Undisturbed(n) => Gathered(n)

\* What a packet of n means for the photos that are under way.
LEMMA SentTells ==
  ASSUME PhotoTypeOK, NEW n \in Node, NEW l \in BOOLEAN, Sent(n, l)
  PROVE  /\ \A m \in Node : m # n => ~Undisturbed(m)' /\ cam'[m].next = cam[m].next
         /\ IsLast(n) => cam'[n] = Idle /\ ~Undisturbed(n)'
         /\ ~IsLast(n) => /\ cam'[n].next = cam[n].next + 1 /\ cam'[n].id = cam[n].id
                          /\ cam'[n].max = cam[n].max
         /\ ~IsLast(n) /\ Undisturbed(n)' =>
              ~l /\ ~cam[n].lost /\ ~cam[n].hit /\ ~Misplaced(n)
<1>1. cam \in [Node -> Sender]
  BY DEF PhotoTypeOK, Sender
<1>2. \A m \in Node : cam[m].next \in Nat
  BY <1>1 DEF Sender
<1>3. ASSUME NEW m \in Node, m # n
      PROVE  ~Undisturbed(m)' /\ cam'[m].next = cam[m].next
  <2>1. cam'[m].next = cam[m].next /\ cam'[m].hit = (cam[m].hit \/ Sending(m))
    BY <1>1, <1>3, SentSteps
  <2>2. CASE Sending(m)
    <3>1. cam'[m].hit
      BY <2>1, <2>2
    <3> QED
      BY <2>1, <3>1 DEF Undisturbed
  <2>3. CASE ~Sending(m)
    <3>1. ~(cam'[m].next > 1)
      BY <1>2, <2>1, <2>3 DEF Sending
    <3> QED
      BY <2>1, <3>1 DEF Undisturbed
  <2> QED
    BY <2>2, <2>3
<1>4. ASSUME IsLast(n)
      PROVE  cam'[n] = Idle /\ ~Undisturbed(n)'
  <2>1. cam'[n] = Idle
    BY <1>1, <1>4, SentSteps
  <2>2. cam'[n].next = 0
    BY <2>1, IdleType
  <2> QED
    BY <2>1, <2>2 DEF Undisturbed
<1>5. ASSUME ~IsLast(n)
      PROVE  /\ cam'[n].next = cam[n].next + 1 /\ cam'[n].id = cam[n].id
             /\ cam'[n].max = cam[n].max
             /\ Undisturbed(n)' => ~l /\ ~cam[n].lost /\ ~cam[n].hit /\ ~Misplaced(n)
  <2>1. /\ cam'[n].next = cam[n].next + 1
        /\ cam'[n].id = cam[n].id /\ cam'[n].max = cam[n].max
        /\ cam'[n].lost = (cam[n].lost \/ l)
        /\ cam'[n].hit = (cam[n].hit \/ Misplaced(n))
    BY <1>1, <1>5, SentSteps
  <2>2. Undisturbed(n)' => ~cam'[n].lost /\ ~cam'[n].hit
    BY DEF Undisturbed
  <2>3. Undisturbed(n)' => ~(cam[n].lost \/ l) /\ ~(cam[n].hit \/ Misplaced(n))
    BY <2>1, <2>2
  <2> QED
    BY <2>1, <2>3
<1> QED
  BY <1>3, <1>4, <1>5

\* A photo that fits is not one with more packets than there are slots.
LEMMA Fits ==
  ASSUME PhotoTypeOK, NEW n \in Node, cam[n].max <= MaxCount
  PROVE  ~TooLarge(n)
<1>1. cam[n].max \in Sizes \cup {0} /\ MaxCount \in Nat
  BY PhotoAssumption DEF PhotoTypeOK
<1>2. cam[n].max \in Nat
  <2>1. \A k \in Sizes : k \in Nat
    BY PhotoAssumption
  <2> QED
    BY <1>1, <2>1
<1>3. ~(cam[n].max > MaxCount)
  BY <1>1, <1>2
<1> QED
  BY <1>3 DEF TooLarge

\* A packet the root reads of a photo that is not disturbed finds the photo
\* started and itself in its slot.
LEMMA ReadInPlace ==
  ASSUME PhotoTypeOK, Collected, NEW n \in Node, Sending(n), cam[n].max <= MaxCount,
         ~cam[n].hit, ~cam[n].lost, ~Misplaced(n)
  PROVE  LET b == Begun(n) IN
         /\ b.start /\ b.slot[0].addr = n /\ b.at = at /\ at = cam[n].next - 1
         /\ \A k \in 0 .. cam[n].next - 1 :
              b.slot[k].pkt = [src |-> n, id |-> cam[n].id, count |-> k + 1]
<1> DEFINE b == Begun(n)
           p(k) == [src |-> n, id |-> cam[n].id, count |-> k + 1]
<1>1. /\ at \in Places /\ cam[n].next \in Nat /\ cam[n].next > 0 /\ MaxCount \in Nat
      /\ \A k \in Places : k \in Nat
  BY PhotoAssumption DEF PhotoTypeOK, Sending, Places
<1>2. /\ \A j \in Places :
           b.slot[j].pkt = IF j = at THEN PacketOf(n) ELSE slot[j].pkt
      /\ b.slot[0].addr = IF cam[n].next = 1 THEN n ELSE slot[0].addr
      /\ b.at = IF cam[n].next = 1 THEN 0 ELSE at
      /\ (b.start <=> start \/ cam[n].next = 1)
  BY BegunSteps
<1> HIDE DEF b
<1>3. at = cam[n].next - 1 /\ b.at = at /\ b.start /\ b.slot[0].addr = n
  <2>1. CASE cam[n].next = 1
    BY <1>1, <1>2, <2>1 DEF Misplaced
  <2>2. CASE cam[n].next # 1
    <3>1. Gathered(n)
      BY <1>1, <2>2 DEF Collected, Undisturbed
    <3> QED
      BY <1>1, <1>2, <2>2, <3>1 DEF Gathered
  <2> QED
    BY <2>1, <2>2
<1>4. ASSUME NEW k \in 0 .. cam[n].next - 1
      PROVE  b.slot[k].pkt = p(k)
  <2>1. k \in Places /\ k \in Nat /\ k <= at
    BY <1>1, <1>3 DEF Places
  <2>2. CASE k = at
    <3>1. p(k) = PacketOf(n)
      BY <1>1, <1>3, <2>2 DEF PacketOf
    <3> QED
      BY <1>2, <2>1, <2>2, <3>1
  <2>3. CASE k # at
    <3>1. cam[n].next > 1 /\ k \in 0 .. cam[n].next - 2
      BY <1>1, <1>3, <2>1, <2>3
    <3>2. slot[k].pkt = p(k)
      BY <3>1 DEF Collected, Undisturbed, Gathered
    <3> QED
      BY <1>2, <2>1, <2>3, <3>2
  <2> QED
    BY <2>2, <2>3
<1> QED
  BY <1>3, <1>4 DEF b

LEMMA CollectedStep ==
  PhotoTypeOK /\ Collected /\ [PhotoNext]_photoVars => Collected'
<1> SUFFICES ASSUME PhotoTypeOK, Collected, [PhotoNext]_photoVars,
                    NEW n \in Node, Undisturbed(n)'
             PROVE  Gathered(n)'
  BY DEF Collected
<1>0. /\ cam \in [Node -> Sender] /\ cam[n] \in Sender /\ cam[n].next \in Nat
      /\ at \in Places /\ 0 \in Places /\ slot \in [Places -> Slot]
      /\ MaxCount \in Nat
      /\ \A m \in Node, l \in BOOLEAN : Sent(m, l) =>
           m = n /\ ~l /\ ~IsLast(n) /\ ~cam[n].lost /\ ~cam[n].hit /\ ~Misplaced(n)
           /\ cam'[n].next = cam[n].next + 1 /\ cam'[n].id = cam[n].id
           /\ cam'[n].max = cam[n].max
  <2>1. /\ cam \in [Node -> Sender] /\ cam[n] \in Sender /\ cam[n].next \in Nat
        /\ at \in Places /\ 0 \in Places /\ slot \in [Places -> Slot]
        /\ MaxCount \in Nat
    BY PhotoAssumption DEF PhotoTypeOK, Sender, Places
  <2> QED
    BY <2>1, SentTells
\* A step that leaves the photo and what is collected of it.
<1>1. ASSUME cam'[n] = cam[n], UNCHANGED <<start, at>>,
             at > 0 => \A k \in 0 .. at - 1 : slot'[k] = slot[k]
      PROVE  Gathered(n)'
  <2>1. Gathered(n) /\ cam[n].next > 1
    BY <1>1 DEF Collected, Undisturbed
  <2>2. at = cam[n].next - 1 /\ at > 0
    BY <1>0, <2>1 DEF Gathered
  <2>3. /\ slot'[0] = slot[0]
        /\ \A k \in 0 .. cam[n].next - 2 : slot'[k] = slot[k]
    BY <1>0, <1>1, <2>2
  <2> QED
    BY <1>0, <1>1, <2>1, <2>3 DEF Gathered
<1>2. ASSUME NEW m \in Node, NEW size \in Sizes, Capture(m, size)
      PROVE  Gathered(n)'
  <2>1. m # n
    <3>1. SUFFICES ASSUME m = n PROVE FALSE
      OBVIOUS
    <3>2. cam'[n].next = 1
      BY <1>0, <1>2, <3>1 DEF Capture
    <3> QED
      BY <3>2 DEF Undisturbed
  <2> QED
    BY <1>0, <1>1, <1>2, <2>1 DEF Capture
<1>3. ASSUME NEW m \in Node, PacketLost(m)
      PROVE  Gathered(n)'
  BY <1>0, <1>3 DEF PacketLost
<1>4. ASSUME NEW m \in Node, RootReads(m)
      PROVE  Gathered(n)'
  <2>1. Sent(m, FALSE) /\ Sending(m)
    BY <1>4 DEF RootReads, TooLarge, NotStarted, LastPacket, NextPacket, StrayPacket
  <2>2. /\ m = n /\ ~IsLast(n) /\ ~cam[n].lost /\ ~cam[n].hit /\ ~Misplaced(n)
        /\ cam'[n].next = cam[n].next + 1 /\ cam'[n].id = cam[n].id
        /\ cam'[n].max = cam[n].max
    BY <1>0, <2>1
  <2>3. cam[n].max <= MaxCount
    BY <2>2 DEF Undisturbed
  <2> DEFINE b == Begun(n)
  <2>4. /\ b.start /\ b.slot[0].addr = n /\ b.at = at /\ at = cam[n].next - 1
        /\ \A k \in 0 .. cam[n].next - 1 :
             b.slot[k].pkt = [src |-> n, id |-> cam[n].id, count |-> k + 1]
    BY <2>1, <2>2, <2>3, ReadInPlace
  <2>5. ~TooLarge(n)
    BY <2>3, Fits
  <2>6. ~NotStarted(n) /\ ~LastPacket(n) /\ ~StrayPacket(n)
    BY <2>2, <2>4 DEF NotStarted, LastPacket, StrayPacket
  <2>7. NextPacket(n)
    BY <1>4, <2>2, <2>5, <2>6 DEF RootReads
  <2>8. slot' = b.slot /\ start' = b.start /\ at' = b.at + 1
    BY <2>7 DEF NextPacket, b
  <2> HIDE DEF b
  <2>9. at' = cam'[n].next - 1 /\ start' /\ slot'[0].addr = n
    BY <1>0, <2>2, <2>4, <2>8
  <2>10. \A k \in 0 .. cam'[n].next - 2 :
           slot'[k].pkt = [src |-> n, id |-> cam'[n].id, count |-> k + 1]
    BY <1>0, <2>2, <2>4, <2>8
  <2> QED
    BY <2>9, <2>10 DEF Gathered
<1>5. ASSUME NEW m \in Node, OtherMessage(m)
      PROVE  Gathered(n)'
  <2>1. \A k \in 0 .. at - 1 : slot'[k] = slot[k]
    BY <1>0, <1>5 DEF OtherMessage, Places
  <2> QED
    BY <1>1, <1>5, <2>1 DEF OtherMessage
<1>6. ~Ping
  <2> SUFFICES ASSUME Ping PROVE FALSE
    OBVIOUS
  <2> DEFINE h == cam[n].hit \/ cam[n].next > 1
  <2>1. cam'[n] = [cam[n] EXCEPT !.hit = h]
    BY DEF Ping
  <2> HIDE DEF h
  <2>2. cam'[n].next = cam[n].next /\ cam'[n].hit = h
    BY <1>0, <2>1 DEF Sender
  <2>3. cam[n].next > 1 /\ ~h
    BY <2>2 DEF Undisturbed
  <2> QED
    BY <2>3 DEF h
<1>7. ASSUME UNCHANGED photoVars
      PROVE  Gathered(n)'
  BY <1>1, <1>7 DEF photoVars
<1> QED
  BY <1>2, <1>3, <1>4, <1>5, <1>6, <1>7 DEF PhotoNext

(***************************************************************************)
(* The last packet of a photo that was not disturbed sends it whole.       *)
(***************************************************************************)
LEMMA RecoveredStep ==
  ASSUME PhotoTypeOK, Collected, [PhotoNext]_photoVars,
         NEW n \in Node, Arrives(n), ~cam[n].hit, ~Misplaced(n)
  PROVE  Relayed(n)
<1>0. /\ cam \in [Node -> Sender] /\ cam[n] \in Sender /\ cam[n].next \in Nat
      /\ cam[n].next > 0 /\ Idle.next = 0 /\ cam'[n].next # cam[n].next
      /\ Sending(n) /\ IsLast(n) /\ cam[n].max <= MaxCount /\ ~cam[n].lost
      /\ MaxCount \in Nat /\ cam[n].max = cam[n].next
  BY IdleType, PhotoAssumption DEF PhotoTypeOK, Arrives, Sending, Sender, IsLast
<1>1. ASSUME NEW m \in Node, NEW size \in Sizes, Capture(m, size)
      PROVE  FALSE
  <2>1. m # n
    BY <1>0, <1>1 DEF Capture
  <2> QED
    BY <1>0, <1>1, <2>1 DEF Capture
<1>2. ASSUME NEW m \in Node, PacketLost(m)
      PROVE  FALSE
  <2>1. spent'["lose"] = spent["lose"] + 1 /\ spent["lose"] \in Nat
    BY <1>2, SpendPhoto DEF PacketLost, PhotoTypeOK, Event
  <2> QED
    BY <2>1 DEF Arrives
<1>3. ~ \E m \in Node : OtherMessage(m)
  BY <1>0 DEF OtherMessage
<1>4. ~Ping
  <2> SUFFICES ASSUME Ping PROVE FALSE
    OBVIOUS
  <2> DEFINE h == cam[n].hit \/ cam[n].next > 1
  <2>1. cam'[n] = [cam[n] EXCEPT !.hit = h]
    BY DEF Ping
  <2> HIDE DEF h
  <2>2. cam'[n].next = cam[n].next
    BY <1>0, <2>1 DEF Sender
  <2> QED
    BY <1>0, <2>2
<1>5. ~UNCHANGED photoVars
  BY <1>0 DEF photoVars
<1>6. PICK m \in Node : RootReads(m)
  BY <1>1, <1>2, <1>3, <1>4, <1>5 DEF PhotoNext
<1>7. m = n
  <2>1. Sent(m, FALSE)
    BY <1>6 DEF RootReads, TooLarge, NotStarted, LastPacket, NextPacket, StrayPacket
  <2> QED
    BY <1>0, <2>1, SentTells
<1> DEFINE b == Begun(n)
<1>8. /\ b.start /\ b.slot[0].addr = n /\ b.at = at /\ at = cam[n].next - 1
      /\ \A k \in 0 .. cam[n].next - 1 :
           b.slot[k].pkt = [src |-> n, id |-> cam[n].id, count |-> k + 1]
  BY <1>0, ReadInPlace
<1>9. LastPacket(n)
  <2>1. ~TooLarge(n)
    BY <1>0, Fits
  <2>2. ~NotStarted(n) /\ ~NextPacket(n) /\ ~StrayPacket(n)
    BY <1>0, <1>8 DEF NotStarted, NextPacket, StrayPacket
  <2> QED
    BY <1>6, <1>7, <2>1, <2>2 DEF RootReads
<1>10. out' = [k \in 1 .. cam[n].max |-> b.slot[k - 1]]
  BY <1>9 DEF LastPacket, b
<1> HIDE DEF b
<1>11. Len(out') = cam[n].max
  BY <1>0, <1>10
<1>12. \A k \in 1 .. cam[n].max :
         out'[k].pkt = [src |-> n, id |-> cam[n].id, count |-> k]
  <2> TAKE k \in 1 .. cam[n].max
  <2>1. k - 1 \in 0 .. cam[n].next - 1 /\ (k - 1) + 1 = k
    BY <1>0
  <2>2. b.slot[k - 1].pkt = [src |-> n, id |-> cam[n].id, count |-> (k - 1) + 1]
    BY <1>8, <2>1
  <2> QED
    BY <1>10, <2>1, <2>2
<1>13. out'[1].addr = n
  BY <1>0, <1>8, <1>10
<1> QED
  BY <1>11, <1>12, <1>13 DEF Relayed, IsPhoto

LEMMA PhotoInvariant == PhotoSpec => [](PhotoTypeOK /\ Collected)
<1>1. PhotoInit => PhotoTypeOK /\ Collected
  <2> SUFFICES ASSUME PhotoInit, NEW n \in Node
               PROVE  PhotoTypeOK /\ ~Undisturbed(n)
    BY PhotoTypeInit DEF Collected
  <2>1. cam[n].next = 0
    BY IdleType DEF PhotoInit
  <2> QED
    BY <2>1, PhotoTypeInit DEF Undisturbed
<1>2. PhotoTypeOK /\ Collected /\ [PhotoNext]_photoVars => (PhotoTypeOK /\ Collected)'
  BY PhotoTypeStep, CollectedStep
<1> QED
  BY <1>1, <1>2, PTL DEF PhotoSpec

(***************************************************************************)
(* Whatever photos, losses, pings and other messages came before, and      *)
(* whatever devices there are, a photo whose first packet is read to the   *)
(* first slot and that is then not disturbed is sent to the server whole,  *)
(* in order and under its device's address (PhotoRecovered).               *)
(***************************************************************************)
THEOREM PhotoAlwaysRecovered == PhotoSpec => PhotoRecovered
<1>1. PhotoTypeOK /\ Collected /\ [PhotoNext]_photoVars =>
        [\A n \in Node :
           Arrives(n) /\ ~cam[n].hit /\ ~Misplaced(n) => Relayed(n)]_photoVars
  BY RecoveredStep
<1> QED
  BY <1>1, PhotoInvariant, PTL DEF PhotoSpec, PhotoRecovered
----------------------------------------------------------------------------
(* The camera *)

\* What camera_init allocates, and esp_camera_deinit gives back.
Steps ==
  {"i2s_intr", "dma_buf", "dma_desc", "dma_bufs", "fb", "data_ready", "frame_ready",
   "fb_in", "fb_out", "dma_filter_task", "isr_handler"}

LEMMA AllocationsKnown == \A k \in DOMAIN Allocations : Allocations[k] \in Steps
<1> DEFINE first == <<"i2s_intr", "dma_buf", "dma_desc", "dma_bufs", "fb", "data_ready">>
           queue == IF config.fbCount = 1 THEN <<"frame_ready">> ELSE <<"fb_in", "fb_out">>
           last  == <<"dma_filter_task", "isr_handler">>
<1>1. first \in Seq(Steps)
  BY DEF Steps
<1>2. queue \in Seq(Steps)
  <2>1. <<"frame_ready">> \in Seq(Steps) /\ <<"fb_in", "fb_out">> \in Seq(Steps)
    BY DEF Steps
  <2> QED
    BY <2>1
<1>3. last \in Seq(Steps)
  BY DEF Steps
<1> HIDE DEF first, queue, last
<1>4. (first \o queue) \o last \in Seq(Steps)
  BY <1>1, <1>2, <1>3
<1>5. Allocations = (first \o queue) \o last
  BY DEF Allocations, first, queue, last
<1> QED
  BY <1>4, <1>5

\* Whatever was taken up to the step that fails, only the bus driver is left.
LEMMA DeinitLeaves ==
  /\ \A fails : Deinit({"state", "clock", "sccb"} \cup Allocated(fails)) = {"sccb"}
  /\ Deinit({"state", "clock", "sccb"}) = {"sccb"}
<1>1. ASSUME NEW fails
      PROVE  Allocated(fails) \subseteq Steps
  BY AllocationsKnown DEF Allocated, Steps
<1>2. ASSUME NEW A \in SUBSET Steps
      PROVE  Deinit({"state", "clock", "sccb"} \cup A) = {"sccb"}
  BY DEF Deinit, Steps
<1>3. Deinit({"state", "clock", "sccb"}) = {"sccb"}
  BY DEF Deinit
<1> QED
  BY <1>1, <1>2, <1>3

(***************************************************************************)
(* At whatever step esp_camera_init fails, for every camera and every      *)
(* number of frame buffers, it gives everything back but the bus driver    *)
(* (NothingLeft).                                                          *)
(***************************************************************************)
THEOREM CameraGivenBack == Spec => []NothingLeft
<1>1. Init => NothingLeft
  BY DEF Init, NothingLeft
<1>2. NothingLeft /\ [Next]_vars => NothingLeft'
  <2> SUFFICES ASSUME NothingLeft, [Next]_vars
               PROVE  NothingLeft'
    OBVIOUS
  <2>1. CASE ProbeFails
    BY <2>1 DEF ProbeFails, NothingLeft
  <2>2. CASE CameraInit
    <3>1. \/ phase' = "ready"
          \/ \E fails : held' = Deinit({"state", "clock", "sccb"} \cup Allocated(fails))
          \/ held' = Deinit({"state", "clock", "sccb"})
      BY <2>2 DEF CameraInit
    <3> QED
      BY <3>1, DeinitLeaves DEF NothingLeft
  <2>3. CASE Reboot
    BY <2>3 DEF Reboot, NothingLeft
  <2>4. CASE Command
    BY <2>4 DEF Command, NothingLeft
  <2>5. CASE Line
    BY <2>5 DEF Line, NothingLeft
  <2>6. CASE UNCHANGED vars
    BY <2>6 DEF vars, NothingLeft
  <2> QED
    BY <2>1, <2>2, <2>3, <2>4, <2>5, <2>6 DEF Next
<1> QED
  BY <1>1, <1>2, PTL DEF Spec

----------------------------------------------------------------------------
(***************************************************************************)
(* A line through the DMA buffers.                                         *)
(***************************************************************************)
Widths == {160, 128, 176, 240, 320, 400, 640, 800, 1024, 1280, 1600, 2048}

LEMMA Dimensions == config \in Configs => Width \in Widths /\ Height \in Nat
<1> SUFFICES ASSUME config \in Configs
             PROVE  Width \in Widths /\ Height \in Nat
  OBVIOUS
<1> DEFINE i == config.framesize + 1
<1>1. i \in {1, 2, 3, 4, 5, 6, 7, 8, 9, 10, 11, 12}
  BY SetupAssumption DEF INVALID
<1>2. Width = Resolution[i][1] /\ Height = Resolution[i][2]
  BY DEF Width, Height, WidthOf, HeightOf
<1> HIDE DEF i
<1>3. \A j \in {1, 2, 3, 4, 5, 6, 7, 8, 9, 10, 11, 12} :
        Resolution[j][1] \in Widths /\ Resolution[j][2] \in Nat
  BY DEF Resolution, Widths
<1> QED
  BY <1>1, <1>2, <1>3

\* line_size is halved until it is less than 4096.
LEMMA Halved ==
  ASSUME LineSize \in Nat, LineSize < 32768
  PROVE  DmaPerLine = IF LineSize < 4096 THEN 1 ELSE IF LineSize < 8192 THEN 2
                      ELSE IF LineSize < 16384 THEN 4 ELSE 8
<1> DEFINE L == LineSize
           P(n) == L \div n < 4096 /\ (n = 1 \/ L \div (n \div 2) >= 4096)
           d == IF L < 4096 THEN 1 ELSE IF L < 8192 THEN 2 ELSE IF L < 16384 THEN 4 ELSE 8
<1>1. DmaPerLine = CHOOSE n \in {1, 2, 4, 8, 16} : P(n)
  BY DEF DmaPerLine
<1> HIDE DEF L
<1>2. 1 \div 2 = 0 /\ 2 \div 2 = 1 /\ 4 \div 2 = 2 /\ 8 \div 2 = 4 /\ 16 \div 2 = 8
  OBVIOUS
<1>3. L \in Nat /\ L < 32768
  BY DEF L
<1>4. d \in {1, 2, 4, 8, 16} /\ P(d)
  BY <1>2, <1>3
<1>5. \A n \in {1, 2, 4, 8, 16} : P(n) => n = d
  <2>1. P(1) => d = 1
    BY <1>2, <1>3
  <2>2. P(2) => d = 2
    BY <1>2, <1>3
  <2>3. P(4) => d = 4
    BY <1>2, <1>3
  <2>4. P(8) => d = 8
    BY <1>2, <1>3
  <2>5. ~P(16)
    BY <1>2, <1>3
  <2> QED
    BY <2>1, <2>2, <2>3, <2>4, <2>5
<1> HIDE DEF P, d
<1>6. (CHOOSE n \in {1, 2, 4, 8, 16} : P(n)) = d
  BY <1>4, <1>5
<1> QED
  BY <1>1, <1>6 DEF d, L

\* The pixels of a DMA buffer are a multiple of 8.
LEMMA Divided ==
  ASSUME config \in Configs
  PROVE  \E q \in Nat :
           /\ DmaPerLine \in {1, 2, 4, 8} /\ Width = DmaPerLine * (8 * q)
           /\ Elements = CASE InBytes = 2 /\ BytesPerElement = 1 -> 16 * q
                           [] InBytes = BytesPerElement -> 8 * q
                           [] OTHER -> 4 * q
<1>1. Width \in Widths
  BY Dimensions
<1>2. InBytes \in {1, 2} /\ BytesPerElement \in {1, 2}
  BY DEF InBytes, BytesPerElement
<1> DEFINE g == InBytes * (4 \div BytesPerElement)
<1>3. g = IF InBytes = 2 /\ BytesPerElement = 1 THEN 8
          ELSE IF InBytes = BytesPerElement THEN 4 ELSE 2
  BY <1>2
<1>4. LineSize = Width * g
  BY <1>1, <1>2 DEF LineSize, Widths
<1> HIDE DEF g
<1>5. g \in {2, 4, 8}
  BY <1>3
<1>6. LineSize \in Nat /\ LineSize < 32768
  BY <1>1, <1>4, <1>5 DEF Widths
<1> DEFINE d == DmaPerLine
<1>7. d = IF LineSize < 4096 THEN 1 ELSE IF LineSize < 8192 THEN 2
          ELSE IF LineSize < 16384 THEN 4 ELSE 8
  BY <1>6, Halved
<1>8. Elements = (LineSize \div d) \div 4
  BY DEF Elements
<1> HIDE DEF d
<1>9. \E q \in Nat : Width = d * (8 * q) /\ Elements = (g * (8 * q)) \div 4
  <2>1. CASE g = 2
    <3>1. CASE Width < 2048
      <4>1. d = 1 /\ Elements = (Width * 2) \div 4
        BY <1>1, <1>4, <1>6, <1>7, <1>8, <2>1, <3>1 DEF Widths
      <4>2. Width = 8 * (Width \div 8)
        BY <1>1 DEF Widths
      <4> QED
        BY <1>1, <2>1, <4>1, <4>2 DEF Widths
    <3>2. CASE ~(Width < 2048)
      <4>1. Width = 2048 /\ d = 2 /\ Elements = 512
        BY <1>1, <1>4, <1>7, <1>8, <2>1, <3>2 DEF Widths
      <4> QED
        BY <2>1, <4>1
    <3> QED
      BY <3>1, <3>2
  <2>2. CASE g = 4
    <3>1. CASE Width < 1024
      <4>1. d = 1 /\ Elements = Width
        BY <1>1, <1>4, <1>6, <1>7, <1>8, <2>2, <3>1 DEF Widths
      <4>2. Width = 8 * (Width \div 8)
        BY <1>1 DEF Widths
      <4> QED
        BY <1>1, <2>2, <4>1, <4>2 DEF Widths
    <3>2. CASE Width \in {1024, 1280, 1600}
      <4>1. d = 2 /\ Width = 2 * Elements /\ Elements \in {512, 640, 800}
        BY <1>4, <1>7, <1>8, <2>2, <3>2
      <4>2. Elements = 8 * (Elements \div 8)
        BY <4>1
      <4> QED
        BY <2>2, <4>1, <4>2
    <3>3. CASE Width = 2048
      <4>1. d = 4 /\ Elements = 512
        BY <1>4, <1>7, <1>8, <2>2, <3>3
      <4> QED
        BY <2>2, <3>3, <4>1
    <3> QED
      BY <1>1, <3>1, <3>2, <3>3 DEF Widths
  <2>3. CASE g = 8
    <3>1. CASE Width < 512
      <4>1. d = 1 /\ Elements = 2 * Width
        BY <1>1, <1>4, <1>6, <1>7, <1>8, <2>3, <3>1 DEF Widths
      <4>2. Width = 8 * (Width \div 8)
        BY <1>1 DEF Widths
      <4> QED
        BY <1>1, <2>3, <4>1, <4>2 DEF Widths
    <3>2. CASE Width \in {640, 800}
      <4>1. d = 2 /\ Elements = Width
        BY <1>4, <1>7, <1>8, <2>3, <3>2
      <4>2. Width = 16 * (Width \div 16)
        BY <3>2
      <4> QED
        BY <2>3, <3>2, <4>1, <4>2
    <3>3. CASE Width \in {1024, 1280, 1600}
      <4>1. d = 4 /\ 2 * Elements = Width /\ Elements \in {512, 640, 800}
        BY <1>4, <1>7, <1>8, <2>3, <3>3
      <4>2. Width = 32 * (Width \div 32)
        BY <3>3
      <4> DEFINE q == Width \div 32
      <4>3. q \in Nat /\ Elements = 16 * q /\ Width = 4 * (8 * q)
        BY <3>3, <4>1, <4>2
      <4> HIDE DEF q
      <4>4. (g * (8 * q)) \div 4 = 16 * q
        BY <2>3, <4>3
      <4> QED
        BY <4>1, <4>3, <4>4
    <3>4. CASE Width = 2048
      <4>1. d = 8 /\ Elements = 512
        BY <1>4, <1>7, <1>8, <2>3, <3>4
      <4> QED
        BY <2>3, <3>4, <4>1
    <3> QED
      BY <1>1, <3>1, <3>2, <3>3, <3>4 DEF Widths
  <2> QED
    BY <1>5, <2>1, <2>2, <2>3
<1>10. d \in {1, 2, 4, 8}
  BY <1>7
<1>11. PICK q \in Nat : Width = d * (8 * q) /\ Elements = (g * (8 * q)) \div 4
  BY <1>9
<1>12. /\ g = 8 => Elements = 16 * q
       /\ g = 4 => Elements = 8 * q
       /\ g = 2 => Elements = 4 * q
  BY <1>11
<1> QED
  BY <1>2, <1>3, <1>10, <1>11, <1>12 DEF d
\* What camera_init accepts.
Accepted ==
  /\ config \in Configs /\ Supported /\ ~JpegRefused
  /\ config.model \in {"ov2640", "ov3660", "ov7725"}

Row(b) == [k \in 0 .. BufLen - 1 |-> Expected((b - 1) * BufLen + k)]

\* The number of bytes a filter writes in a turn of its loop.
LEMMA TurnSizes ==
  /\ \A n \in {4, 8, 12} : Cardinality(0 .. n - 1) = n
  /\ Cardinality(0 .. 3) = 4 /\ Cardinality(0 .. 7) = 8 /\ Cardinality(0 .. 11) = 12
<1>1. \A n \in {4, 8, 12} : Cardinality(0 .. n - 1) = n
  BY FS_Interval
<1> QED
  BY <1>1

\* The bytes of the sensor that a byte is made from whose samples are e, counted
\* from an element of a DMA buffer.
Made(buffer, element, samples) ==
  { SensorByte(buffer, <<element + e[1], e[2]>>) : e \in samples }

LEMMA MadeOf ==
  ASSUME NEW buffer, NEW element, NEW a, NEW b, NEW c, NEW d
  PROVE  Made(buffer, element, {<<a, b>>, <<c, d>>}) =
           { SensorByte(buffer, <<element + a, b>>), SensorByte(buffer, <<element + c, d>>) }
<1> DEFINE F(e) == SensorByte(buffer, <<element + e[1], e[2]>>)
<1>1. Made(buffer, element, {<<a, b>>, <<c, d>>}) = { F(e) : e \in {<<a, b>>, <<c, d>>} }
  BY DEF Made
<1>2. F(<<a, b>>) = SensorByte(buffer, <<element + a, b>>)
      /\ F(<<c, d>>) = SensorByte(buffer, <<element + c, d>>)
  BY DEF SensorByte
<1> HIDE DEF F
<1> QED
  BY <1>1, <1>2

\* The same with the bytes of the frame buffer.
LEMMA Measured ==
  ASSUME config \in Configs
  PROVE  \E q \in Nat :
           /\ BufLen = 8 * q * FbBytes /\ FbBytes \in {1, 2, 3}
           /\ Width * FbBytes = DmaPerLine * BufLen /\ DmaPerLine \in {1, 2, 4, 8}
           /\ Elements = CASE InBytes = 2 /\ BytesPerElement = 1 -> 16 * q
                           [] InBytes = BytesPerElement -> 8 * q
                           [] OTHER -> 4 * q
<1>1. PICK q \in Nat :
           /\ DmaPerLine \in {1, 2, 4, 8} /\ Width = DmaPerLine * (8 * q)
           /\ Elements = CASE InBytes = 2 /\ BytesPerElement = 1 -> 16 * q
                           [] InBytes = BytesPerElement -> 8 * q
                           [] OTHER -> 4 * q
  BY Divided
<1>2. FbBytes \in {1, 2, 3}
  BY DEF FbBytes
<1> DEFINE d == DmaPerLine
           x == 8 * q * FbBytes
<1>3. x \in Nat /\ Width * FbBytes = d * x
  <2>1. CASE FbBytes = 1
    BY <1>1, <2>1
  <2>2. CASE FbBytes = 2
    BY <1>1, <2>2
  <2>3. CASE FbBytes = 3
    BY <1>1, <2>3
  <2> QED
    BY <1>2, <2>1, <2>2, <2>3
<1>4. d \in {1, 2, 4, 8} /\ BufLen = (Width * FbBytes) \div d
  BY <1>1 DEF BufLen
<1> HIDE DEF d, x
<1>5. BufLen = x
  BY <1>3, <1>4
<1> QED
  BY <1>1, <1>2, <1>3, <1>5 DEF d, x

\* A DMA buffer through a filter that reads r elements in a turn and writes n
\* bytes, made of the samples w.
LEMMA RowOf ==
  ASSUME Elements \in Nat, BufLen \in Nat, NEW buffer \in Nat,
         NEW r \in {4, 8}, NEW n \in {4, 8, 12}, NEW w,
         Filter(FilterName) = [reads |-> r, writes |-> w], DOMAIN w = 0 .. n - 1,
         (Elements \div r) * n = BufLen,
         \A k \in 0 .. BufLen - 1 :
           Made(buffer, (k \div n) * r, w[k % n]) = Expected(buffer * BufLen + k)
  PROVE  Filtered(buffer) = Row(buffer + 1)
<1> DEFINE f == Filter(FilterName)
           c == Cardinality(DOMAIN f.writes)
           bytes(k) == { SensorByte(buffer, <<(k \div c) * f.reads + e[1], e[2]>>) :
                           e \in f.writes[k % c] }
<1>1. f.reads = r /\ f.writes = w
  OBVIOUS
<1>2. c = n
  <2>1. DOMAIN f.writes = 0 .. n - 1
    BY <1>1
  <2> QED
    BY <2>1, TurnSizes
<1>3. Filtered(buffer) = [k \in 0 .. (Elements \div f.reads) * c - 1 |-> bytes(k)]
  BY DEF Filtered
<1>4. \A k : bytes(k) = Made(buffer, (k \div c) * f.reads, f.writes[k % c])
  BY DEF Made
<1> HIDE DEF f, c, bytes
<1>5. Filtered(buffer) = [k \in 0 .. BufLen - 1 |-> Expected(buffer * BufLen + k)]
  BY <1>1, <1>2, <1>3, <1>4
<1>6. Row(buffer + 1) = [k \in 0 .. BufLen - 1 |-> Expected(buffer * BufLen + k)]
  BY DEF Row
<1> QED
  BY <1>5, <1>6

\* dma_filter_jpeg
LEMMA JpegRow ==
  ASSUME FilterName = "jpeg", BytesPerElement = 1, NEW q \in Nat,
         Elements = 16 * q, BufLen = 16 * q, NEW buffer \in Nat,
         \A x \in Nat : Expected(x) = {x}
  PROVE  Filtered(buffer) = Row(buffer + 1)
<1> DEFINE w == [k \in 0 .. 3 |-> {<<k, 1>>}]
           z == buffer * q
<1>1. Filter(FilterName) = [reads |-> 4, writes |-> w] /\ DOMAIN w = 0 .. 4 - 1
  <2>1. Filter("jpeg") = [reads |-> 4, writes |-> w]
    BY Zenon DEF Filter
  <2>2. DOMAIN w = 0 .. 4 - 1
    OBVIOUS
  <2> HIDE DEF w
  <2> QED
    BY <2>1, <2>2
<1>2. z \in Nat /\ buffer * Elements = 16 * z /\ buffer * BufLen = 16 * z
  OBVIOUS
<1>3. ASSUME NEW k \in 0 .. BufLen - 1
      PROVE  Made(buffer, (k \div 4) * 4, w[k % 4]) = Expected(buffer * BufLen + k)
  <2> DEFINE t == (k \div 4) * 4
             j == k % 4
             a == j
             b == 1
  <2>1. k \in Nat
    OBVIOUS
  <2>2. j \in 0 .. 3 /\ t \in Nat /\ a \in Nat /\ b \in Nat /\ t + a = k /\ b = 1
    BY <2>1
  <2>3. w[j] = {<<a, b>>, <<a, b>>}
    BY <2>2
  <2> HIDE DEF t, j, a, b, w, z
  <2>4. Made(buffer, t, w[j]) = {SensorByte(buffer, <<t + a, b>>), SensorByte(buffer, <<t + a, b>>)}
    BY <2>3, MadeOf
  <2>5. SensorByte(buffer, <<t + a, b>>) = buffer * BufLen + k
    BY <1>2, <2>1, <2>2 DEF SensorByte
  <2>6. Expected(buffer * BufLen + k) = {buffer * BufLen + k}
    BY <1>2, <2>1
  <2>7. Made(buffer, t, w[j]) = Expected(buffer * BufLen + k)
    BY <1>2, <2>1, <2>4, <2>5, <2>6
  <2> QED
    BY <2>7 DEF t, j
<1>4. (Elements \div 4) * 4 = BufLen
  OBVIOUS
<1>5. Elements \in Nat /\ BufLen \in Nat
  OBVIOUS
<1> HIDE DEF w
<1> QED
  BY <1>1, <1>3, <1>4, <1>5, RowOf

\* dma_filter_grayscale
LEMMA GrayRow ==
  ASSUME FilterName = "grayscale", BytesPerElement = 2, NEW q \in Nat,
         Elements = 8 * q, BufLen = 8 * q, NEW buffer \in Nat,
         \A x \in Nat : Expected(x) = {2 * x}
  PROVE  Filtered(buffer) = Row(buffer + 1)
<1> DEFINE w == [k \in 0 .. 3 |-> {<<k, 1>>}]
           z == buffer * q
<1>1. Filter(FilterName) = [reads |-> 4, writes |-> w] /\ DOMAIN w = 0 .. 4 - 1
  <2>1. Filter("grayscale") = [reads |-> 4, writes |-> w]
    BY Zenon DEF Filter
  <2>2. DOMAIN w = 0 .. 4 - 1
    OBVIOUS
  <2> HIDE DEF w
  <2> QED
    BY <2>1, <2>2
<1>2. z \in Nat /\ buffer * Elements = 8 * z /\ buffer * BufLen = 8 * z
  OBVIOUS
<1>3. ASSUME NEW k \in 0 .. BufLen - 1
      PROVE  Made(buffer, (k \div 4) * 4, w[k % 4]) = Expected(buffer * BufLen + k)
  <2> DEFINE t == (k \div 4) * 4
             j == k % 4
             a == j
             b == 1
  <2>1. k \in Nat
    OBVIOUS
  <2>2. j \in 0 .. 3 /\ t \in Nat /\ a \in Nat /\ b \in Nat /\ t + a = k /\ b = 1
    BY <2>1
  <2>3. w[j] = {<<a, b>>, <<a, b>>}
    BY <2>2
  <2> HIDE DEF t, j, a, b, w, z
  <2>4. Made(buffer, t, w[j]) = {SensorByte(buffer, <<t + a, b>>), SensorByte(buffer, <<t + a, b>>)}
    BY <2>3, MadeOf
  <2>5. SensorByte(buffer, <<t + a, b>>) = 2 * (buffer * BufLen + k)
    BY <1>2, <2>1, <2>2 DEF SensorByte
  <2>6. Expected(buffer * BufLen + k) = {2 * (buffer * BufLen + k)}
    BY <1>2, <2>1
  <2>7. Made(buffer, t, w[j]) = Expected(buffer * BufLen + k)
    BY <1>2, <2>1, <2>4, <2>5, <2>6
  <2> QED
    BY <2>7 DEF t, j
<1>4. (Elements \div 4) * 4 = BufLen
  OBVIOUS
<1>5. Elements \in Nat /\ BufLen \in Nat
  OBVIOUS
<1> HIDE DEF w
<1> QED
  BY <1>1, <1>3, <1>4, <1>5, RowOf

\* dma_filter_grayscale_highspeed
LEMMA GrayHighRow ==
  ASSUME FilterName = "grayscale_highspeed", BytesPerElement = 1, NEW q \in Nat,
         Elements = 16 * q, BufLen = 8 * q, NEW buffer \in Nat,
         \A x \in Nat : Expected(x) = {2 * x}
  PROVE  Filtered(buffer) = Row(buffer + 1)
<1> DEFINE w == [k \in 0 .. 3 |-> {<<2 * k, 1>>}]
           z == buffer * q
<1>1. Filter(FilterName) = [reads |-> 8, writes |-> w] /\ DOMAIN w = 0 .. 4 - 1
  <2>1. Filter("grayscale_highspeed") = [reads |-> 8, writes |-> w]
    BY Zenon DEF Filter
  <2>2. DOMAIN w = 0 .. 4 - 1
    OBVIOUS
  <2> HIDE DEF w
  <2> QED
    BY <2>1, <2>2
<1>2. z \in Nat /\ buffer * Elements = 16 * z /\ buffer * BufLen = 8 * z
  OBVIOUS
<1>3. ASSUME NEW k \in 0 .. BufLen - 1
      PROVE  Made(buffer, (k \div 4) * 8, w[k % 4]) = Expected(buffer * BufLen + k)
  <2> DEFINE t == (k \div 4) * 8
             j == k % 4
             a == 2 * j
             b == 1
  <2>1. k \in Nat
    OBVIOUS
  <2>2. j \in 0 .. 3 /\ t \in Nat /\ a \in Nat /\ b \in Nat /\ t + a = 2 * k /\ b = 1
    BY <2>1
  <2>3. w[j] = {<<a, b>>, <<a, b>>}
    BY <2>2
  <2> HIDE DEF t, j, a, b, w, z
  <2>4. Made(buffer, t, w[j]) = {SensorByte(buffer, <<t + a, b>>), SensorByte(buffer, <<t + a, b>>)}
    BY <2>3, MadeOf
  <2>5. SensorByte(buffer, <<t + a, b>>) = 2 * (buffer * BufLen + k)
    BY <1>2, <2>1, <2>2 DEF SensorByte
  <2>6. Expected(buffer * BufLen + k) = {2 * (buffer * BufLen + k)}
    BY <1>2, <2>1
  <2>7. Made(buffer, t, w[j]) = Expected(buffer * BufLen + k)
    BY <1>2, <2>1, <2>4, <2>5, <2>6
  <2> QED
    BY <2>7 DEF t, j
<1>4. (Elements \div 8) * 4 = BufLen
  OBVIOUS
<1>5. Elements \in Nat /\ BufLen \in Nat
  OBVIOUS
<1> HIDE DEF w
<1> QED
  BY <1>1, <1>3, <1>4, <1>5, RowOf

\* dma_filter_yuyv
LEMMA YuyvRow ==
  ASSUME FilterName = "yuyv", BytesPerElement = 2, NEW q \in Nat,
         Elements = 4 * q, BufLen = 8 * q, NEW buffer \in Nat,
         \A x \in Nat : Expected(x) = {x}
  PROVE  Filtered(buffer) = Row(buffer + 1)
<1> DEFINE w == [k \in 0 .. 7 |-> {<<k \div 2, 1 + (k % 2)>>}]
           z == buffer * q
<1>1. Filter(FilterName) = [reads |-> 4, writes |-> w] /\ DOMAIN w = 0 .. 8 - 1
  <2>1. Filter("yuyv") = [reads |-> 4, writes |-> w]
    BY Zenon DEF Filter
  <2>2. DOMAIN w = 0 .. 8 - 1
    OBVIOUS
  <2> HIDE DEF w
  <2> QED
    BY <2>1, <2>2
<1>2. z \in Nat /\ buffer * Elements = 4 * z /\ buffer * BufLen = 8 * z
  OBVIOUS
<1>3. ASSUME NEW k \in 0 .. BufLen - 1
      PROVE  Made(buffer, (k \div 8) * 4, w[k % 8]) = Expected(buffer * BufLen + k)
  <2> DEFINE t == (k \div 8) * 4
             j == k % 8
             a == j \div 2
             b == 1 + (j % 2)
  <2>1. k \in Nat
    OBVIOUS
  <2>2. j \in 0 .. 7 /\ t \in Nat /\ a \in Nat /\ b \in Nat /\ 2 * (t + a) + b = k + 1
    BY <2>1
  <2>3. w[j] = {<<a, b>>, <<a, b>>}
    BY <2>2
  <2> HIDE DEF t, j, a, b, w, z
  <2>4. Made(buffer, t, w[j]) = {SensorByte(buffer, <<t + a, b>>), SensorByte(buffer, <<t + a, b>>)}
    BY <2>3, MadeOf
  <2>5. SensorByte(buffer, <<t + a, b>>) = buffer * BufLen + k
    BY <1>2, <2>1, <2>2 DEF SensorByte
  <2>6. Expected(buffer * BufLen + k) = {buffer * BufLen + k}
    BY <1>2, <2>1
  <2>7. Made(buffer, t, w[j]) = Expected(buffer * BufLen + k)
    BY <1>2, <2>1, <2>4, <2>5, <2>6
  <2> QED
    BY <2>7 DEF t, j
<1>4. (Elements \div 4) * 8 = BufLen
  OBVIOUS
<1>5. Elements \in Nat /\ BufLen \in Nat
  OBVIOUS
<1> HIDE DEF w
<1> QED
  BY <1>1, <1>3, <1>4, <1>5, RowOf

\* dma_filter_yuyv_highspeed
LEMMA YuyvHighRow ==
  ASSUME FilterName = "yuyv_highspeed", BytesPerElement = 1, NEW q \in Nat,
         Elements = 8 * q, BufLen = 8 * q, NEW buffer \in Nat,
         \A x \in Nat : Expected(x) = {x}
  PROVE  Filtered(buffer) = Row(buffer + 1)
<1> DEFINE w == [k \in 0 .. 7 |-> {<<k, 1>>}]
           z == buffer * q
<1>1. Filter(FilterName) = [reads |-> 8, writes |-> w] /\ DOMAIN w = 0 .. 8 - 1
  <2>1. Filter("yuyv_highspeed") = [reads |-> 8, writes |-> w]
    BY Zenon DEF Filter
  <2>2. DOMAIN w = 0 .. 8 - 1
    OBVIOUS
  <2> HIDE DEF w
  <2> QED
    BY <2>1, <2>2
<1>2. z \in Nat /\ buffer * Elements = 8 * z /\ buffer * BufLen = 8 * z
  OBVIOUS
<1>3. ASSUME NEW k \in 0 .. BufLen - 1
      PROVE  Made(buffer, (k \div 8) * 8, w[k % 8]) = Expected(buffer * BufLen + k)
  <2> DEFINE t == (k \div 8) * 8
             j == k % 8
             a == j
             b == 1
  <2>1. k \in Nat
    OBVIOUS
  <2>2. j \in 0 .. 7 /\ t \in Nat /\ a \in Nat /\ b \in Nat /\ t + a = k /\ b = 1
    BY <2>1
  <2>3. w[j] = {<<a, b>>, <<a, b>>}
    BY <2>2
  <2> HIDE DEF t, j, a, b, w, z
  <2>4. Made(buffer, t, w[j]) = {SensorByte(buffer, <<t + a, b>>), SensorByte(buffer, <<t + a, b>>)}
    BY <2>3, MadeOf
  <2>5. SensorByte(buffer, <<t + a, b>>) = buffer * BufLen + k
    BY <1>2, <2>1, <2>2 DEF SensorByte
  <2>6. Expected(buffer * BufLen + k) = {buffer * BufLen + k}
    BY <1>2, <2>1
  <2>7. Made(buffer, t, w[j]) = Expected(buffer * BufLen + k)
    BY <1>2, <2>1, <2>4, <2>5, <2>6
  <2> QED
    BY <2>7 DEF t, j
<1>4. (Elements \div 8) * 8 = BufLen
  OBVIOUS
<1>5. Elements \in Nat /\ BufLen \in Nat
  OBVIOUS
<1> HIDE DEF w
<1> QED
  BY <1>1, <1>3, <1>4, <1>5, RowOf

\* dma_filter_rgb888
LEMMA RgbRow ==
  ASSUME FilterName = "rgb888", BytesPerElement = 2, NEW q \in Nat,
         Elements = 8 * q, BufLen = 24 * q, NEW buffer \in Nat,
         config.format = "rgb888", ~Gray
  PROVE  Filtered(buffer) = Row(buffer + 1)
<1> DEFINE w == [k \in 0 .. 11 |-> CASE k % 3 = 0 -> {<<k \div 3, 2>>}
                                     [] k % 3 = 1 -> {<<k \div 3, 1>>} \cup {<<k \div 3, 2>>}
                                     [] OTHER     -> {<<k \div 3, 1>>}]
           z == buffer * q
<1>1. Filter(FilterName) = [reads |-> 4, writes |-> w] /\ DOMAIN w = 0 .. 12 - 1
  <2>1. Filter("rgb888") = [reads |-> 4, writes |-> w]
    BY Zenon DEF Filter
  <2>2. DOMAIN w = 0 .. 12 - 1
    OBVIOUS
  <2> HIDE DEF w
  <2> QED
    BY <2>1, <2>2
<1>2. z \in Nat /\ buffer * Elements = 8 * z /\ buffer * BufLen = 24 * z
  OBVIOUS
<1>3. ASSUME NEW k \in 0 .. BufLen - 1
      PROVE  Made(buffer, (k \div 12) * 4, w[k % 12]) = Expected(buffer * BufLen + k)
  <2> DEFINE t == (k \div 12) * 4
             j == k % 12
             a == j \div 3
             c == j \div 3
             x == buffer * BufLen + k
             p == 2 * (x \div 3)
             m == j % 3
             high == SensorByte(buffer, <<t + a, 1>>)
             low == SensorByte(buffer, <<t + c, 2>>)
  <2>1. k \in Nat
    OBVIOUS
  <2>2. /\ j \in 0 .. 11 /\ t \in Nat /\ a \in Nat /\ c \in Nat
        /\ t + a = k \div 3 /\ c = a /\ m = k % 3 /\ m \in {0, 1, 2}
    BY <2>1
  <2>3. p = 2 * (8 * z + (k \div 3)) /\ x % 3 = m
    BY <1>2, <2>1, <2>2
  <2>4. /\ m = 0 => w[j] = {<<c, 2>>, <<c, 2>>}
        /\ m = 1 => w[j] = {<<a, 1>>, <<c, 2>>}
        /\ m = 2 => w[j] = {<<a, 1>>, <<a, 1>>}
    <3>1. j \in 0 .. 11
      BY <2>2
    <3>2. m = 0 => w[j] = {<<c, 2>>, <<c, 2>>}
      BY <3>1
    <3>3. m = 1 => w[j] = {<<a, 1>>, <<c, 2>>}
      BY <3>1
    <3>4. m = 2 => w[j] = {<<a, 1>>, <<a, 1>>}
      BY <3>1
    <3> QED
      BY <3>2, <3>3, <3>4
  <2>5. /\ m = 0 => Expected(x) = {p + 1}
        /\ m = 1 => Expected(x) = {p, p + 1}
        /\ m = 2 => Expected(x) = {p}
    BY <2>3 DEF Expected
  <2> HIDE DEF t, j, a, c, w, z, x, p, m
  <2>6. high = p /\ low = p + 1
    BY <1>2, <2>1, <2>2, <2>3 DEF SensorByte
  <2>7. /\ m = 0 => Made(buffer, t, w[j]) = {low, low}
        /\ m = 1 => Made(buffer, t, w[j]) = {high, low}
        /\ m = 2 => Made(buffer, t, w[j]) = {high, high}
    <3>1. /\ Made(buffer, t, {<<c, 2>>, <<c, 2>>}) = {low, low}
          /\ Made(buffer, t, {<<a, 1>>, <<c, 2>>}) = {high, low}
          /\ Made(buffer, t, {<<a, 1>>, <<a, 1>>}) = {high, high}
      BY MadeOf DEF low, high
    <3> HIDE DEF low, high
    <3> QED
      BY <2>4, <3>1
  <2> HIDE DEF low, high
  <2>8. Made(buffer, t, w[j]) = Expected(x)
    BY <2>2, <2>5, <2>6, <2>7
  <2> QED
    BY <2>8 DEF t, j, x
<1>4. (Elements \div 4) * 12 = BufLen
  OBVIOUS
<1>5. Elements \in Nat /\ BufLen \in Nat
  OBVIOUS
<1> HIDE DEF w
<1> QED
  BY <1>1, <1>3, <1>4, <1>5, RowOf

\* dma_filter_rgb888_highspeed
LEMMA RgbHighRow ==
  ASSUME FilterName = "rgb888_highspeed", BytesPerElement = 1, NEW q \in Nat,
         Elements = 16 * q, BufLen = 24 * q, NEW buffer \in Nat,
         config.format = "rgb888", ~Gray
  PROVE  Filtered(buffer) = Row(buffer + 1)
<1> DEFINE w == [k \in 0 .. 11 |-> CASE k % 3 = 0 -> {<<2 * (k \div 3) + 1, 1>>}
                                     [] k % 3 = 1 -> {<<2 * (k \div 3), 1>>} \cup {<<2 * (k \div 3) + 1, 1>>}
                                     [] OTHER     -> {<<2 * (k \div 3), 1>>}]
           z == buffer * q
<1>1. Filter(FilterName) = [reads |-> 8, writes |-> w] /\ DOMAIN w = 0 .. 12 - 1
  <2>1. Filter("rgb888_highspeed") = [reads |-> 8, writes |-> w]
    BY Zenon DEF Filter
  <2>2. DOMAIN w = 0 .. 12 - 1
    OBVIOUS
  <2> HIDE DEF w
  <2> QED
    BY <2>1, <2>2
<1>2. z \in Nat /\ buffer * Elements = 16 * z /\ buffer * BufLen = 24 * z
  OBVIOUS
<1>3. ASSUME NEW k \in 0 .. BufLen - 1
      PROVE  Made(buffer, (k \div 12) * 8, w[k % 12]) = Expected(buffer * BufLen + k)
  <2> DEFINE t == (k \div 12) * 8
             j == k % 12
             a == 2 * (j \div 3)
             c == 2 * (j \div 3) + 1
             x == buffer * BufLen + k
             p == 2 * (x \div 3)
             m == j % 3
             high == SensorByte(buffer, <<t + a, 1>>)
             low == SensorByte(buffer, <<t + c, 1>>)
  <2>1. k \in Nat
    OBVIOUS
  <2>2. /\ j \in 0 .. 11 /\ t \in Nat /\ a \in Nat /\ c \in Nat
        /\ t + a = 2 * (k \div 3) /\ c = a + 1 /\ m = k % 3 /\ m \in {0, 1, 2}
    <3>1. j \in 0 .. 11 /\ k \div 12 \in Nat /\ k = 12 * (k \div 12) + j
      BY <2>1
    <3>2. j \div 3 \in Nat /\ k \div 3 = 4 * (k \div 12) + (j \div 3)
      BY <2>1, <3>1
    <3>3. m = k % 3 /\ m \in {0, 1, 2}
      BY <2>1
    <3>4. a \in Nat /\ c \in Nat /\ c = a + 1 /\ t + a = 2 * (k \div 3) /\ t \in Nat
      BY <3>1, <3>2
    <3> QED
      BY <3>1, <3>3, <3>4
  <2>3. p = 2 * (8 * z + (k \div 3)) /\ x % 3 = m
    BY <1>2, <2>1, <2>2
  <2>4. /\ m = 0 => w[j] = {<<c, 1>>, <<c, 1>>}
        /\ m = 1 => w[j] = {<<a, 1>>, <<c, 1>>}
        /\ m = 2 => w[j] = {<<a, 1>>, <<a, 1>>}
    <3>1. j \in 0 .. 11
      BY <2>2
    <3>2. m = 0 => w[j] = {<<c, 1>>, <<c, 1>>}
      BY <3>1
    <3>3. m = 1 => w[j] = {<<a, 1>>, <<c, 1>>}
      BY <3>1
    <3>4. m = 2 => w[j] = {<<a, 1>>, <<a, 1>>}
      BY <3>1
    <3> QED
      BY <3>2, <3>3, <3>4
  <2>5. /\ m = 0 => Expected(x) = {p + 1}
        /\ m = 1 => Expected(x) = {p, p + 1}
        /\ m = 2 => Expected(x) = {p}
    BY <2>3 DEF Expected
  <2> HIDE DEF t, j, a, c, w, z, x, p, m
  <2>6. high = p /\ low = p + 1
    BY <1>2, <2>1, <2>2, <2>3 DEF SensorByte
  <2>7. /\ m = 0 => Made(buffer, t, w[j]) = {low, low}
        /\ m = 1 => Made(buffer, t, w[j]) = {high, low}
        /\ m = 2 => Made(buffer, t, w[j]) = {high, high}
    <3>1. /\ Made(buffer, t, {<<c, 1>>, <<c, 1>>}) = {low, low}
          /\ Made(buffer, t, {<<a, 1>>, <<c, 1>>}) = {high, low}
          /\ Made(buffer, t, {<<a, 1>>, <<a, 1>>}) = {high, high}
      BY MadeOf DEF low, high
    <3> HIDE DEF low, high
    <3> QED
      BY <2>4, <3>1
  <2> HIDE DEF low, high
  <2>8. Made(buffer, t, w[j]) = Expected(x)
    BY <2>2, <2>5, <2>6, <2>7
  <2> QED
    BY <2>8 DEF t, j, x
<1>4. (Elements \div 8) * 12 = BufLen
  OBVIOUS
<1>5. Elements \in Nat /\ BufLen \in Nat
  OBVIOUS
<1> HIDE DEF w
<1> QED
  BY <1>1, <1>3, <1>4, <1>5, RowOf

\* Every DMA buffer is made into the bytes of the line that are its own.
LEMMA RowFilled ==
  ASSUME Accepted, NEW buffer \in Nat
  PROVE  Filtered(buffer) = Row(buffer + 1)
<1> DEFINE slow == BytesPerElement = 2
<1>1. PICK q \in Nat :
           /\ BufLen = 8 * q * FbBytes
           /\ Elements = CASE InBytes = 2 /\ BytesPerElement = 1 -> 16 * q
                           [] InBytes = BytesPerElement -> 8 * q
                           [] OTHER -> 4 * q
  BY Measured DEF Accepted
<1>2. /\ config.model \in {"ov2640", "ov3660", "ov7725"}
      /\ \/ config.format \in {"grayscale", "yuv422", "rgb565", "rgb888"}
         \/ Jpeg /\ config.model # "ov7725"
  BY DEF Accepted, Supported, JpegRefused
<1>3. CASE Jpeg
  <2>1. FilterName = "jpeg" /\ InBytes = 2 /\ BytesPerElement = 1 /\ FbBytes = 2
    BY <1>3 DEF FilterName, InBytes, BytesPerElement, FbBytes, Jpeg, Gray
  <2>2. BufLen = 16 * q /\ Elements = 16 * q
    BY <1>1, <2>1
  <2>3. \A x \in Nat : Expected(x) = {x}
    BY <1>3 DEF Expected, Jpeg, Gray
  <2> QED
    BY <2>1, <2>2, <2>3, JpegRow
<1>4. CASE Gray /\ config.model = "ov3660"
  <2>1. InBytes = 1 /\ FbBytes = 1 /\ \A x \in Nat : Expected(x) = {x}
    BY <1>4 DEF InBytes, FbBytes, Expected, Gray
  <2>2. BufLen = 8 * q
    BY <1>1, <2>1
  <2>3. CASE config.fast
    <3>1. FilterName = "yuyv_highspeed" /\ BytesPerElement = 1
      BY <1>4, <2>3 DEF FilterName, BytesPerElement, Jpeg, Gray
    <3>2. Elements = 8 * q
      BY <1>1, <2>1, <3>1
    <3> QED
      BY <2>1, <2>2, <3>1, <3>2, YuyvHighRow
  <2>4. CASE ~config.fast
    <3>1. FilterName = "yuyv" /\ BytesPerElement = 2
      BY <1>4, <2>4 DEF FilterName, BytesPerElement, Jpeg, Gray
    <3>2. Elements = 4 * q
      BY <1>1, <2>1, <3>1
    <3> QED
      BY <2>1, <2>2, <3>1, <3>2, YuyvRow
  <2> QED
    BY <2>3, <2>4
<1>5. CASE Gray /\ config.model # "ov3660"
  <2>1. InBytes = 2 /\ FbBytes = 1 /\ \A x \in Nat : Expected(x) = {2 * x}
    BY <1>5 DEF InBytes, FbBytes, Expected, Gray
  <2>2. BufLen = 8 * q
    BY <1>1, <2>1
  <2>3. CASE config.fast /\ config.model # "ov7725"
    <3>1. FilterName = "grayscale_highspeed" /\ BytesPerElement = 1
      BY <1>5, <2>3 DEF FilterName, BytesPerElement, Jpeg, Gray
    <3>2. Elements = 16 * q
      BY <1>1, <2>1, <3>1
    <3> QED
      BY <2>1, <2>2, <3>1, <3>2, GrayHighRow
  <2>4. CASE ~(config.fast /\ config.model # "ov7725")
    <3>1. FilterName = "grayscale" /\ BytesPerElement = 2
      BY <1>5, <2>4 DEF FilterName, BytesPerElement, Jpeg, Gray
    <3>2. Elements = 8 * q
      BY <1>1, <2>1, <3>1
    <3> QED
      BY <2>1, <2>2, <3>1, <3>2, GrayRow
  <2> QED
    BY <2>3, <2>4
<1>6. CASE config.format \in {"yuv422", "rgb565"}
  <2>1. InBytes = 2 /\ FbBytes = 2 /\ \A x \in Nat : Expected(x) = {x}
    BY <1>6 DEF InBytes, FbBytes, Expected, Gray
  <2>2. BufLen = 8 * (2 * q) /\ 2 * q \in Nat
    BY <1>1, <2>1
  <2>3. CASE config.fast /\ config.model # "ov7725"
    <3>1. FilterName = "yuyv_highspeed" /\ BytesPerElement = 1
      BY <1>6, <2>3 DEF FilterName, BytesPerElement, Jpeg, Gray
    <3>2. Elements = 8 * (2 * q)
      BY <1>1, <2>1, <3>1
    <3> QED
      BY <2>1, <2>2, <3>1, <3>2, YuyvHighRow
  <2>4. CASE ~(config.fast /\ config.model # "ov7725")
    <3>1. FilterName = "yuyv" /\ BytesPerElement = 2
      BY <1>6, <2>4 DEF FilterName, BytesPerElement, Jpeg, Gray
    <3>2. Elements = 4 * (2 * q)
      BY <1>1, <2>1, <3>1
    <3> QED
      BY <2>1, <2>2, <3>1, <3>2, YuyvRow
  <2> QED
    BY <2>3, <2>4
<1>7. CASE config.format = "rgb888"
  <2>1. InBytes = 2 /\ FbBytes = 3 /\ ~Gray
    BY <1>7 DEF InBytes, FbBytes, Gray
  <2>2. BufLen = 24 * q
    BY <1>1, <2>1
  <2>3. CASE config.fast
    <3>1. FilterName = "rgb888_highspeed" /\ BytesPerElement = 1
      BY <1>7, <2>3 DEF FilterName, BytesPerElement, Jpeg, Gray
    <3>2. Elements = 16 * q
      BY <1>1, <2>1, <3>1
    <3> QED
      BY <1>7, <2>1, <2>2, <3>1, <3>2, RgbHighRow
  <2>4. CASE ~config.fast
    <3>1. FilterName = "rgb888" /\ BytesPerElement = 2
      BY <1>7, <2>4 DEF FilterName, BytesPerElement, Jpeg, Gray
    <3>2. Elements = 8 * q
      BY <1>1, <2>1, <3>1
    <3> QED
      BY <1>7, <2>1, <2>2, <3>1, <3>2, RgbRow
  <2> QED
    BY <2>3, <2>4
<1> QED
  BY <1>2, <1>3, <1>4, <1>5, <1>6, <1>7 DEF Gray

\* The lines of an uncompressed frame fill the frame buffer.
LEMMA FrameFilled ==
  ASSUME config \in Configs, ~Jpeg
  PROVE  Height * DmaPerLine * BufLen = FbSize
<1>1. /\ Width * FbBytes = DmaPerLine * BufLen /\ DmaPerLine \in Nat
      /\ BufLen \in Nat /\ FbBytes \in Nat
  BY Measured
<1>2. Height \in Nat /\ Width \in Nat
  BY Dimensions DEF Widths
<1>3. FbSize = (Width * Height * FbBytes) \div 1
  BY DEF FbSize
<1>4. Width * Height * FbBytes = Height * (Width * FbBytes)
  BY <1>1, <1>2
<1>5. Height * DmaPerLine * BufLen = Height * (DmaPerLine * BufLen)
  BY <1>1, <1>2
<1>6. Width * Height * FbBytes \in Nat
  BY <1>1, <1>2
<1> QED
  BY <1>1, <1>3, <1>4, <1>5, <1>6

(***************************************************************************)
(* What LineWhole rests on: the camera is not ready, and no line is begun, *)
(* with a format the camera or the driver does not have.                   *)
(***************************************************************************)
Rows == { Row(b) : b \in Nat \ {0} }

LineInv ==
  /\ config \in Configs
  /\ Ready \/ lines # <<>> => Accepted
  /\ lines \in Seq(Rows) /\ \A b \in 1 .. Len(lines) : lines[b] = Row(b)

\* The rows are those of the configuration.
LEMMA DmaShape ==
  config \in Configs =>
    DmaPerLine = IF LineSize < 4096 THEN 1 ELSE IF LineSize < 8192 THEN 2
                 ELSE IF LineSize < 16384 THEN 4 ELSE 8
<1> SUFFICES ASSUME config \in Configs
             PROVE  LineSize \in Nat /\ LineSize < 32768
  BY Halved
<1>1. Width \in Widths
  BY Dimensions
<1> DEFINE g == InBytes * (4 \div BytesPerElement)
<1>2. LineSize = Width * g /\ g \in {2, 4, 8}
  <2>1. InBytes \in {1, 2} /\ BytesPerElement \in {1, 2}
    BY DEF InBytes, BytesPerElement
  <2> QED
    BY <1>1, <2>1 DEF LineSize, Widths
<1> HIDE DEF g
<1> QED
  BY <1>1, <1>2 DEF Widths

LEMMA SameRows ==
  ASSUME config \in Configs, UNCHANGED config
  PROVE  /\ \A b : Row(b)' = Row(b)
         /\ Rows' = Rows /\ (Accepted' <=> Accepted)
<1>1. (config \in Configs =>
         DmaPerLine = IF LineSize < 4096 THEN 1 ELSE IF LineSize < 8192 THEN 2
                      ELSE IF LineSize < 16384 THEN 4 ELSE 8)'
  BY DmaShape, PTL
<1>2. /\ Width' = Width /\ InBytes' = InBytes /\ FbBytes' = FbBytes
      /\ BytesPerElement' = BytesPerElement
  BY DEF Width, WidthOf, InBytes, FbBytes, BytesPerElement, Gray, Jpeg
<1>3. LineSize' = LineSize
  BY <1>2 DEF LineSize
<1>4. DmaPerLine' = DmaPerLine
  BY <1>1, <1>3, DmaShape
<1>5. BufLen' = BufLen
  BY <1>2, <1>4 DEF BufLen
<1>6. ASSUME NEW k
      PROVE  Expected(k)' = Expected(k)
  BY <1>2 DEF Expected, Gray
<1>7. ASSUME NEW b
      PROVE  Row(b)' = Row(b)
  BY <1>5, <1>6 DEF Row
<1>8. Rows' = Rows
  BY <1>7 DEF Rows
<1>9. Accepted' <=> Accepted
  BY DEF Accepted, Supported, JpegRefused, Jpeg
<1> QED
  BY <1>7, <1>8, <1>9

LEMMA LineInvStep == LineInv /\ [Next]_vars => LineInv'
<1> SUFFICES ASSUME LineInv, [Next]_vars
             PROVE  LineInv'
  OBVIOUS
<1>1. config' = config
  BY DEF Next, ProbeFails, SetupFails, CameraInit, Reboot, Command, Line, vars
<1>2. /\ config \in Configs /\ \A b : Row(b)' = Row(b)
      /\ Rows' = Rows /\ (Accepted' <=> Accepted)
  BY <1>1, SameRows DEF LineInv
<1>3. ASSUME UNCHANGED lines, Ready' => Ready \/ Accepted
      PROVE  LineInv'
  BY <1>1, <1>2, <1>3 DEF LineInv
<1>4. CASE ProbeFails
  BY <1>3, <1>4 DEF ProbeFails, SetupFails, Ready
<1>5. CASE CameraInit
  <2>1. PICK left \in config.left.setup :
          Identified([PowerOn EXCEPT !.left = left]) /\ ~JpegRefused /\ (Ready' => Supported)
    BY <1>5 DEF CameraInit, SetupFails, Ready
  <2>2. config.model \in {"ov2640", "ov3660", "ov7725"}
    BY <1>2, <2>1, SetupAssumption DEF Identified, Known
  <2>3. UNCHANGED lines
    BY <1>5 DEF CameraInit, SetupFails
  <2> QED
    BY <1>2, <1>3, <2>1, <2>2, <2>3 DEF Accepted
<1>6. CASE Reboot
  BY <1>3, <1>6 DEF Reboot, Ready
<1>7. CASE Command
  BY <1>3, <1>7 DEF Command, Ready
<1>8. CASE Line
  <2> DEFINE n == Len(lines)
  <2>1. n \in Nat /\ Accepted /\ lines' = Append(lines, Filtered(n)) /\ UNCHANGED phase
    BY <1>8 DEF Line, LineInv, Ready
  <2>2. Filtered(n) = Row(n + 1) /\ Row(n + 1) \in Rows
    BY <2>1, RowFilled DEF Rows
  <2>3. lines \in Seq(Rows) /\ \A b \in 1 .. n : lines[b] = Row(b)
    BY DEF LineInv
  <2> HIDE DEF n
  <2>4. lines' = Append(lines, Row(n + 1))
    BY <2>1, <2>2
  <2>5. /\ lines' \in Seq(Rows) /\ Len(lines') = n + 1 /\ lines'[n + 1] = Row(n + 1)
        /\ \A b \in 1 .. n : lines'[b] = lines[b]
    BY <2>1, <2>2, <2>3, <2>4 DEF n
  <2>6. \A b \in 1 .. Len(lines') : lines'[b] = Row(b)
    BY <2>1, <2>3, <2>5
  <2> QED
    BY <1>1, <1>2, <2>1, <2>5, <2>6 DEF LineInv
<1>9. CASE UNCHANGED vars
  BY <1>3, <1>9 DEF vars, Ready
<1> QED
  BY <1>4, <1>5, <1>6, <1>7, <1>8, <1>9 DEF Next

(***************************************************************************)
(* For every camera, format, size of a frame and clock the filters fill a  *)
(* line of the frame buffer without a gap, each byte from the bytes of its *)
(* own pixel, and the lines of an uncompressed frame fill the frame buffer *)
(* (LineWhole).                                                            *)
(***************************************************************************)
THEOREM LinesWhole == Spec => []LineWhole
<1>1. Init => LineInv
  BY DEF Init, LineInv, Ready
<1>2. LineInv => LineWhole
  <2> SUFFICES ASSUME LineInv PROVE LineWhole
    OBVIOUS
  <2>1. ASSUME NEW b \in DOMAIN lines
        PROVE  lines[b] = [k \in 0 .. BufLen - 1 |-> Expected((b - 1) * BufLen + k)]
    <3>1. lines[b] = Row(b)
      BY DEF LineInv
    <3> QED
      BY <3>1 DEF Row
  <2>2. Ready /\ ~Jpeg => Height * DmaPerLine * BufLen = FbSize
    BY FrameFilled DEF LineInv
  <2> QED
    BY <2>1, <2>2 DEF LineWhole
<1> QED
  BY <1>1, <1>2, LineInvStep, PTL DEF Spec
=============================================================================
