---------------------------- MODULE CameraProofs ----------------------------
(***************************************************************************)
(* The frame buffers of the camera (Camera), for any number of them and of *)
(* tasks, any frames, and a driver's task that may be late.                *)
(***************************************************************************)
EXTENDS Camera, FiniteSetTheorems, NaturalsInduction, WellFoundedInduction, TLAPS

IsBuffer(r) ==
  /\ r = [k \in {"ref", "bad", "len", "data"} |-> r[k]]
  /\ r.ref \in BOOLEAN

Buffers(f) == f = [b \in Fb |-> f[b]] /\ \A b \in Fb : IsBuffer(f[b])

CameraType ==
  /\ config \in Configs
  /\ cur \in Fb
  /\ Buffers(fbs)
  /\ task = [t \in config.tasks |-> task[t]]
  /\ \A t \in config.tasks : task[t].at = "held" => task[t].fb \in Fb

Alike(q) == \A j, k \in DOMAIN q : q[j] = q[k] => j = k

\* A referenced buffer is in one place, another in none.
Apart(f, in, out) ==
  /\ in \in Seq(Fb) /\ Alike(in)
  /\ out = <<>> \/ \E b \in Fb : out = <<b>>
  /\ \A b \in Fb : f[b].ref <=> b \in Range1(in) \/ b \in Range1(out) \/ Held(b) # {}
  /\ Range1(in) \cap Range1(out) = {}
  /\ \A b \in Fb : b \in Range1(in) \/ b \in Range1(out) => Held(b) = {}

OneHolder ==
  \A t, u \in config.tasks :
    task[t].at = "held" /\ task[u].at = "held" /\ task[t].fb = task[u].fb => t = u

CameraInv == CameraType /\ (~Single => Apart(fbs, fbIn, fbOut) /\ OneHolder)

\* What a step of the driver does to frames that tasks have.
FramesLeft ==
  \A b \in Fb : fbs[b].ref /\ b \notin Range1(fbIn) /\ b \notin Range1(fbOut) =>
    fbs'[b].data = fbs[b].data /\ fbs'[b].len = fbs[b].len

----------------------------------------------------------------------------
LEMMA ConfigFacts ==
  ASSUME config \in Configs
  PROVE  config.fbCount \in Nat \ {0}
BY CameraAssumption

LEMMA MinOfIn ==
  ASSUME NEW S \in SUBSET Nat, S # {}
  PROVE  MinOf(S) \in S
<1>1. OpToRel(<, Nat) = {p \in Nat \X Nat : p[1] < p[2]}
  BY Zenon DEF OpToRel
<1>2. PICK R : IsWellFoundedOn(R, Nat) /\ R = {p \in Nat \X Nat : p[1] < p[2]}
  BY <1>1, NatLessThanWellFounded, Zenon
<1>3. \E k \in S : \A j \in S : ~(<<j, k>> \in R)
  BY <1>2, WFMin, Zenon
<1>4. ASSUME NEW j \in S, NEW k \in S, ~(<<j, k>> \in R)
      PROVE  k <= j
  <2>1. j \in Nat /\ k \in Nat /\ <<j, k>> \in Nat \X Nat
    OBVIOUS
  <2>2. ~(j < k)
    BY <1>2, <1>4, <2>1
  <2> QED
    BY <2>1, <2>2
<1>5. \E k \in S : \A j \in S : k <= j
  BY <1>3, <1>4, Zenon
<1> QED
  BY <1>5 DEF MinOf

LEMMA NextFreeIn ==
  ASSUME config \in Configs, NEW f, NEW from \in Fb, NEW old \in Fb
  PROVE  NextFree(f, from, old) \in Fb
<1>1. config.fbCount \in Nat \ {0}
  BY ConfigFacts
<1> DEFINE free == {k \in 0 .. Dist(from, old) - 1 : ~f[After(from, k)].ref}
<1>2. CASE free = {}
  BY <1>2 DEF NextFree
<1>3. CASE free # {}
  <2>1. free \in SUBSET Nat
    OBVIOUS
  <2>2. MinOf(free) \in Nat
    BY <1>3, <2>1, MinOfIn
  <2> HIDE DEF free
  <2>3. After(from, MinOf(free)) \in Fb
    BY <1>1, <2>2 DEF After, Fb
  <2> QED
    BY <1>3, <2>3 DEF NextFree, free
<1> QED
  BY <1>2, <1>3

----------------------------------------------------------------------------
(* Steps that leave the places of the buffers alone.                       *)

LEMMA SameHeld ==
  ASSUME UNCHANGED config,
         \A t \in config.tasks :
           /\ task'[t].at = "held" <=> task[t].at = "held"
           /\ task[t].at = "held" => task'[t].fb = task[t].fb
  PROVE  /\ \A b : Held(b)' = Held(b)
         /\ OneHolder' <=> OneHolder
BY DEF Held, OneHolder

LEMMA SamePlaces ==
  ASSUME CameraInv, UNCHANGED <<config, fbIn, fbOut>>, CameraType',
         \A b : Held(b)' = Held(b), OneHolder' <=> OneHolder,
         \A b \in Fb : fbs'[b].ref = fbs[b].ref
  PROVE  CameraInv'
<1>1. Fb' = Fb /\ Single' = Single
  BY DEF Fb, Single
<1>2. ~Single => Apart(fbs, fbIn, fbOut)'
  BY <1>1 DEF CameraInv, Apart
<1> QED
  BY <1>1, <1>2 DEF CameraInv

\* The buffers after an interrupt handler or the driver's task has written to
\* the current one.
Touched(f) ==
  /\ Buffers(f)
  /\ \A b \in Fb : f[b].ref = fbs[b].ref
  /\ \A b \in Fb : fbs[b].ref => f[b].data = fbs[b].data /\ f[b].len = fbs[b].len

LEMMA DriverStep ==
  ASSUME CameraInv, UNCHANGED <<config, cur, fbIn, fbOut, task>>, Touched(fbs')
  PROVE  CameraInv' /\ FramesLeft
<1>1. Fb' = Fb
  BY DEF Fb
<1>2. CameraType'
  BY <1>1 DEF CameraInv, CameraType, Touched, Buffers
<1>3. CameraInv'
  BY <1>2, SameHeld, SamePlaces DEF Touched
<1> QED
  BY <1>3 DEF FramesLeft, Touched

\* A task goes on, from a place where it has no buffer to another.
LEMMA TaskStep ==
  ASSUME CameraInv, UNCHANGED <<config, fbIn, fbOut, fbs>>, cur' \in Fb,
         NEW t \in config.tasks, task[t].at # "held",
         NEW place, place # "held", Goes(t, place, 0)
  PROVE  CameraInv' /\ FramesLeft
<1>1. Fb' = Fb
  BY DEF Fb
<1>2. \A u \in config.tasks : u # t => task'[u] = task[u]
  BY DEF Goes, CameraInv, CameraType
<1>3. task'[t].at = place
  BY DEF Goes, CameraInv, CameraType
<1>4. CameraType'
  BY <1>1, <1>2, <1>3 DEF CameraInv, CameraType, Buffers, Goes
<1>5. CameraInv'
  BY <1>2, <1>3, <1>4, SameHeld, SamePlaces
<1> QED
  BY <1>5 DEF FramesLeft

LEMMA TouchedBy ==
  ASSUME CameraType, NEW new,
         new.ref = fbs[cur].ref, IsBuffer(new),
         fbs[cur].ref => new.data = fbs[cur].data /\ new.len = fbs[cur].len
  PROVE  Touched([fbs EXCEPT ![cur] = new])
BY DEF CameraType, Touched, Buffers

Fields(r, ref, bad, len, data) ==
  r.ref = ref /\ r.bad = bad /\ r.len = len /\ r.data = data

LEMMA Edited ==
  ASSUME NEW r, IsBuffer(r), NEW x
  PROVE  /\ IsBuffer([r EXCEPT !.bad = x]) /\ IsBuffer([r EXCEPT !.len = x])
         /\ IsBuffer([r EXCEPT !.data = x]) /\ r.ref \in BOOLEAN
         /\ x \in BOOLEAN => IsBuffer([r EXCEPT !.ref = x])
         /\ Fields([r EXCEPT !.bad = x], r.ref, x, r.len, r.data)
         /\ Fields([r EXCEPT !.len = x], r.ref, r.bad, x, r.data)
         /\ Fields([r EXCEPT !.data = x], r.ref, r.bad, r.len, x)
         /\ Fields([r EXCEPT !.ref = x], x, r.bad, r.len, r.data)
BY DEF IsBuffer, Fields

\* What is written to a buffer that is not referenced, or only marks it.
LEMMA EditsTouch ==
  ASSUME CameraType, NEW d, NEW l
  PROVE  /\ Touched([fbs EXCEPT ![cur].bad = TRUE])
         /\ ~fbs[cur].ref =>
              /\ Touched([fbs EXCEPT ![cur].data = d])
              /\ Touched([[fbs EXCEPT ![cur].data = d] EXCEPT ![cur].bad = TRUE])
              /\ Touched([fbs EXCEPT ![cur].len = l, ![cur].data = d])
<1> DEFINE r      == fbs[cur]
           marked == [r EXCEPT !.bad = TRUE]
           filled == [r EXCEPT !.data = d]
           spoilt == [filled EXCEPT !.bad = TRUE]
           cut    == [[r EXCEPT !.len = l] EXCEPT !.data = d]
<1>1. IsBuffer(r)
  BY DEF CameraType, Buffers
<1>2. /\ IsBuffer(marked) /\ Fields(marked, r.ref, TRUE, r.len, r.data)
      /\ IsBuffer(filled) /\ Fields(filled, r.ref, r.bad, r.len, d)
      /\ IsBuffer([r EXCEPT !.len = l]) /\ Fields([r EXCEPT !.len = l], r.ref, r.bad, l, r.data)
  BY <1>1, Edited
<1>3. /\ IsBuffer(spoilt) /\ Fields(spoilt, r.ref, TRUE, r.len, d)
      /\ IsBuffer(cut) /\ Fields(cut, r.ref, r.bad, l, d)
  <2> HIDE DEF filled
  <2>1. IsBuffer(spoilt) /\ Fields(spoilt, filled.ref, TRUE, filled.len, filled.data)
    BY <1>2, Edited
  <2>2. /\ IsBuffer(cut)
        /\ Fields(cut, [r EXCEPT !.len = l].ref, [r EXCEPT !.len = l].bad,
                  [r EXCEPT !.len = l].len, d)
    BY <1>2, Edited
  <2> QED
    BY <1>2, <2>1, <2>2 DEF Fields
<1>4. /\ [fbs EXCEPT ![cur].bad = TRUE] = [fbs EXCEPT ![cur] = marked]
      /\ [fbs EXCEPT ![cur].data = d] = [fbs EXCEPT ![cur] = filled]
      /\ [[fbs EXCEPT ![cur].data = d] EXCEPT ![cur].bad = TRUE] = [fbs EXCEPT ![cur] = spoilt]
      /\ [fbs EXCEPT ![cur].len = l, ![cur].data = d] = [fbs EXCEPT ![cur] = cut]
  BY DEF CameraType, Buffers
<1> HIDE DEF marked, filled, spoilt, cut
<1>5. Touched([fbs EXCEPT ![cur] = marked])
  BY <1>2, TouchedBy DEF Fields
<1>6. ASSUME ~fbs[cur].ref
      PROVE  /\ Touched([fbs EXCEPT ![cur] = filled])
             /\ Touched([fbs EXCEPT ![cur] = spoilt])
             /\ Touched([fbs EXCEPT ![cur] = cut])
  BY <1>2, <1>3, <1>6, TouchedBy DEF Fields
<1> QED
  BY <1>4, <1>5, <1>6

LEMMA TouchedNot ==
  ASSUME CameraType
  PROVE  Touched(fbs)
BY DEF CameraType, Touched

----------------------------------------------------------------------------
(* Buffers change their places.                                            *)

LEMMA Ranges ==
  /\ Range1(<<>>) = {}
  /\ \A b : Range1(<<b>>) = {b} /\ Head(<<b>>) = b /\ Tail(<<b>>) = <<>>
BY DEF Range1

LEMMA Appended ==
  ASSUME NEW S, NEW q \in Seq(S), Alike(q), NEW x \in S, x \notin Range1(q)
  PROVE  /\ Append(q, x) \in Seq(S) /\ Alike(Append(q, x))
         /\ Range1(Append(q, x)) = Range1(q) \cup {x}
<1>1. /\ Len(q) \in Nat /\ DOMAIN q = 1 .. Len(q)
      /\ DOMAIN Append(q, x) = 1 .. Len(q) + 1
      /\ \A k \in 1 .. Len(q) : Append(q, x)[k] = q[k]
      /\ Append(q, x)[Len(q) + 1] = x
  OBVIOUS
<1>2. Range1(Append(q, x)) = Range1(q) \cup {x}
  BY <1>1 DEF Range1
<1>3. \A k \in 1 .. Len(q) : q[k] # x
  BY <1>1 DEF Range1
<1>4. Alike(Append(q, x))
  BY <1>1, <1>3 DEF Alike
<1> QED
  BY <1>2, <1>4

\* esp_camera_fb_return
LEMMA ReturnStep ==
  ASSUME CameraInv, NEW t \in config.tasks, FbReturn(t)
  PROVE  CameraInv' /\ FramesLeft
<1>1. UNCHANGED <<config, fbOut, fbs, cur>> /\ task[t].at = "held" /\ task[t].fb \in Fb
  BY DEF FbReturn, CameraInv, CameraType
<1>2. /\ \A u \in config.tasks : u # t => task'[u] = task[u]
      /\ task'[t].at = "idle"
  BY DEF FbReturn, Goes, CameraInv, CameraType
<1>3. Fb' = Fb /\ Single' = Single
  BY <1>1 DEF Fb, Single
<1>4. CameraType'
  BY <1>1, <1>2, <1>3 DEF CameraInv, CameraType, Buffers, FbReturn, Goes
<1>5. ASSUME ~Single
      PROVE  Apart(fbs, fbIn, fbOut)' /\ OneHolder'
  <2>0. PICK x \in Fb : x = task[t].fb
    BY <1>1
  <2>1. fbIn' = Append(fbIn, x) /\ Apart(fbs, fbIn, fbOut) /\ OneHolder
    BY <1>5, <2>0 DEF FbReturn, CameraInv
  <2>2. t \in Held(x)
    BY <1>1, <2>0 DEF Held
  <2>3. x \notin Range1(fbIn) /\ x \notin Range1(fbOut)
    BY <1>1, <2>1, <2>2 DEF Apart
  <2>4. Held(x)' = {}
    BY <1>1, <1>2, <2>0, <2>1 DEF OneHolder, Held
  <2>5. \A b \in Fb : b # x => Held(b)' = Held(b)
    BY <1>1, <1>2, <2>0 DEF Held
  <2>6. fbIn' \in Seq(Fb) /\ Alike(fbIn') /\ Range1(fbIn') = Range1(fbIn) \cup {x}
    BY <1>1, <2>1, <2>3, Appended DEF Apart
  <2>7. OneHolder'
    BY <1>1, <1>2, <2>1 DEF OneHolder
  <2>8. \A b \in Fb : fbs[b].ref <=>
          b \in Range1(fbIn') \/ b \in Range1(fbOut) \/ Held(b)' # {}
    BY <2>1, <2>2, <2>4, <2>5, <2>6 DEF Apart
  <2>9. \A b \in Fb : b \in Range1(fbIn') \/ b \in Range1(fbOut) => Held(b)' = {}
    BY <2>1, <2>4, <2>5, <2>6 DEF Apart
  <2>10. Range1(fbIn') \cap Range1(fbOut) = {}
    BY <2>1, <2>3, <2>6 DEF Apart
  <2>11. fbOut = <<>> \/ \E b \in Fb : fbOut = <<b>>
    BY <2>1 DEF Apart
  <2>12. Apart(fbs, fbIn, fbOut)'
    BY <1>1, <1>3, <2>6, <2>8, <2>9, <2>10, <2>11 DEF Apart
  <2> QED
    BY <2>7, <2>12
<1> QED
  BY <1>1, <1>3, <1>4, <1>5 DEF CameraInv, FramesLeft

\* esp_camera_fb_get, when there is a frame
LEMMA GotStep ==
  ASSUME CameraInv, NEW t \in config.tasks, FbGot(t)
  PROVE  CameraInv' /\ FramesLeft
<1>1. UNCHANGED <<config, fbIn, fbs, cur>> /\ task[t].at = "wait"
  BY DEF FbGot
<1>2. \A u \in config.tasks : u # t => task'[u] = task[u]
  BY DEF FbGot, Goes, CameraInv, CameraType
<1>3. Fb' = Fb /\ Single' = Single
  BY <1>1 DEF Fb, Single
<1>4. CASE Single
  <2>1. task'[t].fb \in Fb
    BY <1>4 DEF FbGot, Goes, CameraInv, CameraType
  <2>2. CameraType'
    BY <1>1, <1>2, <1>3, <2>1 DEF CameraInv, CameraType, Buffers, FbGot, Goes
  <2> QED
    BY <1>1, <1>3, <1>4, <2>2 DEF CameraInv, FramesLeft
<1>5. CASE ~Single
  <2>1. Apart(fbs, fbIn, fbOut) /\ OneHolder
    BY <1>5 DEF CameraInv
  <2>2. PICK x \in Fb : fbOut = <<x>>
    BY <1>5, <2>1 DEF FbGot, Apart
  <2>3. fbOut' = <<>> /\ Goes(t, "held", x)
    BY <1>5, <2>2, Ranges DEF FbGot
  <2>4. task'[t] = [at |-> "held", fb |-> x]
    BY <2>3 DEF Goes, CameraInv, CameraType
  <2>5. CameraType'
    BY <1>1, <1>2, <1>3, <2>3, <2>4 DEF CameraInv, CameraType, Buffers, Goes
  <2>6. Range1(fbOut) = {x} /\ Range1(fbOut') = {}
    BY <2>2, <2>3, Ranges
  <2>7. Held(x) = {} /\ x \notin Range1(fbIn) /\ fbs[x].ref
    BY <2>1, <2>6 DEF Apart
  <2>8. Held(x)' = {t}
    BY <1>1, <1>2, <2>4, <2>7 DEF Held
  <2>9. \A b \in Fb : b # x => Held(b)' = Held(b)
    BY <1>1, <1>2, <2>4 DEF Held
  <2>10. OneHolder'
    <3>1. \A u \in config.tasks : ~(task[u].at = "held" /\ task[u].fb = x)
      BY <2>7 DEF Held
    <3> QED
      BY <1>1, <1>2, <2>1, <2>4, <3>1 DEF OneHolder
  <2>11. \A b \in Fb : fbs[b].ref <=>
           b \in Range1(fbIn) \/ b \in Range1(fbOut') \/ Held(b)' # {}
    BY <2>1, <2>6, <2>7, <2>8, <2>9 DEF Apart
  <2>12. \A b \in Fb : b \in Range1(fbIn) \/ b \in Range1(fbOut') => Held(b)' = {}
    BY <2>1, <2>6, <2>7, <2>9 DEF Apart
  <2>13. Apart(fbs, fbIn, fbOut)'
    BY <1>1, <1>3, <2>1, <2>3, <2>6, <2>11, <2>12 DEF Apart
  <2> QED
    BY <1>1, <1>3, <2>5, <2>10, <2>13 DEF CameraInv, FramesLeft
<1> QED
  BY <1>4, <1>5

----------------------------------------------------------------------------
(* The interrupt handlers and dma_filter_task                              *)

LEMMA HandlersTouch ==
  ASSUME CameraType
  PROVE  /\ Touched(I2sIsr.fbs) /\ Touched(VsyncIsr.fbs)
         /\ I2sStop(Now).fbs = fbs
<1>1. Now.fbs = fbs
  BY DEF Now
<1>2. \A s : I2sStop(s).fbs = s.fbs /\ Rewound(s).fbs = s.fbs
  BY DEF I2sStop, Rewound
<1>3. Touched(Received(Now).fbs)
  <2>1. Received(Now).fbs \in {fbs, [fbs EXCEPT ![cur].bad = TRUE]}
    BY <1>1 DEF Received
  <2>2. Touched([fbs EXCEPT ![cur].bad = TRUE])
    BY EditsTouch
  <2> QED
    BY <2>1, <2>2, TouchedNot
<1>4. I2sIsr.fbs = Received(Now).fbs
  BY <1>2 DEF I2sIsr
<1>5. VsyncIsr.fbs \in {fbs, Received(Now).fbs}
  BY <1>1, <1>2 DEF VsyncIsr
<1> QED
  BY <1>1, <1>2, <1>3, <1>4, <1>5, TouchedNot

LEMMA SensorSteps ==
  ASSUME CameraInv, SensorLine \/ SensorEnd \/ Take \/ Close
                    \/ \E n \in config.lines : SensorStart(n)
  PROVE  CameraInv' /\ FramesLeft
<1>1. UNCHANGED <<config, cur, fbIn, fbOut, task>>
  BY DEF SensorLine, SensorEnd, Take, Close, SensorStart, driver
<1>2. fbs' \in {fbs, I2sIsr.fbs, VsyncIsr.fbs}
  BY DEF SensorLine, SensorEnd, Take, Close, SensorStart, driver, Handled
<1>3. Touched(fbs')
  BY <1>2, HandlersTouch, TouchedNot DEF CameraInv
<1> QED
  BY <1>1, <1>3, DriverStep

\* dma_filter_buffer writes only to a buffer that is not referenced.
LEMMA FilterStep ==
  ASSUME CameraInv, FilterBuffer
  PROVE  CameraInv' /\ FramesLeft
<1>1. UNCHANGED <<config, cur, fbIn, fbOut, task>>
  BY DEF FilterBuffer
<1>2. CASE fbs' = fbs
  BY <1>1, <1>2, TouchedNot, DriverStep DEF CameraInv
<1>3. CASE ~fbs[cur].ref
           /\ (fbs' = Written(cur) \/ fbs' = [Written(cur) EXCEPT ![cur].bad = TRUE])
  <2>1. PICK d : Written(cur) = [fbs EXCEPT ![cur].data = d]
    BY DEF Written
  <2>2. Touched(Written(cur)) /\ Touched([Written(cur) EXCEPT ![cur].bad = TRUE])
    BY <1>3, <2>1, EditsTouch DEF CameraInv
  <2> QED
    BY <1>1, <1>3, <2>2, DriverStep
<1> QED
  BY <1>2, <1>3 DEF FilterBuffer, InUse

\* The buffers given up are no longer referenced; the others are as they were.
LEMMA GivenUpFacts ==
  ASSUME NEW f, Buffers(f), NEW popped
  PROVE  /\ Buffers(GivenUp(f, popped))
         /\ \A b \in Fb : GivenUp(f, popped)[b].ref <=> f[b].ref /\ b \notin popped
         /\ \A b \in Fb : b \notin popped => GivenUp(f, popped)[b] = f[b]
BY DEF Buffers, IsBuffer, GivenUp

\* camera_fb_done with several buffers
LEMMA DoneStep ==
  ASSUME CameraInv, ~Single, NEW f, Touched(f), FbDone(f), UNCHANGED <<config, task>>
  PROVE  CameraInv' /\ FramesLeft
<1> DEFINE new      == ~f[cur].ref /\ f[cur].len > 0
           raised   == [f EXCEPT ![cur].ref = TRUE]
           offered  == IF new THEN GivenUp(raised, Range1(fbOut)) ELSE f
           returned == Reclaimed(offered)
           from     == IF returned[cur].len > 0 THEN Next1(cur) ELSE cur
           next     == NextFree(returned, from, cur)
<1>1. Apart(fbs, fbIn, fbOut) /\ OneHolder /\ CameraType
  BY DEF CameraInv
<1>2. /\ fbOut' = IF new THEN <<cur>> ELSE fbOut
      /\ fbIn' = <<>> /\ cur' = next
      /\ fbs' = IF returned[next].ref THEN returned
                ELSE [returned EXCEPT ![next].len = 0, ![next].data = <<>>]
  BY DEF FbDone
<1>3. Fb' = Fb /\ Single' = Single /\ \A b : Held(b)' = Held(b)
  BY DEF Fb, Single, Held
<1>4. next \in Fb
  <2>1. from \in Fb
    BY <1>1, ConfigFacts DEF CameraType, Next1, Fb
  <2> HIDE DEF from, returned
  <2> QED
    BY <1>1, <2>1, NextFreeIn DEF CameraType
<1>5. new => /\ ~fbs[cur].ref /\ Held(cur) = {}
             /\ cur \notin Range1(fbIn) /\ cur \notin Range1(fbOut)
  BY <1>1 DEF Touched, CameraType, Apart
<1>6. /\ Buffers(raised) /\ raised[cur].ref
      /\ \A b \in Fb : b # cur => raised[b] = f[b]
  <2> DEFINE r == [f[cur] EXCEPT !.ref = TRUE]
  <2>1. IsBuffer(r) /\ r.ref
    BY <1>1, Edited DEF CameraType, Touched, Buffers, Fields
  <2>2. raised = [f EXCEPT ![cur] = r]
    BY <1>1 DEF CameraType, Touched, Buffers
  <2> HIDE DEF r, raised
  <2> QED
    BY <1>1, <2>1, <2>2 DEF CameraType, Touched, Buffers
<1>7. /\ Buffers(offered)
      /\ \A b \in Fb : offered[b].ref <=>
           IF new THEN b = cur \/ (f[b].ref /\ b \notin Range1(fbOut)) ELSE f[b].ref
      /\ \A b \in Fb : fbs[b].ref /\ b \notin Range1(fbOut) => offered[b] = f[b]
  <2> HIDE DEF raised
  <2>1. CASE new
    <3>1. offered = GivenUp(raised, Range1(fbOut))
      BY <2>1
    <3>2. /\ Buffers(GivenUp(raised, Range1(fbOut)))
          /\ \A b \in Fb : GivenUp(raised, Range1(fbOut))[b].ref
                             <=> raised[b].ref /\ b \notin Range1(fbOut)
          /\ \A b \in Fb : b \notin Range1(fbOut)
                             => GivenUp(raised, Range1(fbOut))[b] = raised[b]
      BY <1>6, GivenUpFacts
    <3> HIDE DEF offered
    <3> QED
      BY <1>5, <1>6, <2>1, <3>1, <3>2
  <2>2. CASE ~new
    BY <2>2 DEF Touched
  <2> QED
    BY <2>1, <2>2
<1> HIDE DEF raised, offered
<1>8. /\ Buffers(returned)
      /\ \A b \in Fb : returned[b].ref <=> offered[b].ref /\ b \notin Range1(fbIn)
      /\ \A b \in Fb : b \notin Range1(fbIn) => returned[b] = offered[b]
  BY <1>7, GivenUpFacts DEF Reclaimed
<1> HIDE DEF returned, next
<1>9. /\ Buffers(fbs')
      /\ \A b \in Fb : fbs'[b].ref = returned[b].ref
      /\ \A b \in Fb : returned[b].ref => fbs'[b] = returned[b]
  BY <1>2, <1>4, <1>8 DEF Buffers, IsBuffer
<1>10. CameraType'
  BY <1>1, <1>2, <1>3, <1>4, <1>9 DEF CameraType, Buffers
<1>11. Range1(fbIn') = {} /\ Range1(fbOut') = IF new THEN {cur} ELSE Range1(fbOut)
  BY <1>2, Ranges
<1>12. /\ fbIn' \in Seq(Fb) /\ Alike(fbIn')
       /\ fbOut' = <<>> \/ \E b \in Fb : fbOut' = <<b>>
  BY <1>1, <1>2 DEF Alike, Apart, CameraType
<1>13. \A b \in Fb : f[b].ref = fbs[b].ref
  BY DEF Touched
<1> HIDE DEF new
<1>14. \A b \in Fb : fbs'[b].ref <=> b \in Range1(fbOut') \/ Held(b) # {}
  BY <1>1, <1>5, <1>7, <1>8, <1>9, <1>11, <1>13 DEF Apart
<1>15. \A b \in Fb : b \in Range1(fbOut') => Held(b) = {}
  BY <1>1, <1>5, <1>11 DEF Apart
<1>16. Apart(fbs, fbIn, fbOut)'
  BY <1>3, <1>11, <1>12, <1>14, <1>15 DEF Apart
<1>17. OneHolder'
  BY <1>1 DEF OneHolder
<1>18. FramesLeft
  <2> SUFFICES ASSUME NEW b \in Fb, fbs[b].ref, b \notin Range1(fbIn), b \notin Range1(fbOut)
               PROVE  fbs'[b].data = fbs[b].data /\ fbs'[b].len = fbs[b].len
    BY DEF FramesLeft
  <2>1. returned[b].ref /\ returned[b] = f[b]
    BY <1>7, <1>8, <1>13
  <2> QED
    BY <1>9, <2>1 DEF Touched
<1> QED
  BY <1>3, <1>10, <1>16, <1>17, <1>18 DEF CameraInv

\* dma_finish_frame
LEMMA FinishStep ==
  ASSUME CameraInv, FinishFrame
  PROVE  CameraInv' /\ FramesLeft
<1> DEFINE cut   == [fbs EXCEPT ![cur].len = Length, ![cur].data = SubSeq(@, 1, Length)]
           clear == IF fbs[cur].ref THEN fbs
                    ELSE [fbs EXCEPT ![cur].bad = FALSE, ![cur].len = 0, ![cur].data = <<>>]
<1>1. Touched(fbs) /\ Touched(clear) /\ (~fbs[cur].ref => Touched(cut))
  <2>1. Touched(fbs)
    BY TouchedNot DEF CameraInv
  <2>2. Touched(clear)
    BY <2>1 DEF CameraInv, CameraType, Touched, Buffers, IsBuffer
  <2>3. ASSUME ~fbs[cur].ref
        PROVE  Touched(cut)
    <3>1. PICK d : cut = [fbs EXCEPT ![cur].len = Length, ![cur].data = d]
      OBVIOUS
    <3> QED
      BY <2>3, <3>1, EditsTouch DEF CameraInv
  <2> QED
    BY <2>1, <2>2, <2>3
<1>2. UNCHANGED <<config, task>>
  BY DEF FinishFrame
<1>3. ASSUME NEW f, Touched(f), FbDone(f)
      PROVE  CameraInv' /\ FramesLeft
  <2>1. CASE Single
    BY <1>2, <1>3, <2>1, DriverStep DEF FbDone
  <2> QED
    BY <1>2, <1>3, <2>1, DoneStep
<1>4. \/ FbDone(fbs)
      \/ ~fbs[cur].ref /\ FbDone(cut)
      \/ fbs' = clear /\ UNCHANGED <<cur, fbIn, fbOut>>
  BY DEF FinishFrame
<1> HIDE DEF cut, clear
<1> QED
  BY <1>1, <1>2, <1>3, <1>4, DriverStep

----------------------------------------------------------------------------
LEMMA CallStep ==
  ASSUME CameraInv, NEW t \in config.tasks,
         FbGet(t) \/ Run(t) \/ RunTimeout(t) \/ FbTimeout(t)
  PROVE  CameraInv' /\ FramesLeft
<1>1. UNCHANGED <<config, fbIn, fbOut, fbs>> /\ task[t].at # "held"
  BY HandlersTouch DEF FbGet, Run, RunTimeout, FbTimeout, Handled, driver, CameraInv
<1>2. \E place \in {"wait", "run", "idle"} : Goes(t, place, 0)
  BY DEF FbGet, Run, RunTimeout, FbTimeout
<1>3. cur' \in Fb
  BY NextFreeIn DEF FbGet, Run, RunTimeout, FbTimeout, driver, CameraInv, CameraType
<1> QED
  BY <1>1, <1>2, <1>3, TaskStep

LEMMA CameraStep ==
  ASSUME CameraInv, [Next]_vars
  PROVE  CameraInv' /\ FramesLeft
<1>1. CASE UNCHANGED vars
  <2>1. UNCHANGED <<config, cur, fbIn, fbOut, task, fbs>>
    BY <1>1 DEF vars, driver
  <2> QED
    BY <2>1, TouchedNot, DriverStep DEF CameraInv
<1> QED
  BY <1>1, SensorSteps, FilterStep, FinishStep, CallStep, GotStep, ReturnStep DEF Next

LEMMA CameraInvInit ==
  ASSUME Init
  PROVE  CameraInv
<1>1. CameraType
  <2>1. config \in Configs /\ cur \in Fb
    BY ConfigFacts DEF Init, Fb
  <2>2. Buffers(fbs)
    BY DEF Init, Buffers, IsBuffer
  <2>3. task = [t \in config.tasks |-> task[t]]
        /\ \A t \in config.tasks : task[t].at # "held"
    BY DEF Init, Idle
  <2> QED
    BY <2>1, <2>2, <2>3 DEF CameraType
<1>2. \A b : Held(b) = {}
  BY DEF Init, Held, Idle
<1>3. Apart(fbs, fbIn, fbOut)
  BY <1>2, Ranges DEF Init, Apart, Alike
<1>4. OneHolder
  BY DEF Init, OneHolder, Idle
<1> QED
  BY <1>1, <1>3, <1>4 DEF CameraInv

----------------------------------------------------------------------------
(* Numbers of places.                                                      *)

LEMMA Once ==
  ASSUME NEW q, Alike(q), NEW b
  PROVE  Times(b, q) = IF b \in Range1(q) THEN 1 ELSE 0
<1>1. CASE b \in Range1(q)
  <2>1. PICK k : {j \in DOMAIN q : q[j] = b} = {k}
    BY <1>1 DEF Range1, Alike
  <2> QED
    BY <1>1, <2>1, FS_Singleton DEF Times
<1>2. CASE b \notin Range1(q)
  <2>1. {j \in DOMAIN q : q[j] = b} = {}
    BY <1>2 DEF Range1
  <2> QED
    BY <1>2, <2>1, FS_EmptySet DEF Times
<1> QED
  BY <1>1, <1>2

LEMMA OneHeld ==
  ASSUME OneHolder, NEW b
  PROVE  Cardinality(Held(b)) = IF Held(b) = {} THEN 0 ELSE 1
<1>1. CASE Held(b) = {}
  BY <1>1, FS_EmptySet
<1>2. CASE Held(b) # {}
  <2>1. PICK t : Held(b) = {t}
    BY <1>2 DEF Held, OneHolder
  <2> QED
    BY <2>1, FS_Singleton
<1> QED
  BY <1>1, <1>2

\* No frame buffer is lost and none is given to two tasks (camera_fb_done,
\* esp_camera_fb_get, esp_camera_fb_return).
THEOREM AlwaysOnePlace == Spec => []OnePlace
<1>1. Init => CameraInv
  BY CameraInvInit
<1>2. CameraInv /\ [Next]_vars => CameraInv'
  BY CameraStep
<1>3. ASSUME CameraInv
      PROVE  OnePlace
  <2> SUFFICES ASSUME ~Single, NEW b \in Fb
               PROVE  Times(b, fbIn) + Times(b, fbOut) + Cardinality(Held(b))
                        = IF fbs[b].ref THEN 1 ELSE 0
    BY DEF OnePlace
  <2>1. Apart(fbs, fbIn, fbOut) /\ OneHolder
    BY <1>3 DEF CameraInv
  <2>2. Alike(fbIn) /\ Alike(fbOut)
    BY <2>1 DEF Apart, Alike
  <2>3. /\ Times(b, fbIn) = IF b \in Range1(fbIn) THEN 1 ELSE 0
        /\ Times(b, fbOut) = IF b \in Range1(fbOut) THEN 1 ELSE 0
        /\ Cardinality(Held(b)) = IF Held(b) = {} THEN 0 ELSE 1
    BY <2>1, <2>2, Once, OneHeld
  <2> QED
    BY <2>1, <2>3 DEF Apart
<1> QED
  BY <1>1, <1>2, <1>3, PTL DEF Spec

\* With several buffers the driver leaves the frame alone that a task has,
\* however late its task is (dma_filter_buffer, camera_fb_done).
THEOREM SeveralAlwaysKept ==
  Spec => [][~Single => \A t \in config.tasks :
               task[t].at = "held" /\ task'[t] = task[t] =>
                 fbs'[task[t].fb].data = fbs[task[t].fb].data
                 /\ fbs'[task[t].fb].len = fbs[task[t].fb].len]_vars
<1>1. Init => CameraInv
  BY CameraInvInit
<1>2. CameraInv /\ [Next]_vars => CameraInv'
  BY CameraStep
<1>3. ASSUME CameraInv, [Next]_vars, ~Single, NEW t \in config.tasks, task[t].at = "held"
      PROVE  fbs'[task[t].fb].data = fbs[task[t].fb].data
             /\ fbs'[task[t].fb].len = fbs[task[t].fb].len
  <2>1. FramesLeft
    BY <1>3, CameraStep
  <2>2. task[t].fb \in Fb /\ Held(task[t].fb) # {}
    BY <1>3 DEF CameraInv, CameraType, Held
  <2>3. Apart(fbs, fbIn, fbOut)
    BY <1>3 DEF CameraInv
  <2>4. /\ fbs[task[t].fb].ref
        /\ task[t].fb \notin Range1(fbIn) /\ task[t].fb \notin Range1(fbOut)
    BY <2>2, <2>3 DEF Apart
  <2> QED
    BY <2>1, <2>2, <2>4 DEF FramesLeft
<1>4. CameraInv /\ [Next]_vars =>
        [~Single => \A t \in config.tasks :
           task[t].at = "held" /\ task'[t] = task[t] =>
             fbs'[task[t].fb].data = fbs[task[t].fb].data
             /\ fbs'[task[t].fb].len = fbs[task[t].fb].len]_vars
  BY <1>3
<1> QED
  BY <1>1, <1>2, <1>4, PTL DEF Spec
----------------------------------------------------------------------------
(* One photo in a frame.                                                   *)

\* Several buffers; the driver's task is behind by fewer DMA buffers than there
\* are, the marks of the end have places in the queue, a photo has room in a
\* frame buffer, and the bus is started once unless the task is hardly behind.
Steady ==
  /\ ~Single
  /\ config.lag < config.descs - 1 /\ config.lag + 2 <= config.queue
  /\ \A n \in config.lines : n < config.room
  /\ config.lag <= 1 \/ \E t : config.tasks = {t}

Piece == [frame : Nat, line : Nat, last : BOOLEAN]

Desc == 0 .. config.descs - 1

PipeType ==
  /\ dma \in [Desc -> Piece]
  /\ ready \in Seq(Desc \cup {End})
  /\ filter \in Desc \cup {None, End, Closing}
  /\ bus \in [rx : BOOLEAN, vsync : BOOLEAN, desc : Desc, received : Nat]
  /\ bus.vsync <=> bus.rx /\ config.jpeg
  /\ sensor \in [active : BOOLEAN, frame : Nat, line : Nat, lines : Nat]
  /\ sensor.active => sensor.lines \in config.lines /\ sensor.line <= sensor.lines
  /\ filtered \in Nat

\* The first n pieces of d are the first ones of a photo.
Begun(d, n) ==
  /\ n <= Len(d)
  /\ \A k \in 1 .. n : d[k].line = k /\ d[k].frame = d[1].frame

Whole(r) == r.len > 0 /\ Begun(r.data, r.len) /\ r.data[r.len].last

\* A buffer has a whole photo when it is referenced.
Good(r) ==
  /\ r.data \in Seq(Piece) /\ r.len \in Nat /\ r.bad = FALSE
  /\ r.ref => Whole(r)

\* What is on its way to the task: item 0 is in its hands.
Item(k) == IF k = 0 THEN filter ELSE ready[k]

Filled == fbs[cur].data

\* The item e comes at the right moment for the current buffer.
Fits(e) ==
  ~fbs[cur].ref =>
    /\ e \in Desc => /\ dma[e].line = filtered + 1
                     /\ filtered > 0 => dma[e].frame = Filled[1].frame
    /\ e = End /\ filtered > 0 => Filled[filtered].last

\* The item e comes at the right moment after d.
Follows(d, e) ==
  /\ d \in Desc /\ e \in Desc =>
       dma[e].line = dma[d].line + 1 /\ dma[e].frame = dma[d].frame
  /\ d \in Desc /\ e = End => dma[d].last
  /\ d \in {End, Closing} /\ e \in Desc => dma[e].line = 1
  /\ d = None => Fits(e)

\* The sensor has sent some of a photo, and the bus received it.
Midway ==
  /\ bus.rx /\ sensor.active /\ sensor.line > 0
  /\ config.jpeg \/ sensor.line < sensor.lines

\* The last item is what the sensor sent last.
Latest(z) ==
  /\ Midway => /\ z \notin {End, Closing}
               /\ z \in Desc => dma[z].line = sensor.line /\ dma[z].frame = sensor.frame
               /\ z = None /\ ~fbs[cur].ref =>
                    filtered = sensor.line /\ Filled[1].frame = sensor.frame
  /\ ~Midway => z \notin Desc /\ (z = None => filtered = 0)

\* m buffers after p, in the ring.
Beyond(p, m) == {p + m, p + m - config.descs}

\* Since item k was received the bus has gone on by at most as many buffers as
\* there are items from k on.
Within(k) ==
  \/ config.lag <= 1 /\ k < Len(ready)
  \/ \E n \in 1 .. Len(ready) - k + 1 :
       bus.desc \in Beyond(Item(k), n)

Stream ==
  /\ filter # None => Fits(filter)
  /\ \A k \in 1 .. Len(ready) : Follows(Item(k - 1), Item(k))
  /\ Latest(Item(Len(ready)))
  /\ \A k \in 0 .. Len(ready) : Item(k) \in Desc =>
       dma[Item(k)].line \in 1 .. config.room /\ Within(k)

\* How far the bus and the tasks are.
Pace ==
  /\ bus.rx => bus.received = IF Midway THEN sensor.line ELSE 0
  /\ ~bus.rx => ready = <<>> /\ filter = None
  /\ bus.rx /\ config.lag > 1 => \A t \in config.tasks : task[t].at # "run"

\* The invariant behind AlwaysOneFrame: what the task has, what waits in the
\* queue and what the sensor sends now follow each other without a gap, no DMA
\* buffer on its way has been filled again, and what is in the frame buffers is
\* the beginning of a photo or all of one.
FramePart ==
  /\ PipeType /\ Stream /\ Pace
  /\ \A b \in Fb : Good(fbs[b])
  /\ filter # Closing /\ ~fbs[cur].ref => Begun(Filled, filtered)

FrameInv == timeouts \in Nat /\ (Steady /\ timeouts = 0 => FramePart)

LEMMA Constants ==
  ASSUME config \in Configs
  PROVE  /\ config.fbCount \in Nat \ {0} /\ config.descs \in Nat \ {0}
         /\ config.queue \in Nat /\ config.room \in Nat /\ config.lag \in Nat
         /\ config.frames \in Nat \ {0} /\ config.jpeg \in BOOLEAN
         /\ \A n \in config.lines : n \in Nat \ {0}
BY CameraAssumption

LEMMA SteadyFacts ==
  ASSUME config \in Configs, Steady
  PROVE  /\ config.lag \in Nat /\ config.descs \in Nat /\ config.queue \in Nat
         /\ config.lag + 2 <= config.descs /\ config.lag + 2 <= config.queue
         /\ \A n \in config.lines : n \in Nat \ {0} /\ n + 1 <= config.room
         /\ \A d \in Desc : d \in Nat /\ d < config.descs
BY Constants DEF Steady, Desc

Onward(d) == IF d + 1 = config.descs THEN 0 ELSE d + 1

LEMMA NextDesc ==
  ASSUME config \in Configs, NEW d \in Desc
  PROVE  (d + 1) % config.descs = Onward(d) /\ Onward(d) \in Desc
BY Constants DEF Desc, Onward

LEMMA Round ==
  ASSUME config \in Configs, NEW p \in Desc, NEW x \in Desc, NEW m \in Nat,
         m + 1 <= config.descs, x \in Beyond(p, m)
  PROVE  Onward(x) \in Beyond(p, m + 1)
<1>1. PICK D \in Nat : D = config.descs
  BY Constants
<1>2. p \in Nat /\ x \in Nat /\ p < D /\ x < D /\ m + 1 <= D
  BY <1>1 DEF Desc
<1>3. x = p + m \/ x = p + m - D
  BY <1>1 DEF Beyond
<1>4. Onward(x) = IF x + 1 = D THEN 0 ELSE x + 1
  BY <1>1 DEF Onward
<1>5. Onward(x) = p + (m + 1) \/ Onward(x) = p + (m + 1) - D
  BY <1>2, <1>3, <1>4
<1> QED
  BY <1>1, <1>5 DEF Beyond

\* The kinds of items are told apart.
LEMMA Kinds ==
  ASSUME config \in Configs
  PROVE  /\ Desc \subseteq Nat
         /\ End \notin Desc /\ None \notin Desc /\ Closing \notin Desc
         /\ End # None /\ End # Closing /\ None # Closing
BY Constants DEF Desc, End, None, Closing

LEMMA Items ==
  ASSUME config \in Configs, PipeType
  PROVE  /\ Len(ready) \in Nat /\ Item(0) = filter
         /\ \A k \in 1 .. Len(ready) :
              Item(k) = ready[k] /\ Item(k) \in Desc \cup {End} /\ Item(k) # None
         /\ \A k \in 0 .. Len(ready) : Item(k) \in Desc \cup {None, End, Closing}
         /\ Behind = Len(ready) + (IF filter = None THEN 0 ELSE 1)
BY Kinds DEF PipeType, Item, Behind

LEMMA SteadySame ==
  ASSUME UNCHANGED config
  PROVE  /\ Steady' <=> Steady
         /\ Fb' = Fb /\ Desc' = Desc
BY DEF Steady, Fb, Desc, Single

----------------------------------------------------------------------------
(* The sensor.                                                             *)

\* What is on its way does not depend on the tasks and what they have.
LEMMA SameStream ==
  ASSUME FramePart, UNCHANGED <<config, fbs, cur, filtered, dma, ready, filter>>,
         bus'.desc = bus.desc, Midway' <=> Midway,
         Midway => sensor'.line = sensor.line /\ sensor'.frame = sensor.frame
  PROVE  Stream'
<1>1. /\ \A k : Item(k)' = Item(k) /\ (Within(k)' <=> Within(k))
      /\ Len(ready') = Len(ready) /\ Desc' = Desc
  BY DEF Item, Within, Beyond, Desc
<1>2. \A e : Fits(e)' <=> Fits(e)
  BY <1>1 DEF Fits, Filled
<1>3. \A d, e : Follows(d, e)' <=> Follows(d, e)
  BY <1>1, <1>2 DEF Follows
<1>4. \A z : Latest(z) => Latest(z)'
  BY <1>1 DEF Latest, Filled
<1> QED
  BY <1>1, <1>2, <1>3, <1>4 DEF FramePart, Stream

LEMMA Buffered ==
  ASSUME FramePart, UNCHANGED <<config, fbs, cur, filtered, filter>>
  PROVE  /\ (\A b \in Fb : Good(fbs[b]))'
         /\ (filter # Closing /\ ~fbs[cur].ref => Begun(Filled, filtered))'
BY DEF FramePart, Fb, Filled

LEMMA StartPart ==
  ASSUME FramePart, config \in Configs, NEW n \in config.lines, SensorStart(n)
  PROVE  FramePart'
<1>1. /\ UNCHANGED <<config, fbs, cur, bus, filtered, dma, ready, filter, task>>
      /\ ~sensor.active
      /\ sensor' = [active |-> TRUE, frame |-> (sensor.frame + 1) % config.frames,
                    line |-> 0, lines |-> n]
  BY DEF SensorStart, driver
<1>2. ~Midway /\ ~Midway'
  BY <1>1 DEF Midway
<1>3. (sensor.frame + 1) % config.frames \in Nat /\ n \in Nat
  <2>1. sensor.frame \in Nat /\ config.frames \in Nat \ {0}
    BY Constants DEF FramePart, PipeType
  <2> QED
    BY <2>1, Constants
<1>4. PipeType'
  BY <1>1, <1>3 DEF FramePart, PipeType, Desc
<1>5. Pace'
  BY <1>1, <1>2 DEF FramePart, Pace
<1>6. Stream'
  BY <1>1, <1>2, SameStream
<1> QED
  BY <1>1, <1>4, <1>5, <1>6, Buffered DEF FramePart

\* The bus does not listen, or the interrupt of VSYNC is off.
LEMMA UnheardPart ==
  ASSUME FramePart, config \in Configs,
         \/ SensorLine /\ ~bus.rx
         \/ SensorEnd /\ ~bus.vsync
  PROVE  FramePart'
<1>1. /\ UNCHANGED <<config, fbs, cur, bus, filtered, dma, ready, filter, task>>
      /\ sensor' \in {[sensor EXCEPT !.line = @ + 1], [sensor EXCEPT !.active = FALSE]}
      /\ sensor'.active => sensor.line < sensor.lines
  BY DEF SensorLine, SensorEnd, FramePart, PipeType
<1>2. ~Midway /\ ~Midway'
  <2>1. /\ bus.vsync <=> bus.rx /\ config.jpeg
        /\ sensor \in [active : BOOLEAN, frame : Nat, line : Nat, lines : Nat]
    BY DEF FramePart, PipeType
  <2>2. CASE ~bus.rx
    BY <1>1, <2>2 DEF Midway
  <2>3. CASE SensorEnd /\ ~bus.vsync /\ bus.rx
    <3>1. sensor.line = sensor.lines /\ sensor.line \in Nat /\ sensor' = [sensor EXCEPT !.active = FALSE]
      BY <2>1, <2>3 DEF SensorEnd
    <3>2. ~sensor'.active
      BY <2>1, <3>1
    <3>3. ~config.jpeg /\ ~(sensor.line < sensor.lines)
      BY <2>1, <2>3, <3>1
    <3> QED
      BY <3>2, <3>3 DEF Midway
  <2> QED
    BY <2>2, <2>3
<1>3. PipeType'
  <2>1. /\ sensor' \in [active : BOOLEAN, frame : Nat, line : Nat, lines : Nat]
        /\ sensor'.active =>
             sensor'.lines \in config.lines /\ sensor'.line <= sensor'.lines
    <3>1. sensor \in [active : BOOLEAN, frame : Nat, line : Nat, lines : Nat]
      BY DEF FramePart, PipeType
    <3>2. CASE sensor' = [sensor EXCEPT !.line = @ + 1]
      <4>1. /\ sensor' \in [active : BOOLEAN, frame : Nat, line : Nat, lines : Nat]
            /\ sensor'.active = sensor.active /\ sensor'.lines = sensor.lines
            /\ sensor'.line = sensor.line + 1
            /\ sensor.line \in Nat /\ sensor.lines \in Nat
        BY <3>1, <3>2
      <4>2. sensor.active => sensor.lines \in config.lines
        BY DEF FramePart, PipeType
      <4> QED
        BY <1>1, <4>1, <4>2
    <3>3. CASE sensor' = [sensor EXCEPT !.active = FALSE]
      BY <3>1, <3>3
    <3> QED
      BY <1>1, <3>2, <3>3
  <2> QED
    BY <1>1, <2>1 DEF FramePart, PipeType, Desc
<1>4. Pace'
  BY <1>1, <1>2 DEF FramePart, Pace
<1>5. Stream'
  BY <1>1, <1>2, SameStream
<1> QED
  BY <1>1, <1>3, <1>4, <1>5, Buffered DEF FramePart

\* r is what waits, the buffer just filled and perhaps the mark of the end.
Grown(r) ==
  /\ r \in Seq(Desc \cup {End}) /\ Len(r) \in {Len(ready) + 1, Len(ready) + 2}
  /\ \A k \in 1 .. Len(ready) : r[k] = ready[k]
  /\ r[Len(ready) + 1] = bus.desc
  /\ Len(r) = Len(ready) + 2 => r[Len(ready) + 2] = End

LEMMA Grows ==
  ASSUME config \in Configs, PipeType
  PROVE  /\ Grown(Append(ready, bus.desc))
         /\ Len(Append(ready, bus.desc)) = Len(ready) + 1
         /\ Grown(Append(Append(ready, bus.desc), End))
         /\ Len(Append(Append(ready, bus.desc), End)) = Len(ready) + 2
<1> DEFINE one == Append(ready, bus.desc)
           two == Append(one, End)
<1>1. ready \in Seq(Desc \cup {End}) /\ bus.desc \in Desc \cup {End}
  BY DEF PipeType
<1>2. /\ one \in Seq(Desc \cup {End}) /\ Len(one) = Len(ready) + 1
      /\ \A k \in 1 .. Len(ready) : one[k] = ready[k]
      /\ one[Len(ready) + 1] = bus.desc
  BY <1>1
<1> HIDE DEF one
<1>3. /\ two \in Seq(Desc \cup {End}) /\ Len(two) = Len(ready) + 2
      /\ \A k \in 1 .. Len(ready) + 1 : two[k] = one[k]
      /\ two[Len(ready) + 2] = End
  BY <1>1, <1>2
<1>4. Len(ready) \in Nat
  BY <1>1
<1> QED
  BY <1>2, <1>3, <1>4 DEF Grown, one

\* When the bus writes, nothing that is on its way is in the buffer it fills.
LEMMA NotOverwritten ==
  ASSUME config \in Configs, Steady, FramePart, Behind <= config.lag,
         NEW k \in 0 .. Len(ready), Item(k) \in Desc
  PROVE  /\ Item(k) # bus.desc
         /\ \E n \in 1 .. Len(ready) - k + 1 :
              /\ n <= config.lag
              /\ bus.desc \in Beyond(Item(k), n)
<1>1. Len(ready) \in Nat /\ Behind = Len(ready) + (IF filter = None THEN 0 ELSE 1)
  BY Items DEF FramePart
<1>2. k = 0 => filter # None
  BY Items, Kinds DEF FramePart
<1>3. Len(ready) - k + 1 <= config.lag
  BY <1>1, <1>2, Constants
<1>4. Within(k)
  BY DEF FramePart, Stream
<1>5. PICK n \in 1 .. Len(ready) - k + 1 :
        bus.desc \in Beyond(Item(k), n)
  BY <1>1, <1>3, <1>4, Constants DEF Within
<1>6. n \in Nat /\ n > 0 /\ n <= config.lag
  BY <1>1, <1>3, <1>5, SteadyFacts
<1>7. Item(k) # bus.desc
  BY <1>5, <1>6, SteadyFacts DEF Beyond
<1> QED
  BY <1>5, <1>6, <1>7

\* A piece arrives from the sensor.
LEMMA ArrivedStream ==
  ASSUME config \in Configs, Steady, FramePart, Behind <= config.lag,
         UNCHANGED <<config, fbs, cur, filtered, filter>>,
         Midway \/ sensor.line = 0,
         NEW e \in Piece, e.line = sensor.line + 1, e.frame = sensor.frame,
         e.line <= config.room,
         dma' = [dma EXCEPT ![bus.desc] = e], Grown(ready'),
         NEW d1, d1 = Onward(bus.desc),
         Len(ready') = Len(ready) + 1 =>
           /\ bus'.desc = d1
           /\ Midway' /\ sensor'.line = e.line /\ sensor'.frame = e.frame,
         Len(ready') = Len(ready) + 2 =>
           /\ bus'.desc \in {d1, Onward(d1)}
           /\ ~Midway' /\ e.last
  PROVE  Stream'
<1>n. PICK n \in Nat : n = Len(ready)
  BY Items DEF FramePart
<1>0. Desc' = Desc /\ Len(ready') \in {n + 1, n + 2} /\ n = Len(ready) /\ n \in Nat
  BY <1>n DEF Desc, Grown
<1>1. ASSUME NEW k \in 0 .. n
      PROVE  Item(k)' = Item(k) /\ (Item(k) \in Desc => dma'[Item(k)] = dma[Item(k)])
  <2>1. Item(k)' = Item(k)
    BY <1>0 DEF Item, Grown
  <2>2. Item(k) \in Desc => Item(k) # bus.desc
    BY <1>0, NotOverwritten
  <2> QED
    BY <2>1, <2>2 DEF FramePart, PipeType
<1>x. PICK x : x = bus.desc
  OBVIOUS
<1>2. /\ Item(n + 1)' = bus.desc /\ dma'[bus.desc] = e /\ bus.desc \in Desc
      /\ Item(n + 1)' = x /\ dma'[x] = e /\ x \in Desc
      /\ Len(ready') = n + 2 => Item(n + 2)' = End
  BY <1>0, <1>x DEF Item, Grown, FramePart, PipeType
<1>3. ASSUME NEW k \in 0 .. n, Fits(Item(k))
      PROVE  Fits(Item(k))'
  BY <1>0, <1>1, <1>3 DEF Fits, Filled
<1>4. ASSUME NEW k \in 1 .. n
      PROVE  Follows(Item(k - 1), Item(k))'
  <2>1. Follows(Item(k - 1), Item(k)) /\ k - 1 \in 0 .. n /\ k \in 0 .. n
    BY <1>0 DEF FramePart, Stream
  <2>2. Item(k - 1)' = Item(k - 1) /\ Item(k)' = Item(k)
    BY <1>1, <2>1
  <2>3. /\ Item(k) \in Desc => dma'[Item(k)] = dma[Item(k)]
        /\ Item(k - 1) \in Desc => dma'[Item(k - 1)] = dma[Item(k - 1)]
    BY <1>1, <2>1
  <2>4. Fits(Item(k)) => Fits(Item(k))'
    BY <1>3, <2>1
  <2> QED
    BY <1>0, <2>1, <2>2, <2>3, <2>4 DEF Follows
<1>5. Follows(Item(n), Item(n + 1))'
  <2>1. Latest(Item(n)) /\ n \in 0 .. n
    BY <1>0 DEF FramePart, Stream
  <2>2. Item(n)' = Item(n) /\ (Item(n) \in Desc => dma'[Item(n)] = dma[Item(n)])
    BY <1>1, <2>1
  <2>3. Item(n) \in Desc => Midway /\ dma[Item(n)].line = sensor.line
                            /\ dma[Item(n)].frame = sensor.frame
    BY <2>1 DEF Latest
  <2>4. Item(n) \in {End, Closing} => e.line = 1
    BY <2>1 DEF Latest
  <2>5. Item(n) = None => Fits(x)'
    <3>1. Item(n) = None /\ ~fbs[cur].ref =>
            /\ e.line = filtered + 1
            /\ filtered > 0 => e.frame = Filled[1].frame
      BY <2>1 DEF Latest
    <3>2. x # End /\ UNCHANGED <<fbs, cur, filtered>>
      BY <1>2, Kinds
    <3>3. Item(n) = None => Fits(x)'
      BY <1>0, <1>2, <3>1, <3>2 DEF Fits, Filled
    <3> QED
      BY <3>3
  <2> QED
    BY <1>0, <1>2, <2>2, <2>3, <2>4, <2>5, Kinds DEF Follows, Fits, Filled
<1>6. Len(ready') = n + 2 => Follows(Item(n + 1), Item(n + 2))'
  BY <1>0, <1>2, Kinds DEF Follows
<1>7. filter' # None => Fits(filter)'
  <2>1. Item(0) = filter /\ 0 \in 0 .. n /\ Item(0)' = filter'
    BY <1>0 DEF Item
  <2>2. filter # None => Fits(Item(0))
    BY <2>1 DEF FramePart, Stream
  <2> QED
    BY <1>3, <2>1, <2>2 DEF Fits, Filled
<1>8. \A k \in 1 .. Len(ready') : Follows(Item(k - 1), Item(k))'
  <2>1. \A k \in 1 .. Len(ready') :
          k \in 1 .. n \/ k = n + 1 \/ (k = n + 2 /\ Len(ready') = n + 2)
    BY <1>0
  <2>2. (n + 1) - 1 = n /\ (n + 2) - 1 = n + 1
    BY <1>0
  <2> QED
    BY <1>4, <1>5, <1>6, <2>1, <2>2
<1>9. Latest(Item(Len(ready)))'
  <2>1. CASE Len(ready') = n + 1
    <3>1. bus.desc \notin {End, Closing} /\ bus.desc # None
      BY <1>2, Kinds
    <3>2. Item(Len(ready))' = bus.desc
      BY <1>2, <2>1
    <3> QED
      BY <1>0, <1>2, <2>1, <3>1, <3>2 DEF Latest
  <2>2. CASE Len(ready') = n + 2
    <3>1. Item(Len(ready))' = End
      BY <1>2, <2>2
    <3> QED
      BY <1>0, <2>2, <3>1, Kinds DEF Latest
  <2> QED
    BY <1>0, <2>1, <2>2
<1>10. ASSUME NEW k \in 0 .. Len(ready'), Item(k)' \in Desc
       PROVE  dma'[Item(k)'].line \in 1 .. config.room /\ Within(k)'
  <2>1. CASE k = n + 1
    <3>1. e.line \in 1 .. config.room
      BY Constants DEF FramePart, PipeType, Piece
    <3>2. d1 \in Desc
      BY <1>2, NextDesc
    <3>4. Within(k)'
      <4>0. bus.desc \in Beyond(bus.desc, 0) /\ 0 \in Nat /\ 1 \in Nat /\ 0 + 1 = 1 /\ 1 + 1 = 2
        BY <1>2, SteadyFacts DEF Beyond
      <4>1. d1 \in Beyond(bus.desc, 1)
        BY <1>2, <4>0, Round, SteadyFacts
      <4>2. Onward(d1) \in Beyond(bus.desc, 2)
        BY <1>2, <3>2, <4>0, <4>1, Round, SteadyFacts
      <4>3. 1 \in 1 .. Len(ready') - k + 1
        BY <1>0, <2>1
      <4>4. Len(ready') = n + 2 => 2 \in 1 .. Len(ready') - k + 1
        BY <1>0, <2>1
      <4> QED
        BY <1>0, <1>2, <2>1, <4>1, <4>2, <4>3, <4>4 DEF Within, Beyond
    <3> QED
      BY <1>2, <2>1, <3>1, <3>4
  <2>2. CASE k \in 0 .. n
    <3>1. Item(k)' = Item(k) /\ Item(k) \in Desc /\ dma'[Item(k)] = dma[Item(k)]
      BY <1>1, <1>10, <2>2
    <3>2. dma[Item(k)].line \in 1 .. config.room
      BY <1>0, <2>2, <3>1 DEF FramePart, Stream
    <3>3. PICK m \in 1 .. n - k + 1 :
            /\ m <= config.lag
            /\ bus.desc \in Beyond(Item(k), m)
      BY <1>0, <2>2, <3>1, NotOverwritten
    <3>6. /\ m \in Nat /\ m > 0 /\ m + 2 <= config.descs
          /\ Item(k) \in Nat /\ Item(k) < config.descs
          /\ bus.desc \in Nat /\ bus.desc < config.descs /\ config.descs \in Nat
      <4>1. m \in Nat /\ m > 0
        BY <1>0, <2>2, <3>3
      <4>2. m + 2 <= config.descs
        BY <4>1, <3>3, SteadyFacts
      <4>3. Item(k) \in Nat /\ Item(k) < config.descs
        BY <3>1, SteadyFacts
      <4>4. bus.desc \in Nat /\ bus.desc < config.descs
        BY <1>2, SteadyFacts
      <4> QED
        BY <4>1, <4>2, <4>3, <4>4, SteadyFacts
    <3>7. d1 \in Beyond(Item(k), m + 1) /\ d1 \in Desc
      BY <1>2, <3>1, <3>3, <3>6, Round, NextDesc
    <3>8. Onward(d1) \in Beyond(Item(k), m + 2)
      <4>1. m + 1 \in Nat /\ (m + 1) + 1 = m + 2
        BY <3>6
      <4> QED
        BY <3>1, <3>6, <3>7, <4>1, Round
    <3>9. /\ m + 1 \in 1 .. Len(ready') - k + 1
          /\ Len(ready') = n + 2 => m + 2 \in 1 .. Len(ready') - k + 1
      BY <1>0, <2>2, <3>3
    <3>10. \E j \in 1 .. Len(ready') - k + 1 :
             bus'.desc \in Beyond(Item(k), j)
      <4>1. CASE bus'.desc = d1
        BY <3>7, <3>9, <4>1
      <4>2. CASE bus'.desc = Onward(d1) /\ Len(ready') = n + 2
        BY <3>8, <3>9, <4>2
      <4> QED
        BY <1>0, <4>1, <4>2
    <3>11. Within(k)'
      BY <3>1, <3>10 DEF Within, Beyond
    <3> QED
      BY <3>1, <3>2, <3>11
  <2>3. CASE k = n + 2 /\ Len(ready') = n + 2
    BY <1>2, <1>10, <2>3, Kinds
  <2> QED
    BY <1>0, <2>1, <2>2, <2>3
<1> QED
  BY <1>0, <1>7, <1>8, <1>9, <1>10 DEF Stream

\* What the interrupt handlers do while the queue has room and no buffer is bad.
LEMMA Handlers ==
  ASSUME config \in Configs, CameraType, Steady, FramePart, Behind <= config.lag
  PROVE  LET one == Append(ready, bus.desc)
             two == Append(one, End)
             d1  == Onward(bus.desc)
         IN /\ IF ~config.jpeg /\ bus.received + 1 = sensor.lines
                 THEN I2sIsr = [bus |-> [bus EXCEPT !.desc = d1, !.received = 0],
                                ready |-> two, fbs |-> fbs]
                 ELSE I2sIsr = [bus |-> [bus EXCEPT !.desc = d1, !.received = @ + 1],
                                ready |-> one, fbs |-> fbs]
            /\ bus.received > 0 =>
                 VsyncIsr = [bus |-> [bus EXCEPT !.rx = TRUE, !.desc = Onward(d1),
                                                 !.received = 0],
                             ready |-> two, fbs |-> fbs]
<1> DEFINE one == Append(ready, bus.desc)
           two == Append(one, End)
           d1  == Onward(bus.desc)
           b1  == [bus EXCEPT !.desc = d1, !.received = @ + 1]
           b2  == [bus EXCEPT !.desc = d1, !.received = 0]
           b3  == [bus EXCEPT !.rx = TRUE, !.desc = Onward(d1), !.received = 0]
           r1  == [bus |-> b1, ready |-> one, fbs |-> fbs]
           r2  == [bus |-> b2, ready |-> two, fbs |-> fbs]
           r3  == [bus |-> b3, ready |-> two, fbs |-> fbs]
<1>1. /\ Len(ready) \in Nat /\ Len(ready) + 2 <= config.queue /\ config.queue \in Nat
      /\ Len(one) = Len(ready) + 1
  BY Items, Grows, SteadyFacts DEF FramePart
<1>2. fbs[cur].bad = FALSE /\ ~Single
  BY DEF FramePart, Good, CameraType, Steady
<1>3. /\ d1 \in Desc /\ (bus.desc + 1) % config.descs = d1
      /\ (d1 + 1) % config.descs = Onward(d1)
  BY NextDesc DEF FramePart, PipeType
<1>4. bus \in [rx : BOOLEAN, vsync : BOOLEAN, desc : Desc, received : Nat]
  BY DEF FramePart, PipeType
<1> HIDE DEF d1
<1>5. Received(Now) = r1
  <2>1. Now.bus = bus /\ Now.ready = ready /\ Now.fbs = fbs
    BY DEF Now
  <2>2. Queued(ready, bus.desc) = one /\ ~(Len(ready) = config.queue)
    BY <1>1 DEF Queued
  <2>3. [bus EXCEPT !.desc = (@ + 1) % config.descs, !.received = @ + 1] = b1
    BY <1>3
  <2> QED
    BY <1>2, <2>1, <2>2, <2>3 DEF Received
<1>6. b1.received = bus.received + 1 /\ [b1 EXCEPT !.received = 0] = b2
  BY <1>4
<1>7. [b2 EXCEPT !.rx = TRUE, !.desc = (@ + 1) % config.descs, !.received = 0] = b3
  BY <1>3, <1>4
<1> HIDE DEF b1, b2, b3, one
<1>8. I2sStop(r1) = r2
  <2>1. Queued(one, End) = two
    BY <1>1 DEF Queued
  <2>2. I2sStop(r1) = [r1 EXCEPT !.bus = [@ EXCEPT !.received = 0], !.ready = Queued(@, End)]
    BY <1>2 DEF I2sStop
  <2>3. r1.bus = b1 /\ r1.ready = one
    OBVIOUS
  <2>4. I2sStop(r1) = [r1 EXCEPT !.bus = b2, !.ready = two]
    BY <1>6, <2>1, <2>2, <2>3
  <2> QED
    BY <2>4
<1>9. Rewound(r2) = r3
  <2>1. r2.bus = b2
    OBVIOUS
  <2> QED
    BY <1>7, <2>1 DEF Rewound
<1>10. IF ~config.jpeg /\ bus.received + 1 = sensor.lines THEN I2sIsr = r2 ELSE I2sIsr = r1
  <2>1. r1.bus.received = bus.received + 1
    BY <1>6
  <2> QED
    BY <1>5, <1>8, <2>1 DEF I2sIsr
<1>11. bus.received > 0 => VsyncIsr = r3
  <2> SUFFICES ASSUME bus.received > 0
               PROVE  VsyncIsr = r3
    OBVIOUS
  <2> QED
    BY <1>2, <1>5, <1>8, <1>9 DEF VsyncIsr
<1> QED
  BY <1>10, <1>11 DEF b1, b2, b3, d1, one

\* A DMA buffer is full while the bus listens.
LEMMA LinePart ==
  ASSUME config \in Configs, CameraType, Steady, FramePart, SensorLine, bus.rx
  PROVE  FramePart'
<1> DEFINE last == ~config.jpeg /\ sensor.line + 1 = sensor.lines
<1> PICK e : e = Sent(last)
  OBVIOUS
<1>1. /\ UNCHANGED <<config, cur, filtered, filter, task>> /\ Behind <= config.lag
      /\ sensor.active /\ sensor.line < sensor.lines
      /\ sensor' = [sensor EXCEPT !.line = @ + 1]
      /\ dma' = [dma EXCEPT ![bus.desc] = e]
      /\ bus' = I2sIsr.bus /\ ready' = I2sIsr.ready /\ fbs' = I2sIsr.fbs
  BY DEF SensorLine, Handled
<1>2. /\ sensor \in [active : BOOLEAN, frame : Nat, line : Nat, lines : Nat]
      /\ bus \in [rx : BOOLEAN, vsync : BOOLEAN, desc : Desc, received : Nat]
      /\ sensor.lines \in config.lines /\ sensor.lines < config.room /\ config.room \in Nat
      /\ bus.desc \in Desc /\ dma \in [Desc -> Piece]
  <2>1. /\ sensor \in [active : BOOLEAN, frame : Nat, line : Nat, lines : Nat]
        /\ bus \in [rx : BOOLEAN, vsync : BOOLEAN, desc : Desc, received : Nat]
        /\ dma \in [Desc -> Piece]
    BY DEF FramePart, PipeType
  <2>2. sensor.lines \in config.lines
    BY <1>1 DEF FramePart, PipeType
  <2>3. /\ sensor.lines \in Nat \ {0} /\ sensor.lines + 1 <= config.room
        /\ config.room \in Nat
    BY <2>2, SteadyFacts, Constants
  <2> QED
    BY <2>1, <2>2, <2>3
<1>3. /\ e \in Piece /\ e.line = sensor.line + 1 /\ e.frame = sensor.frame
      /\ e.last = last /\ e.line <= config.room
  BY <1>1, <1>2 DEF Sent, Piece
<1>4. /\ Midway \/ sensor.line = 0
      /\ bus.received = sensor.line
  <2>1. sensor.line > 0 => Midway
    BY <1>1, <1>2 DEF Midway
  <2> QED
    BY <1>2, <2>1 DEF FramePart, Pace
<1>5. /\ sensor'.line = sensor.line + 1 /\ sensor'.active /\ sensor'.frame = sensor.frame
      /\ sensor'.lines = sensor.lines
      /\ sensor' \in [active : BOOLEAN, frame : Nat, line : Nat, lines : Nat]
  BY <1>1, <1>2
<1>6. /\ IF last THEN bus' = [bus EXCEPT !.desc = Onward(bus.desc), !.received = 0]
                      /\ ready' = Append(Append(ready, bus.desc), End)
         ELSE bus' = [bus EXCEPT !.desc = Onward(bus.desc), !.received = @ + 1]
              /\ ready' = Append(ready, bus.desc)
      /\ fbs' = fbs
  BY <1>1, <1>4, Handlers
<1>7. /\ bus' \in [rx : BOOLEAN, vsync : BOOLEAN, desc : Desc, received : Nat]
      /\ bus'.rx /\ (bus'.vsync <=> bus.vsync) /\ bus'.desc = Onward(bus.desc)
      /\ bus'.received = IF last THEN 0 ELSE bus.received + 1
  <2>1. Onward(bus.desc) \in Desc
    BY <1>2, NextDesc
  <2>2. CASE last
    <3>1. bus' = [bus EXCEPT !.desc = Onward(bus.desc), !.received = 0]
      BY <1>6, <2>2
    <3> HIDE DEF last
    <3> QED
      BY <1>2, <2>1, <2>2, <3>1
  <2>3. CASE ~last
    <3>1. PICK v \in Nat : v = bus.received + 1
      BY <1>2
    <3>2. bus' = [bus EXCEPT !.desc = Onward(bus.desc), !.received = v]
      BY <1>6, <2>3, <3>1
    <3> HIDE DEF last
    <3> QED
      BY <1>2, <2>1, <2>3, <3>1, <3>2
  <2> QED
    BY <2>2, <2>3
<1>8. /\ Grown(ready')
      /\ Len(ready') = IF last THEN Len(ready) + 2 ELSE Len(ready) + 1
  BY <1>6, Grows DEF FramePart
<1>9. Midway' <=> ~last
  BY <1>1, <1>2, <1>5, <1>7 DEF Midway
<1>10. Stream'
  <2>1. Len(ready) \in Nat
    BY Items DEF FramePart
  <2>2. /\ Len(ready') = Len(ready) + 1 => ~last
        /\ Len(ready') = Len(ready) + 2 => last
    BY <1>8, <2>1
  <2> HIDE DEF last
  <2> QED
    BY <1>1, <1>3, <1>4, <1>5, <1>6, <1>7, <1>8, <1>9, <2>2, ArrivedStream
<1>11. PipeType'
  <2>1. dma' \in [Desc -> Piece]
    BY <1>1, <1>2, <1>3
  <2>2. sensor'.lines \in config.lines /\ sensor'.line <= sensor'.lines
    BY <1>1, <1>2, <1>5
  <2>3. bus'.vsync <=> bus'.rx /\ config.jpeg
    BY <1>7 DEF FramePart, PipeType
  <2> QED
    BY <1>1, <1>5, <1>7, <1>8, <2>1, <2>2, <2>3 DEF FramePart, PipeType, Grown, Desc
<1>12. Pace'
  BY <1>1, <1>4, <1>5, <1>7, <1>9 DEF FramePart, Pace
<1> QED
  BY <1>1, <1>6, <1>10, <1>11, <1>12, Buffered DEF FramePart

\* A JPEG ends, and VSYNC is heard.
LEMMA EndPart ==
  ASSUME config \in Configs, CameraType, Steady, FramePart, SensorEnd, bus.vsync
  PROVE  FramePart'
<1> PICK e : e = Sent(TRUE)
  OBVIOUS
<1>0. bus.rx /\ config.jpeg
  BY DEF FramePart, PipeType
<1>1. /\ UNCHANGED <<config, cur, filtered, filter, task>> /\ Behind <= config.lag
      /\ sensor.active /\ sensor.line = sensor.lines
      /\ sensor' = [sensor EXCEPT !.active = FALSE]
      /\ dma' = [dma EXCEPT ![bus.desc] = e]
      /\ bus' = VsyncIsr.bus /\ ready' = VsyncIsr.ready /\ fbs' = VsyncIsr.fbs
  BY <1>0 DEF SensorEnd, Handled
<1>2. /\ sensor \in [active : BOOLEAN, frame : Nat, line : Nat, lines : Nat]
      /\ bus \in [rx : BOOLEAN, vsync : BOOLEAN, desc : Desc, received : Nat]
      /\ sensor.lines \in config.lines /\ sensor.lines < config.room /\ config.room \in Nat
      /\ bus.desc \in Desc /\ dma \in [Desc -> Piece] /\ sensor.lines > 0
  <2>1. /\ sensor \in [active : BOOLEAN, frame : Nat, line : Nat, lines : Nat]
        /\ bus \in [rx : BOOLEAN, vsync : BOOLEAN, desc : Desc, received : Nat]
        /\ dma \in [Desc -> Piece]
    BY DEF FramePart, PipeType
  <2>2. sensor.lines \in config.lines
    BY <1>1 DEF FramePart, PipeType
  <2>3. /\ sensor.lines \in Nat \ {0} /\ sensor.lines + 1 <= config.room
        /\ config.room \in Nat
    BY <2>2, SteadyFacts, Constants
  <2> QED
    BY <2>1, <2>2, <2>3
<1>3. /\ e \in Piece /\ e.line = sensor.line + 1 /\ e.frame = sensor.frame
      /\ e.last /\ e.line <= config.room
  BY <1>1, <1>2 DEF Sent, Piece
<1>4. Midway /\ bus.received > 0
  <2>1. Midway
    BY <1>0, <1>1, <1>2 DEF Midway
  <2> QED
    BY <1>0, <1>1, <1>2, <2>1 DEF FramePart, Pace
<1>5. /\ ~sensor'.active
      /\ sensor' \in [active : BOOLEAN, frame : Nat, line : Nat, lines : Nat]
  BY <1>1, <1>2
<1>6. /\ bus' = [bus EXCEPT !.rx = TRUE, !.desc = Onward(Onward(bus.desc)), !.received = 0]
      /\ ready' = Append(Append(ready, bus.desc), End) /\ fbs' = fbs
  BY <1>1, <1>4, Handlers
<1>7. /\ bus' \in [rx : BOOLEAN, vsync : BOOLEAN, desc : Desc, received : Nat]
      /\ bus'.rx /\ (bus'.vsync <=> bus.vsync)
      /\ bus'.desc = Onward(Onward(bus.desc)) /\ bus'.received = 0
  <2>1. Onward(Onward(bus.desc)) \in Desc
    BY <1>2, NextDesc
  <2> QED
    BY <1>2, <1>6, <2>1
<1>8. Grown(ready') /\ Len(ready') = Len(ready) + 2 /\ Len(ready) \in Nat
  <2>1. Len(ready) \in Nat
    BY Items DEF FramePart
  <2> QED
    BY <1>6, <2>1, Grows DEF FramePart
<1>9. ~Midway'
  BY <1>5 DEF Midway
<1>10. Stream'
  <2>1. ~(Len(ready') = Len(ready) + 1)
    BY <1>8
  <2>2. UNCHANGED <<config, fbs, cur, filtered, filter>>
    BY <1>1, <1>6
  <2>3. PICK d1 : d1 = Onward(bus.desc)
    OBVIOUS
  <2>4. bus'.desc \in {d1, Onward(d1)}
    BY <1>7, <2>3
  <2> QED
    BY <1>1, <1>3, <1>4, <1>8, <1>9, <2>1, <2>2, <2>3, <2>4, ArrivedStream
<1>11. PipeType'
  <2>1. dma' \in [Desc -> Piece]
    BY <1>1, <1>2, <1>3
  <2> QED
    BY <1>0, <1>1, <1>5, <1>7, <1>8, <2>1 DEF FramePart, PipeType, Grown, Desc
<1>12. Pace'
  BY <1>0, <1>1, <1>7, <1>9 DEF FramePart, Pace
<1> QED
  BY <1>1, <1>6, <1>10, <1>11, <1>12, Buffered DEF FramePart

----------------------------------------------------------------------------
(* The driver's task.                                                      *)

\* Take
LEMMA TakePart ==
  ASSUME config \in Configs, FramePart, Take
  PROVE  FramePart'
<1>1. /\ UNCHANGED <<config, fbs, cur, filtered, bus, dma, sensor, task>>
      /\ filter = None /\ ready # <<>> /\ filter' = Head(ready) /\ ready' = Tail(ready)
  BY DEF Take
<1>n. PICK n \in Nat : n = Len(ready)
  BY Items DEF FramePart
<1>2. /\ ready \in Seq(Desc \cup {End}) /\ n > 0
      /\ ready' \in Seq(Desc \cup {End}) /\ Len(ready') = n - 1
      /\ filter' = ready[1] /\ \A k \in 1 .. n - 1 : ready'[k] = ready[k + 1]
  BY <1>1, <1>n DEF FramePart, PipeType
<1>3. Desc' = Desc /\ (Midway' <=> Midway)
  BY <1>1 DEF Desc, Midway
<1>4. ASSUME NEW k \in 0 .. n - 1
      PROVE  Item(k)' = Item(k + 1) /\ Item(k + 1) = ready[k + 1]
             /\ Item(k + 1) \in Desc \cup {End}
  <2>1. /\ k \in Nat /\ k + 1 \in 1 .. n /\ k + 1 # 0 /\ Len(ready) = n
        /\ k # 0 => k \in 1 .. n - 1
    BY <1>n, <1>4
  <2>2. Item(k + 1) = ready[k + 1] /\ ready[k + 1] \in Desc \cup {End}
    BY <1>2, <2>1 DEF Item
  <2>3. Item(k)' = ready[k + 1]
    <3>1. CASE k = 0
      BY <1>2, <3>1 DEF Item
    <3>2. CASE k # 0
      BY <1>2, <2>1, <3>2 DEF Item
    <3> QED
      BY <3>1, <3>2
  <2> QED
    BY <2>2, <2>3
<1>5. \A e : Fits(e)' <=> Fits(e)
  BY <1>1, <1>3 DEF Fits, Filled
<1>6. \A d, e : Follows(d, e)' <=> Follows(d, e)
  BY <1>1, <1>3, <1>5 DEF Follows
<1>7. \A z : Latest(z)' <=> Latest(z)
  BY <1>1, <1>3 DEF Latest, Filled
<1>8. Stream'
  <2>1. filter' # None => Fits(filter)'
    <3>1. Follows(Item(1 - 1), Item(1))
      BY <1>n, <1>2 DEF FramePart, Stream
    <3>2. Item(1 - 1) = None /\ Item(1) = filter'
      BY <1>1, <1>2 DEF Item
    <3>3. PICK x : x = filter'
      OBVIOUS
    <3>4. Fits(x)
      BY <3>1, <3>2, <3>3 DEF Follows
    <3>5. Fits(x)'
      BY <1>5, <3>4
    <3> QED
      BY <3>3, <3>5 DEF Fits
  <2>2. ASSUME NEW k \in 1 .. n - 1
        PROVE  Follows(Item(k - 1), Item(k))'
    <3>1. PICK d, e : d = Item(k) /\ e = Item(k + 1)
      OBVIOUS
    <3>2. Follows(d, e)
      <4>1. k + 1 \in 1 .. Len(ready) /\ (k + 1) - 1 = k
        BY <1>n, <2>2
      <4>2. Follows(Item((k + 1) - 1), Item(k + 1))
        BY <4>1 DEF FramePart, Stream
      <4> QED
        BY <3>1, <4>1, <4>2
    <3>3. Item(k - 1)' = d /\ Item(k)' = e
      <4>1. k - 1 \in 0 .. n - 1 /\ k \in 0 .. n - 1 /\ (k - 1) + 1 = k
        BY <2>2
      <4> QED
        BY <1>4, <3>1, <4>1
    <3>4. Follows(d, e)'
      BY <1>6, <3>2
    <3> QED
      BY <3>3, <3>4 DEF Follows, Fits, Filled
  <2>3. Latest(Item(Len(ready)))'
    <3>1. PICK z : z = Item(n)
      OBVIOUS
    <3>2. Latest(z)'
      BY <1>n, <1>7, <3>1 DEF FramePart, Stream
    <3>3. Item(Len(ready))' = z
      <4>1. n - 1 \in 0 .. n - 1 /\ (n - 1) + 1 = n
        BY <1>2
      <4> QED
        BY <1>2, <1>4, <3>1, <4>1
    <3> QED
      BY <3>2, <3>3 DEF Latest, Filled
  <2>4. ASSUME NEW k \in 0 .. n - 1, Item(k)' \in Desc
        PROVE  dma'[Item(k)'].line \in 1 .. config.room /\ Within(k)'
    <3>1. k + 1 \in 0 .. Len(ready) /\ Item(k)' = Item(k + 1)
      BY <1>4, <1>n, <2>4
    <3>2. dma[Item(k + 1)].line \in 1 .. config.room /\ Within(k + 1)
      BY <2>4, <3>1 DEF FramePart, Stream
    <3>3. CASE config.lag <= 1 /\ k + 1 < Len(ready)
      BY <1>1, <1>2, <1>n, <3>1, <3>2, <3>3 DEF Within
    <3>4. CASE \E j \in 1 .. Len(ready) - (k + 1) + 1 : bus.desc \in Beyond(Item(k + 1), j)
      <4>1. Len(ready) - (k + 1) + 1 = Len(ready') - k + 1
        BY <1>2, <1>n, <2>4
      <4> QED
        BY <1>1, <3>1, <3>2, <3>4, <4>1 DEF Within, Beyond
    <3> QED
      BY <3>2, <3>3, <3>4 DEF Within
  <2> QED
    BY <1>1, <1>2, <1>3, <2>1, <2>2, <2>3, <2>4 DEF Stream
<1>9. PipeType'
  BY <1>1, <1>2, <1>3, Kinds DEF FramePart, PipeType
<1>10. Pace'
  BY <1>1, <1>3 DEF FramePart, Pace
<1>11. /\ (\A b \in Fb : Good(fbs[b]))'
       /\ (filter # Closing /\ ~fbs[cur].ref => Begun(Filled, filtered))'
  BY <1>1, Kinds DEF FramePart, Fb, Filled
<1> QED
  BY <1>8, <1>9, <1>10, <1>11 DEF FramePart

\* The first m pieces of d and another.
Extended(d, m, p) == Append(SubSeq(d, 1, m), p)

LEMMA OneMore ==
  ASSUME NEW d \in Seq(Piece), NEW m \in Nat, Begun(d, m), NEW p \in Piece,
         p.line = m + 1, m > 0 => p.frame = d[1].frame,
         NEW q, q = Extended(d, m, p)
  PROVE  q \in Seq(Piece) /\ Begun(q, m + 1) /\ q[m + 1] = p /\ q[1].frame = p.frame
<1>1. /\ SubSeq(d, 1, m) \in Seq(Piece) /\ Len(SubSeq(d, 1, m)) = m
      /\ \A k \in 1 .. m : SubSeq(d, 1, m)[k] = d[k]
  BY DEF Begun
<1>2. /\ q \in Seq(Piece) /\ Len(q) = m + 1 /\ q[m + 1] = p
      /\ \A k \in 1 .. m : q[k] = d[k]
  BY <1>1 DEF Extended
<1>3. q[1].frame = p.frame
  <2>1. CASE m = 0
    BY <1>2, <2>1
  <2>2. CASE m > 0
    BY <1>2, <2>2
  <2> QED
    BY <2>1, <2>2
<1>4. ASSUME NEW k \in 1 .. m + 1
      PROVE  q[k].line = k /\ q[k].frame = q[1].frame
  <2>1. CASE k = m + 1
    BY <1>2, <1>3, <2>1
  <2>2. CASE k \in 1 .. m
    BY <1>2, <2>2 DEF Begun
  <2> QED
    BY <2>1, <2>2
<1> QED
  BY <1>2, <1>3, <1>4 DEF Begun

\* dma_filter_buffer
LEMMA FilterPart ==
  ASSUME config \in Configs, CameraType, FramePart, FilterBuffer
  PROVE  FramePart'
<1>1. /\ UNCHANGED <<config, cur, bus, dma, ready, sensor, task>>
      /\ filter \in Desc /\ filter' = None
  BY DEF FilterBuffer, FramePart, PipeType
<1>n. PICK n \in Nat : n = Len(ready)
  BY Items DEF FramePart
<1>p. PICK p : p = dma[filter]
  OBVIOUS
<1>2. /\ p \in Piece /\ p.line \in 1 .. config.room /\ Fits(filter)
      /\ filter # None /\ filter # Closing
  <2>1. 0 \in 0 .. Len(ready) /\ Item(0) = filter
    BY <1>n DEF Item
  <2> QED
    BY <1>1, <1>p, <2>1, Kinds DEF FramePart, PipeType, Stream
<1>3. Desc' = Desc /\ (Midway' <=> Midway) /\ Fb' = Fb
  BY <1>1 DEF Desc, Midway, Fb
<1>4. /\ fbs'[cur].ref <=> fbs[cur].ref
      /\ fbs[cur].ref => UNCHANGED <<fbs, filtered>>
      /\ ~fbs[cur].ref =>
           /\ filtered' = filtered + 1 /\ Filled'[1].frame = p.frame
           /\ p.line = filtered + 1 /\ Filled'[filtered + 1] = p
           /\ Begun(Filled', filtered + 1)
      /\ \A b \in Fb : Good(fbs'[b])
  <2>1. CASE fbs[cur].ref
    BY <1>3, <2>1 DEF FilterBuffer, InUse, FramePart
  <2>2. CASE ~fbs[cur].ref
    <3>1. /\ filtered \in Nat /\ config.room \in Nat /\ Good(fbs[cur]) /\ Begun(Filled, filtered)
          /\ IsBuffer(fbs[cur])
      BY <1>2, <2>2, Constants DEF FramePart, PipeType, CameraType, Buffers
    <3>2. p.line = filtered + 1 /\ (filtered > 0 => p.frame = Filled[1].frame)
      BY <1>1, <1>2, <1>p, <2>2 DEF Fits
    <3>3. ~InUse /\ ~NoRoom /\ ~(filtered = 0 /\ ~Header)
      BY <1>2, <1>p, <2>2, <3>1, <3>2 DEF InUse, NoRoom, Header, Good
    <3>4. fbs' = Written(cur) /\ filtered' = filtered + 1
      BY <3>3 DEF FilterBuffer
    <3>5. PICK q : q = Extended(Filled, filtered, p)
      OBVIOUS
    <3>6. q \in Seq(Piece) /\ Begun(q, filtered + 1) /\ q[filtered + 1] = p /\ q[1].frame = p.frame
      <4>1. PICK d : d = Filled
        OBVIOUS
      <4>2. d \in Seq(Piece) /\ Begun(d, filtered) /\ (filtered > 0 => p.frame = d[1].frame)
        BY <3>1, <3>2, <4>1 DEF Good, Filled
      <4>3. q = Extended(d, filtered, p)
        BY <3>5, <4>1
      <4> QED
        BY <1>2, <3>1, <3>2, <4>2, <4>3, OneMore
    <3>7. PICK r : r = [fbs[cur] EXCEPT !.data = q]
      OBVIOUS
    <3>8. Fields(r, fbs[cur].ref, fbs[cur].bad, fbs[cur].len, q)
      BY <3>1, <3>7, Edited
    <3>9. fbs' = [fbs EXCEPT ![cur] = r]
      BY <1>p, <3>4, <3>5, <3>7 DEF Written, Filled, Extended, CameraType, Buffers
    <3>10. /\ fbs'[cur] = r /\ \A b \in Fb : b # cur => fbs'[b] = fbs[b]
      BY <3>9 DEF CameraType, Buffers
    <3>11. Good(r) /\ Filled' = q
      BY <1>1, <2>2, <3>1, <3>6, <3>8, <3>10 DEF Good, Fields, Filled
    <3>12. \A b \in Fb : Good(fbs'[b])
      BY <3>10, <3>11 DEF FramePart
    <3> QED
      BY <2>2, <3>2, <3>4, <3>6, <3>8, <3>10, <3>11, <3>12 DEF Fields
  <2> QED
    BY <2>1, <2>2
<1>5. ASSUME NEW k \in 1 .. n
      PROVE  Item(k)' = Item(k) /\ Item(k) \in Desc \cup {End}
  BY <1>1, <1>n, <1>5 DEF Item, FramePart, PipeType
<1>6. Item(0)' = None /\ Item(0) = filter
  BY <1>1 DEF Item
<1>7. ASSUME NEW e, Follows(filter, e)
      PROVE  Fits(e)'
  <2>1. CASE fbs[cur].ref
    BY <1>1, <1>4, <2>1 DEF Fits
  <2>2. CASE ~fbs[cur].ref
    <3>1. e \in Desc => dma[e].line = p.line + 1 /\ dma[e].frame = p.frame
      BY <1>1, <1>7, <1>p DEF Follows
    <3>2. e = End => p.last
      BY <1>1, <1>7, <1>p DEF Follows
    <3>3. filtered \in Nat
      BY DEF FramePart, PipeType
    <3> QED
      BY <1>1, <1>3, <1>4, <2>2, <3>1, <3>2, <3>3 DEF Fits
  <2> QED
    BY <2>1, <2>2
<1>8. Stream'
  <2>1. ASSUME NEW k \in 1 .. n
        PROVE  Follows(Item(k - 1), Item(k))'
    <3>1. PICK e : e = Item(k)
      OBVIOUS
    <3>2. Follows(Item(k - 1), e) /\ Item(k)' = e
      BY <1>n, <1>5, <2>1, <3>1 DEF FramePart, Stream
    <3>3. CASE k = 1
      <4>1. Follows(filter, e) /\ Item(k - 1)' = None
        BY <1>6, <3>2, <3>3
      <4>2. Fits(e)'
        BY <1>7, <4>1
      <4> QED
        BY <3>2, <4>1, <4>2, Kinds, <1>3 DEF Follows, Fits, Filled
    <3>4. CASE k > 1
      <4>1. PICK d : d = Item(k - 1)
        OBVIOUS
      <4>2. Item(k - 1)' = d /\ d # None
        <5>1. k - 1 \in 1 .. n
          BY <2>1, <3>4
        <5> QED
          BY <1>5, <4>1, <5>1, Kinds
      <4> QED
        BY <1>1, <1>3, <3>2, <4>1, <4>2 DEF Follows
    <3> QED
      BY <3>3, <3>4
  <2>2. Latest(Item(Len(ready)))'
    <3>1. Latest(Item(n)) /\ Len(ready') = n
      BY <1>1, <1>n DEF FramePart, Stream
    <3>2. CASE n > 0
      <4>1. PICK z : z = Item(n)
        OBVIOUS
      <4>2. Item(n)' = z /\ z # None
        BY <1>5, <3>2, <4>1, Kinds
      <4> QED
        BY <1>1, <1>3, <3>1, <4>1, <4>2 DEF Latest
    <3>3. CASE n = 0
      <4>1. Midway /\ p.line = sensor.line /\ p.frame = sensor.frame
        BY <1>1, <1>6, <1>p, <3>1, <3>3 DEF Latest
      <4>2. Item(Len(ready))' = None
        BY <1>6, <3>1, <3>3
      <4> QED
        BY <1>1, <1>3, <1>4, <4>1, <4>2, Kinds DEF Latest
    <3> QED
      BY <3>2, <3>3
  <2>3. ASSUME NEW k \in 0 .. n, Item(k)' \in Desc
        PROVE  dma'[Item(k)'].line \in 1 .. config.room /\ Within(k)'
    <3>1. k # 0
      BY <1>6, <2>3, Kinds
    <3>2. Item(k)' = Item(k) /\ k \in 0 .. Len(ready)
      BY <1>5, <1>n, <2>3, <3>1
    <3> QED
      BY <1>1, <2>3, <3>2 DEF FramePart, Stream, Within, Beyond
  <2> QED
    BY <1>1, <1>3, <1>n, <2>1, <2>2, <2>3 DEF Stream
<1>9. PipeType'
  <2>1. filtered' \in Nat
    BY <1>4 DEF FramePart, PipeType
  <2> QED
    BY <1>1, <1>3, <2>1 DEF FramePart, PipeType
<1>10. Pace'
  <2>1. bus.rx
    BY <1>2 DEF FramePart, Pace
  <2> QED
    BY <1>1, <1>3, <2>1 DEF FramePart, Pace
<1>11. (\A b \in Fb : Good(fbs[b]))'
  BY <1>3, <1>4
<1>12. (filter # Closing /\ ~fbs[cur].ref => Begun(Filled, filtered))'
  BY <1>1, <1>4
<1> QED
  BY <1>8, <1>9, <1>10, <1>11, <1>12 DEF FramePart

----------------------------------------------------------------------------
(* A frame is finished.                                                    *)

LEMMA GoodGivenUp ==
  ASSUME NEW f, Buffers(f), \A b \in Fb : Good(f[b]), NEW popped
  PROVE  Buffers(GivenUp(f, popped)) /\ \A b \in Fb : Good(GivenUp(f, popped)[b])
<1>1. ASSUME NEW b \in Fb, b \in popped
      PROVE  Good(GivenUp(f, popped)[b])
  <2> PICK r : r = GivenUp(f, popped)[b]
    OBVIOUS
  <2>1. r = [f[b] EXCEPT !.ref = FALSE, !.len = 0, !.data = <<>>]
    BY <1>1 DEF GivenUp
  <2>2. IsBuffer(f[b]) /\ f[b].bad = FALSE
    BY DEF Buffers, Good
  <2>3. Fields(r, FALSE, FALSE, 0, <<>>)
    BY <2>1, <2>2 DEF Fields, IsBuffer
  <2> QED
    BY <2>3 DEF Good, Fields
<1> QED
  BY <1>1, GivenUpFacts

\* camera_fb_done
LEMMA GoodDone ==
  ASSUME config \in Configs, cur \in Fb, ~Single, NEW f, Buffers(f), FbDone(f),
         \A b \in Fb : Good(f[b]), f[cur].len > 0 => Whole(f[cur])
  PROVE  cur' \in Fb /\ \A b \in Fb : Good(fbs'[b])
<1> DEFINE new      == ~f[cur].ref /\ f[cur].len > 0
           raised   == [f EXCEPT ![cur].ref = TRUE]
           offered  == IF new THEN GivenUp(raised, Range1(fbOut)) ELSE f
           returned == Reclaimed(offered)
           from     == IF returned[cur].len > 0 THEN Next1(cur) ELSE cur
           next     == NextFree(returned, from, cur)
<1>1. /\ cur' = next
      /\ fbs' = IF returned[next].ref THEN returned
                ELSE [returned EXCEPT ![next].len = 0, ![next].data = <<>>]
  BY DEF FbDone
<1>2. next \in Fb
  <2>1. from \in Fb
    BY ConfigFacts DEF Next1, Fb
  <2> HIDE DEF from, returned
  <2> QED
    BY <2>1, NextFreeIn
<1>3. new => Buffers(raised) /\ \A b \in Fb : Good(raised[b])
  <2> PICK r : r = [f[cur] EXCEPT !.ref = TRUE]
    OBVIOUS
  <2>1. IsBuffer(r) /\ Fields(r, TRUE, f[cur].bad, f[cur].len, f[cur].data)
    BY Edited DEF Buffers
  <2>2. raised = [f EXCEPT ![cur] = r]
    BY DEF Buffers
  <2>3. new => Good(r)
    BY <2>1 DEF Good, Whole, Fields
  <2> HIDE DEF raised, new
  <2> QED
    BY <2>1, <2>2, <2>3 DEF Buffers
<1>4. Buffers(offered) /\ \A b \in Fb : Good(offered[b])
  <2> HIDE DEF raised, new
  <2> QED
    BY <1>3, GoodGivenUp
<1> HIDE DEF offered
<1>5. Buffers(returned) /\ \A b \in Fb : Good(returned[b])
  BY <1>4, GoodGivenUp DEF Reclaimed
<1> HIDE DEF returned, next
<1>6. ASSUME ~returned[next].ref
      PROVE  \A b \in Fb : Good(fbs'[b])
  <2> PICK r : r = [[returned[next] EXCEPT !.len = 0] EXCEPT !.data = <<>>]
    OBVIOUS
  <2>1. IsBuffer(returned[next]) /\ returned[next].bad = FALSE
    BY <1>2, <1>5 DEF Buffers, Good
  <2>2. Fields(r, FALSE, FALSE, 0, <<>>)
    BY <1>6, <2>1 DEF Fields, IsBuffer
  <2>3. Good(r)
    BY <2>2 DEF Good, Fields
  <2>4. fbs' = [returned EXCEPT ![next] = r]
    BY <1>1, <1>6
  <2> QED
    BY <1>2, <1>5, <2>3, <2>4 DEF Buffers
<1> QED
  BY <1>1, <1>2, <1>5, <1>6

LEMMA WholeLength ==
  ASSUME filtered \in Nat, filtered > 0, Filled[filtered].last
  PROVE  Length = filtered
<1> DEFINE marks == {k \in 1 .. filtered : fbs[cur].data[k].last}
<1>1. filtered \in marks /\ \A j \in marks : j <= filtered
  BY DEF Filled
<1>2. \A k \in marks : (\A j \in marks : j <= k) => k = filtered
  BY <1>1
<1> HIDE DEF marks
<1>3. (CHOOSE k \in marks : \A j \in marks : j <= k) = filtered
  BY <1>1, <1>2
<1> QED
  BY <1>3 DEF Length, marks

LEMMA Shortened ==
  ASSUME NEW d \in Seq(Piece), NEW m \in Nat, Begun(d, m), m > 0, d[m].last
  PROVE  /\ SubSeq(d, 1, m) \in Seq(Piece) /\ Begun(SubSeq(d, 1, m), m)
         /\ SubSeq(d, 1, m)[m].last
<1>1. /\ SubSeq(d, 1, m) \in Seq(Piece) /\ Len(SubSeq(d, 1, m)) = m
      /\ \A k \in 1 .. m : SubSeq(d, 1, m)[k] = d[k]
  BY DEF Begun
<1>2. 1 \in 1 .. m /\ m \in 1 .. m
  OBVIOUS
<1> PICK q : q = SubSeq(d, 1, m)
  OBVIOUS
<1> QED
  BY <1>1, <1>2 DEF Begun

\* dma_finish_frame leaves whole photos in the buffers.
LEMMA GoodFinish ==
  ASSUME CameraInv, Steady, FramePart, FinishFrame
  PROVE  cur' \in Fb /\ UNCHANGED bus /\ \A b \in Fb : Good(fbs'[b])
<1> DEFINE cut == [fbs EXCEPT ![cur].len = Length, ![cur].data = SubSeq(@, 1, Length)]
<1>1. /\ config \in Configs /\ cur \in Fb /\ ~Single /\ Buffers(fbs) /\ IsBuffer(fbs[cur])
      /\ \A b \in Fb : Good(fbs[b])
  BY DEF CameraInv, CameraType, Steady, FramePart, Buffers
<1>2. filter = End /\ filter # None /\ filter # Closing /\ filtered \in Nat
  BY <1>1, Kinds DEF FinishFrame, FramePart, PipeType
<1>3. ~fbs[cur].ref => Begun(Filled, filtered) /\ (filtered > 0 => Filled[filtered].last)
  BY <1>2 DEF FramePart, Stream, Fits
<1>4. CASE fbs[cur].ref /\ fbs[cur].len > 0
  <2>1. FbDone(fbs) /\ UNCHANGED bus
    BY <1>4 DEF FinishFrame
  <2>2. Whole(fbs[cur])
    BY <1>1, <1>4 DEF Good
  <2> QED
    BY <1>1, <2>1, <2>2, GoodDone
<1>5. CASE ~fbs[cur].ref /\ ~fbs[cur].bad /\ filtered > 0
  <2>1. FbDone(cut) /\ UNCHANGED bus
    BY <1>5 DEF FinishFrame
  <2>2. Length = filtered
    BY <1>2, <1>3, <1>5, WholeLength
  <2>3. PICK d : d = SubSeq(Filled, 1, filtered)
    OBVIOUS
  <2>4. d \in Seq(Piece) /\ Begun(d, filtered) /\ d[filtered].last
    <3>1. PICK w : w = Filled
      OBVIOUS
    <3>2. w \in Seq(Piece) /\ Begun(w, filtered) /\ w[filtered].last
      BY <1>1, <1>3, <1>5, <3>1 DEF Good, Filled
    <3> QED
      BY <1>2, <1>5, <2>3, <3>1, <3>2, Shortened
  <2>5. PICK r : r = [[fbs[cur] EXCEPT !.len = filtered] EXCEPT !.data = d]
    OBVIOUS
  <2>6. IsBuffer(r) /\ Fields(r, FALSE, FALSE, filtered, d)
    <3>1. PICK s : s = [fbs[cur] EXCEPT !.len = filtered]
      OBVIOUS
    <3>2. IsBuffer(s) /\ Fields(s, fbs[cur].ref, fbs[cur].bad, filtered, fbs[cur].data)
      BY <1>1, <3>1, Edited
    <3>3. r = [s EXCEPT !.data = d]
      BY <2>5, <3>1
    <3>4. IsBuffer(r) /\ Fields(r, s.ref, s.bad, s.len, d)
      BY <3>2, <3>3, Edited
    <3>5. fbs[cur].ref = FALSE /\ fbs[cur].bad = FALSE
      BY <1>1, <1>5 DEF IsBuffer, Good
    <3> QED
      BY <3>2, <3>4, <3>5 DEF Fields
  <2>7. cut = [fbs EXCEPT ![cur] = r]
    BY <1>1, <2>2, <2>3, <2>5 DEF Buffers, Filled
  <2>8. Good(r) /\ Whole(r)
    BY <1>2, <1>5, <2>4, <2>6 DEF Good, Whole, Fields
  <2> HIDE DEF cut
  <2>9. Buffers(cut) /\ cut[cur] = r /\ \A b \in Fb : Good(cut[b])
    BY <1>1, <2>6, <2>7, <2>8 DEF Buffers
  <2> QED
    BY <1>1, <2>1, <2>8, <2>9, GoodDone
<1>6. CASE /\ ~(fbs[cur].ref /\ fbs[cur].len > 0)
           /\ ~(~fbs[cur].ref /\ ~fbs[cur].bad /\ filtered > 0)
  <2>1. /\ fbs' = IF fbs[cur].ref THEN fbs
                  ELSE [fbs EXCEPT ![cur].bad = FALSE, ![cur].len = 0, ![cur].data = <<>>]
        /\ bus' = bus /\ cur' = cur
    BY <1>1, <1>6 DEF FinishFrame
  <2>2. CASE fbs[cur].ref
    BY <1>1, <2>1, <2>2
  <2>3. CASE ~fbs[cur].ref
    <3> PICK r : r = [fbs[cur] EXCEPT !.bad = FALSE, !.len = 0, !.data = <<>>]
      OBVIOUS
    <3>1. Fields(r, FALSE, FALSE, 0, <<>>)
      BY <1>1, <2>3 DEF Fields, IsBuffer
    <3>2. fbs' = [fbs EXCEPT ![cur] = r]
      BY <1>1, <2>1, <2>3 DEF Buffers
    <3>3. Good(r)
      BY <3>1 DEF Good, Fields
    <3> QED
      BY <1>1, <2>1, <3>2, <3>3 DEF Buffers
  <2> QED
    BY <2>2, <2>3
<1> QED
  BY <1>4, <1>5, <1>6

\* What waits in the queue is the same while the task ends a frame: only its
\* first item is judged by what the task has in hands.
LEMMA QueueStream ==
  ASSUME config \in Configs, FramePart, UNCHANGED <<config, bus, dma, ready, sensor>>,
         filter \notin Desc, filter' \in {None, Closing},
         filter' = None => filter = Closing /\ filtered' = 0,
         filter' = Closing => filter \in {End, Closing}
  PROVE  Stream'
<1>n. PICK n \in Nat : n = Len(ready)
  BY Items DEF FramePart
<1>1. Desc' = Desc /\ (Midway' <=> Midway) /\ filter' \notin Desc
  BY Kinds DEF Desc, Midway
<1>2. filter \in {End, Closing} /\ Item(0) = filter /\ Item(0)' = filter'
  BY DEF Item
<1>3. ASSUME NEW k \in 1 .. n
      PROVE  Item(k)' = Item(k) /\ Item(k) \in Desc \cup {End}
  BY <1>n, <1>3 DEF Item, FramePart, PipeType
<1>4. filter' # None => Fits(filter)'
  BY <1>1, Kinds DEF Fits
<1>5. ASSUME NEW k \in 1 .. n
      PROVE  Follows(Item(k - 1), Item(k))'
  <2>1. PICK e : e = Item(k)
    OBVIOUS
  <2>2. Follows(Item(k - 1), e) /\ Item(k)' = e /\ e \in Desc \cup {End}
    BY <1>n, <1>3, <1>5, <2>1 DEF FramePart, Stream
  <2>3. CASE k = 1
    <3>1. e \in Desc => dma[e].line = 1
      BY <1>2, <2>2, <2>3 DEF Follows
    <3>2. Item(k - 1)' = filter'
      BY <1>2, <2>3
    <3>3. CASE filter' = None
      <4>1. filtered' = 0
        BY <3>3
      <4>2. Fits(e)'
        BY <1>1, <3>1, <4>1, Kinds DEF Fits
      <4> QED
        BY <1>1, <2>2, <3>2, <3>3, <4>2, Kinds DEF Follows, Fits, Filled
    <3>4. CASE filter' = Closing
      BY <1>1, <2>2, <3>1, <3>2, <3>4, Kinds DEF Follows
    <3> QED
      BY <3>3, <3>4
  <2>4. CASE k > 1
    <3>1. PICK d : d = Item(k - 1)
      OBVIOUS
    <3>2. Item(k - 1)' = d /\ d # None
      <4>1. k - 1 \in 1 .. n
        BY <1>5, <2>4
      <4> QED
        BY <1>3, <3>1, <4>1, Kinds
    <3> QED
      BY <1>1, <2>2, <3>1, <3>2 DEF Follows
  <2> QED
    BY <2>3, <2>4
<1>6. Latest(Item(Len(ready)))'
  <2>1. Latest(Item(n)) /\ Len(ready') = n
    BY <1>n DEF FramePart, Stream
  <2>2. CASE n > 0
    <3>1. PICK z : z = Item(n)
      OBVIOUS
    <3>2. Item(n)' = z /\ z # None
      BY <1>3, <2>2, <3>1, Kinds
    <3> QED
      BY <1>1, <2>1, <3>1, <3>2 DEF Latest
  <2>3. CASE n = 0
    <3>1. ~Midway
      BY <1>2, <2>1, <2>3 DEF Latest
    <3>2. Item(Len(ready))' = filter'
      BY <1>2, <2>1, <2>3
    <3> QED
      BY <1>1, <3>1, <3>2, Kinds DEF Latest
  <2> QED
    BY <2>2, <2>3
<1>7. ASSUME NEW k \in 0 .. n, Item(k)' \in Desc
      PROVE  dma'[Item(k)'].line \in 1 .. config.room /\ Within(k)'
  <2>1. k # 0
    BY <1>1, <1>2, <1>7
  <2>2. Item(k)' = Item(k) /\ k \in 0 .. Len(ready)
    BY <1>3, <1>n, <1>7, <2>1
  <2> QED
    BY <1>7, <2>2 DEF FramePart, Stream, Within, Beyond
<1> QED
  BY <1>1, <1>n, <1>4, <1>5, <1>6, <1>7 DEF Stream

\* dma_finish_frame
LEMMA FinishPart ==
  ASSUME CameraInv, Steady, FramePart, FinishFrame
  PROVE  FramePart'
<1>1. /\ UNCHANGED <<config, filtered, dma, ready, sensor, task>>
      /\ filter = End /\ filter' = Closing /\ config \in Configs
  BY DEF FinishFrame, CameraInv, CameraType
<1>2. cur' \in Fb /\ UNCHANGED bus /\ \A b \in Fb : Good(fbs'[b])
  BY GoodFinish
<1>3. Fb' = Fb /\ Desc' = Desc /\ (Midway' <=> Midway)
  BY <1>1, <1>2 DEF Fb, Desc, Midway
<1>4. Stream'
  BY <1>1, <1>2, Kinds, QueueStream
<1>5. PipeType'
  BY <1>1, <1>2, <1>3 DEF FramePart, PipeType
<1>6. Pace'
  <2>1. bus.rx
    BY <1>1, Kinds DEF FramePart, Pace
  <2> QED
    BY <1>1, <1>2, <1>3, <2>1 DEF FramePart, Pace
<1>7. (\A b \in Fb : Good(fbs[b]))'
  BY <1>2, <1>3
<1> QED
  BY <1>1, <1>4, <1>5, <1>6, <1>7 DEF FramePart

\* the last assignment of dma_finish_frame
LEMMA ClosePart ==
  ASSUME CameraType, FramePart, Close
  PROVE  FramePart'
<1>1. /\ UNCHANGED <<config, fbs, cur, bus, dma, ready, sensor, task>>
      /\ filter = Closing /\ filter' = None /\ filtered' = 0
      /\ config \in Configs /\ cur \in Fb
  BY DEF Close, CameraType
<1>2. Fb' = Fb /\ Desc' = Desc /\ (Midway' <=> Midway)
  BY <1>1 DEF Fb, Desc, Midway
<1>3. Stream'
  BY <1>1, Kinds, QueueStream
<1>4. PipeType'
  BY <1>1, <1>2 DEF FramePart, PipeType
<1>5. Pace'
  <2>1. bus.rx
    BY <1>1, Kinds DEF FramePart, Pace
  <2> QED
    BY <1>1, <1>2, <2>1 DEF FramePart, Pace
<1>6. (\A b \in Fb : Good(fbs[b]))'
  BY <1>1, <1>2 DEF FramePart
<1>7. Begun(Filled, filtered)'
  <2> PICK d : d = Filled
    OBVIOUS
  <2>1. Len(d) \in Nat /\ Filled' = d
    BY <1>1 DEF FramePart, Good, Filled
  <2>2. Begun(d, 0)
    BY <2>1 DEF Begun
  <2> QED
    BY <1>1, <2>1, <2>2
<1> QED
  BY <1>1, <1>3, <1>4, <1>5, <1>6, <1>7 DEF FramePart

----------------------------------------------------------------------------
(* The tasks.                                                              *)

\* Only tasks go on, and none of them begins to start the bus.
LEMMA TasksPart ==
  ASSUME FramePart,
         UNCHANGED <<config, fbs, cur, filtered, bus, dma, ready, filter, sensor>>,
         \A t \in config.tasks : task'[t].at = "run" => task[t].at = "run"
  PROVE  FramePart'
<1>1. Desc' = Desc /\ (Midway' <=> Midway)
  BY DEF Desc, Midway
<1>2. Stream'
  BY <1>1, SameStream
<1>3. PipeType'
  BY <1>1 DEF FramePart, PipeType
<1>4. Pace'
  BY <1>1 DEF FramePart, Pace
<1> QED
  BY <1>2, <1>3, <1>4, Buffered DEF FramePart

\* esp_camera_fb_get
LEMMA GetPart ==
  ASSUME CameraType, Steady, FramePart, NEW t \in config.tasks, FbGet(t)
  PROVE  FramePart'
<1>1. /\ UNCHANGED <<config, fbs, filtered, bus, ready, filter, sensor>>
      /\ config \in Configs /\ cur \in Fb /\ ~Single
  BY DEF FbGet, CameraType, Steady
<1>2. CASE bus.rx
  <2>1. Goes(t, "wait", 0) /\ UNCHANGED <<dma, cur>>
    BY <1>2 DEF FbGet
  <2>2. \A u \in config.tasks : task'[u].at = "run" => task[u].at = "run"
    BY <2>1 DEF Goes, CameraType
  <2> QED
    BY <1>1, <2>1, <2>2, TasksPart
<1>3. CASE ~bus.rx
  <2>1. /\ dma' = [d \in DOMAIN dma |-> Zero]
        /\ cur' = NextFree(fbs, cur, cur)
    BY <1>1, <1>3 DEF FbGet
  <2>2. cur' \in Fb
    BY <1>1, <2>1, NextFreeIn
  <2>3. Fb' = Fb /\ Desc' = Desc /\ ~Midway /\ ~Midway'
    BY <1>1, <1>3 DEF Fb, Desc, Midway
  <2>4. ready = <<>> /\ filter = None /\ filtered = 0
    <3>1. ready = <<>> /\ filter = None
      BY <1>3 DEF FramePart, Pace
    <3>2. Latest(Item(0))
      BY <3>1 DEF FramePart, Stream
    <3> QED
      BY <2>3, <3>1, <3>2 DEF Latest, Item
  <2>5. Stream'
    <3>1. Len(ready') = 0 /\ Item(0)' = None /\ filter' = None
      BY <1>1, <2>4 DEF Item
    <3>2. Latest(Item(Len(ready)))'
      BY <1>1, <2>3, <2>4, <3>1, Kinds DEF Latest
    <3> QED
      BY <1>1, <2>3, <3>1, <3>2, Kinds DEF Stream
  <2>6. PipeType'
    <3>1. Zero \in Piece
      BY DEF Zero, Piece
    <3>2. dma' \in [Desc -> Piece]
      BY <2>1, <3>1 DEF FramePart, PipeType
    <3> QED
      BY <1>1, <2>3, <3>2 DEF FramePart, PipeType
  <2>7. Pace'
    BY <1>1, <1>3, <2>4 DEF FramePart, Pace
  <2>8. (\A b \in Fb : Good(fbs[b]))'
    BY <1>1, <2>3 DEF FramePart
  <2>9. Begun(Filled, filtered)'
    <3> PICK d : d = fbs[cur'].data
      OBVIOUS
    <3>1. Len(d) \in Nat /\ Filled' = d
      BY <1>1, <2>2 DEF FramePart, Good, Filled
    <3>2. Begun(d, 0)
      BY <3>1 DEF Begun
    <3> QED
      BY <1>1, <2>4, <3>1, <3>2
  <2> QED
    BY <1>1, <2>4, <2>5, <2>6, <2>7, <2>8, <2>9 DEF FramePart
<1> QED
  BY <1>2, <1>3

\* i2s_run: while the bus is off nothing is on its way, and a bus that another
\* task started is started again only if the driver's task is hardly behind.
LEMMA RunPart ==
  ASSUME CameraType, Steady, FramePart, NEW t \in config.tasks, Run(t)
  PROVE  FramePart'
<1>1. /\ UNCHANGED <<config, fbs, cur, filtered, dma, ready, filter, sensor>>
      /\ config \in Configs /\ ~sensor.active /\ task[t].at = "run"
      /\ bus' = [rx |-> TRUE, vsync |-> bus.vsync \/ config.jpeg, desc |-> 0, received |-> 0]
  BY DEF Run, StartBus, CameraType
<1>2. Fb' = Fb /\ Desc' = Desc /\ ~Midway /\ ~Midway'
  BY <1>1 DEF Fb, Desc, Midway
<1>n. PICK n \in Nat : n = Len(ready)
  BY <1>1, Items DEF FramePart
<1>3. /\ config.jpeg \in BOOLEAN /\ 0 \in Desc
      /\ config.lag \in Nat
  BY <1>1, Constants DEF Desc
<1>4. bus.rx => config.lag <= 1
  BY <1>1, <1>3 DEF FramePart, Pace
<1>5. ASSUME NEW k \in 0 .. n, Item(k) \in Desc
      PROVE  dma[Item(k)].line \in 1 .. config.room /\ config.lag <= 1 /\ k < n
  <2>1. dma[Item(k)].line \in 1 .. config.room
    BY <1>5, <1>n DEF FramePart, Stream
  <2>2. bus.rx
    <3> SUFFICES ASSUME ~bus.rx
                 PROVE  FALSE
      OBVIOUS
    <3>1. ready = <<>> /\ filter = None
      BY DEF FramePart, Pace
    <3>2. k = 0 /\ Item(k) = None
      BY <1>5, <1>n, <3>1 DEF Item
    <3> QED
      BY <1>1, <1>5, <3>2, Kinds
  <2>3. k # n
    BY <1>2, <1>5, <1>n DEF FramePart, Stream, Latest
  <2> QED
    BY <1>4, <1>5, <2>1, <2>2, <2>3
<1>6. Stream'
  <2>1. \A k : Item(k)' = Item(k)
    BY <1>1 DEF Item
  <2>2. \A e : Fits(e)' <=> Fits(e)
    BY <1>1, <1>2 DEF Fits, Filled
  <2>3. \A d, e : Follows(d, e)' <=> Follows(d, e)
    BY <1>1, <1>2, <2>2 DEF Follows
  <2>4. \A z : Latest(z) => Latest(z)'
    BY <1>1, <1>2 DEF Latest, Filled
  <2>5. ASSUME NEW k \in 0 .. n, Item(k)' \in Desc
        PROVE  dma'[Item(k)'].line \in 1 .. config.room /\ Within(k)'
    BY <1>1, <1>5, <1>n, <2>1, <2>5 DEF Within
  <2> QED
    BY <1>1, <1>2, <1>n, <2>1, <2>2, <2>3, <2>4, <2>5 DEF FramePart, Stream
<1>7. PipeType'
  BY <1>1, <1>2, <1>3 DEF FramePart, PipeType
<1>8. Pace'
  <2>1. ASSUME config.lag > 1, NEW u \in config.tasks
        PROVE  task'[u].at # "run"
    <3>1. u = t
      BY <1>3, <2>1 DEF Steady
    <3> QED
      BY <3>1 DEF Run, Goes, CameraType
  <2> QED
    BY <1>1, <1>2, <2>1 DEF Pace
<1>9. /\ (\A b \in Fb : Good(fbs[b]))'
      /\ (filter # Closing /\ ~fbs[cur].ref => Begun(Filled, filtered))'
  BY <1>1, Buffered
<1> QED
  BY <1>6, <1>7, <1>8, <1>9 DEF FramePart

----------------------------------------------------------------------------
LEMMA FrameInvInit ==
  ASSUME Init
  PROVE  FrameInv
<1>1. timeouts \in Nat /\ config \in Configs
  BY DEF Init
<1>2. /\ ready = <<>> /\ filter = None /\ filtered = 0 /\ Len(ready) = 0
      /\ bus = [rx |-> FALSE, vsync |-> FALSE, desc |-> 0, received |-> 0]
  BY DEF Init
<1>3. ~Midway /\ Item(0) = None
  BY <1>2 DEF Midway, Item
<1>4. PipeType
  <2>1. 0 \in Desc
    BY <1>1, Constants DEF Desc
  <2>2. dma \in [Desc -> Piece]
    BY DEF Init, Desc, Zero, Piece
  <2>3. sensor \in [active : BOOLEAN, frame : Nat, line : Nat, lines : Nat] /\ ~sensor.active
    BY DEF Init
  <2> QED
    BY <1>2, <2>1, <2>2, <2>3 DEF PipeType
<1>5. Stream
  BY <1>1, <1>2, <1>3, Kinds DEF Stream, Latest
<1>6. Pace
  BY <1>2 DEF Pace
<1>7. \A b \in Fb : Good(fbs[b])
  <2> SUFFICES ASSUME NEW b \in Fb
               PROVE  Good(fbs[b])
    OBVIOUS
  <2>1. fbs[b] = [ref |-> FALSE, bad |-> FALSE, len |-> 0, data |-> <<>>]
    BY DEF Init
  <2>2. Fields(fbs[b], FALSE, FALSE, 0, <<>>)
    BY <2>1 DEF Fields
  <2> QED
    BY <2>2 DEF Good, Fields
<1>8. Begun(Filled, filtered)
  <2> PICK d : d = Filled
    OBVIOUS
  <2>1. cur \in Fb
    BY <1>1, ConfigFacts DEF Init, Fb
  <2>2. Len(d) \in Nat
    BY <1>7, <2>1 DEF Good, Filled
  <2>3. Begun(d, 0)
    BY <2>2 DEF Begun
  <2> QED
    BY <1>2, <2>3
<1> QED
  BY <1>1, <1>4, <1>5, <1>6, <1>7, <1>8 DEF FrameInv, FramePart

LEMMA FrameStep ==
  ASSUME CameraInv, FrameInv, [Next]_vars
  PROVE  FrameInv'
<1>1. /\ UNCHANGED config
      /\ \/ timeouts' = timeouts
         \/ timeouts' = timeouts + 1
  <2>1. CASE \/ \E n \in config.lines : SensorStart(n)
             \/ SensorLine \/ SensorEnd \/ Take \/ FilterBuffer \/ FinishFrame \/ Close
    BY <2>1 DEF SensorStart, SensorLine, SensorEnd, Take, FilterBuffer, FinishFrame, Close
  <2>2. ASSUME NEW t \in config.tasks, FbGet(t) \/ Run(t) \/ FbGot(t) \/ FbReturn(t)
        PROVE  UNCHANGED <<config, timeouts>>
    BY <2>2 DEF FbGet, Run, FbGot, FbReturn
  <2>3. ASSUME NEW t \in config.tasks, RunTimeout(t) \/ FbTimeout(t)
        PROVE  UNCHANGED config /\ timeouts' = timeouts + 1
    BY <2>3 DEF RunTimeout, FbTimeout
  <2>4. CASE UNCHANGED vars
    BY <2>4 DEF vars
  <2> QED
    BY <2>1, <2>2, <2>3, <2>4 DEF Next
<1>2. timeouts' \in Nat /\ (Steady' <=> Steady)
  BY <1>1, SteadySame DEF FrameInv
<1> SUFFICES ASSUME Steady, timeouts' = 0
             PROVE  FramePart'
  BY <1>2 DEF FrameInv
<1>3. timeouts = 0 /\ timeouts' = timeouts
  BY <1>1 DEF FrameInv
<1>4. FramePart /\ CameraType /\ config \in Configs
  BY <1>3 DEF FrameInv, CameraInv, CameraType
<1>5. CASE \E n \in config.lines : SensorStart(n)
  BY <1>4, <1>5, StartPart
<1>6. CASE SensorLine
  <2>1. CASE bus.rx
    BY <1>4, <1>6, <2>1, LinePart
  <2>2. CASE ~bus.rx
    BY <1>4, <1>6, <2>2, UnheardPart
  <2> QED
    BY <2>1, <2>2
<1>7. CASE SensorEnd
  <2>1. CASE bus.vsync
    BY <1>4, <1>7, <2>1, EndPart
  <2>2. CASE ~bus.vsync
    BY <1>4, <1>7, <2>2, UnheardPart
  <2> QED
    BY <2>1, <2>2
<1>8. CASE Take
  BY <1>4, <1>8, TakePart
<1>9. CASE FilterBuffer
  BY <1>4, <1>9, FilterPart
<1>10. CASE FinishFrame
  BY <1>4, <1>10, FinishPart
<1>11. CASE Close
  BY <1>4, <1>11, ClosePart
<1>12. ASSUME NEW t \in config.tasks, FbGet(t)
       PROVE  FramePart'
  BY <1>4, <1>12, GetPart
<1>13. ASSUME NEW t \in config.tasks, Run(t)
       PROVE  FramePart'
  BY <1>4, <1>13, RunPart
<1>14. ASSUME NEW t \in config.tasks, FbGot(t) \/ FbReturn(t)
       PROVE  FramePart'
  <2>1. UNCHANGED <<config, fbs, cur, filtered, bus, dma, ready, filter, sensor>>
    BY <1>14 DEF FbGot, FbReturn
  <2>2. \E place \in {"held", "idle"} : \E b : Goes(t, place, b)
    BY <1>14 DEF FbGot, FbReturn
  <2>3. \A u \in config.tasks : task'[u].at = "run" => task[u].at = "run"
    BY <1>4, <2>2 DEF Goes, CameraType
  <2> QED
    BY <1>4, <2>1, <2>3, TasksPart
<1>15. ASSUME NEW t \in config.tasks, RunTimeout(t) \/ FbTimeout(t)
       PROVE  FALSE
  BY <1>3, <1>15 DEF RunTimeout, FbTimeout
<1>16. CASE UNCHANGED vars
  <2>1. UNCHANGED <<config, fbs, cur, filtered, bus, dma, ready, filter, sensor, task>>
    BY <1>16 DEF vars, driver
  <2> QED
    BY <1>4, <2>1, TasksPart
<1> QED
  BY <1>5, <1>6, <1>7, <1>8, <1>9, <1>10, <1>11, <1>12, <1>13, <1>14, <1>15, <1>16 DEF Next

\* With several buffers, while no call has timed out and the driver's task is
\* never further behind than there are DMA buffers and places in the queue for,
\* a task gets one photo, from its first line to its last (dma_filter_buffer,
\* dma_finish_frame, i2s_stop).
THEOREM AlwaysOneFrame == Spec => [](Steady /\ timeouts = 0 => OneFrame)
<1>1. Init => CameraInv /\ FrameInv
  BY CameraInvInit, FrameInvInit
<1>2. CameraInv /\ FrameInv /\ [Next]_vars => CameraInv' /\ FrameInv'
  BY CameraStep, FrameStep
<1>3. CameraInv /\ FrameInv => (Steady /\ timeouts = 0 => OneFrame)
  <2> SUFFICES ASSUME CameraInv, FrameInv, Steady, timeouts = 0,
                      NEW t \in config.tasks, task[t].at = "held"
               PROVE  LET f == fbs[task[t].fb]
                      IN /\ \A k \in 1 .. f.len : /\ f.data[k].line = k
                                                  /\ f.data[k].frame = f.data[1].frame
                         /\ f.len > 0
                         /\ f.data[f.len].last \/ timeouts > 0
    BY DEF OneFrame
  <2>1. PICK b : b = task[t].fb
    OBVIOUS
  <2>2. b \in Fb /\ Held(b) # {}
    BY <2>1 DEF CameraInv, CameraType, Held
  <2>3. fbs[b].ref
    BY <2>2 DEF CameraInv, Apart, Steady
  <2>4. Whole(fbs[b])
    BY <2>2, <2>3 DEF FrameInv, FramePart, Good
  <2> QED
    BY <2>1, <2>4 DEF Whole, Begun
<1> QED
  BY <1>1, <1>2, <1>3, PTL DEF Spec
=============================================================================
