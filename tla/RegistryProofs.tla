--------------------------- MODULE RegistryProofs ---------------------------
(***************************************************************************)
(* The node list of the root (Registry) for any set of devices, any length *)
(* of the event queues and any number of joins, leaves, losses and breaks. *)
(***************************************************************************)
EXTENDS Registry, SequenceTheorems, WellFoundedInduction, TLAPS

----------------------------------------------------------------------------
(* What deleting from a list leaves.  kept is a recursive function: that   *)
(* there is such a function, and what its values are, is shown for the     *)
(* least number for which it would fail.                                   *)

LEMMA Least ==
  ASSUME NEW S \in SUBSET Nat, S # {}
  PROVE  \E k \in S : \A j \in S : k <= j
<1>1. OpToRel(<, Nat) = {p \in Nat \X Nat : p[1] < p[2]}
  BY Zenon DEF OpToRel
<1>2. PICK R : IsWellFoundedOn(R, Nat) /\ R = {p \in Nat \X Nat : p[1] < p[2]}
  BY <1>1, NatLessThanWellFounded, Zenon
<1>3. PICK k \in S : \A j \in S : ~(<<j, k>> \in R)
  BY <1>2, WFMin, Zenon
<1>4. ASSUME NEW j \in S
      PROVE  k <= j
  <2>1. j \in Nat /\ k \in Nat /\ <<j, k>> \in Nat \X Nat
    OBVIOUS
  <2>2. ~(j < k)
    BY <1>2, <1>3, <2>1
  <2> QED
    BY <2>1, <2>2
<1> QED
  BY <1>4

\* g is what is left of the first elements of l, up to the m-th.
Walk(g, l, keep, m) ==
  g = [n \in 0 .. m |->
         IF n = 0 THEN <<>>
         ELSE IF l[n] \in keep THEN Append(g[n - 1], l[n])
         ELSE g[n - 1]]

LEMMA WalkExists ==
  ASSUME NEW l, NEW keep, NEW m \in Nat
  PROVE  \E g : Walk(g, l, keep, m)
<1> DEFINE bad == {k \in Nat : ~ \E g : Walk(g, l, keep, k)}
<1> SUFFICES ASSUME bad # {}
             PROVE  FALSE
  OBVIOUS
<1>1. PICK k \in bad : \A j \in bad : k <= j
  BY Least
<1>2. k # 0
  <2>1. Walk([n \in 0 .. 0 |-> <<>>], l, keep, 0)
    BY DEF Walk
  <2> QED
    BY <2>1
<1>3. k - 1 \in Nat /\ k - 1 \notin bad
  BY <1>1, <1>2
<1>4. PICK g : Walk(g, l, keep, k - 1)
  BY <1>3
<1> DEFINE more == IF l[k] \in keep THEN Append(g[k - 1], l[k]) ELSE g[k - 1]
           h    == [n \in 0 .. k |-> IF n = k THEN more ELSE g[n]]
<1>5. \A n \in 0 .. k : n # k => n \in 0 .. k - 1
  BY <1>1, <1>2
<1>6. \A n \in 0 .. k :
        h[n] = IF n = 0 THEN <<>>
               ELSE IF l[n] \in keep THEN Append(h[n - 1], l[n])
               ELSE h[n - 1]
  <2> SUFFICES ASSUME NEW n \in 0 .. k
               PROVE  h[n] = IF n = 0 THEN <<>>
                             ELSE IF l[n] \in keep THEN Append(h[n - 1], l[n])
                             ELSE h[n - 1]
    OBVIOUS
  <2>1. CASE n = k
    <3>1. k - 1 \in 0 .. k /\ k - 1 # k
      BY <1>2
    <3>2. h[k - 1] = g[k - 1] /\ h[k] = more
      BY <3>1
    <3> QED
      BY <1>2, <2>1, <3>2
  <2>2. CASE n # k
    <3>1. n \in 0 .. k - 1 /\ h[n] = g[n]
      BY <1>5, <2>2
    <3>2. n # 0 => n - 1 \in 0 .. k /\ n - 1 # k
      BY <2>2
    <3>3. n # 0 => h[n - 1] = g[n - 1]
      BY <3>2
    <3>4. g[n] = IF n = 0 THEN <<>>
                 ELSE IF l[n] \in keep THEN Append(g[n - 1], l[n])
                 ELSE g[n - 1]
      BY <1>4, <3>1 DEF Walk
    <3> QED
      BY <3>1, <3>3, <3>4
  <2> QED
    BY <2>1, <2>2
<1>7. Walk(h, l, keep, k)
  BY <1>6 DEF Walk
<1> QED
  BY <1>7

\* The list that is left: of the same kind, with the devices of keep that were
\* there, and with no device twice that was not there twice.
LEMMA KeptFacts ==
  ASSUME NEW S, NEW l \in Seq(S), NEW keep
  PROVE  /\ Kept(l, keep) \in Seq(S)
         /\ ToSet(Kept(l, keep)) = ToSet(l) \cap keep
         /\ IsInjective(l) => IsInjective(Kept(l, keep))
<1> DEFINE Left(g, n) ==
             /\ g[n] \in Seq(S)
             /\ \A x : (\E i \in 1 .. Len(g[n]) : g[n][i] = x)
                         <=> (\E i \in 1 .. n : l[i] = x /\ x \in keep)
             /\ IsInjective(l) =>
                  \A i, j \in 1 .. Len(g[n]) : g[n][i] = g[n][j] => i = j
<1>1. Len(l) \in Nat
  OBVIOUS
<1>2. PICK g : Walk(g, l, keep, Len(l)) /\ Kept(l, keep) = g[Len(l)]
  <2>1. \E g : Walk(g, l, keep, Len(l))
    BY <1>1, WalkExists
  <2> QED
    BY <2>1 DEF Kept, Walk
<1>3. \A n \in 0 .. Len(l) :
        g[n] = IF n = 0 THEN <<>>
               ELSE IF l[n] \in keep THEN Append(g[n - 1], l[n])
               ELSE g[n - 1]
  BY <1>2 DEF Walk
<1> HIDE DEF Left
<1>4. Left(g, 0)
  <2>1. g[0] = <<>>
    BY <1>1, <1>3
  <2>2. g[0] \in Seq(S) /\ Len(g[0]) = 0
    BY <2>1
  <2> QED
    BY <2>2 DEF Left
<1>5. ASSUME NEW k \in 1 .. Len(l), Left(g, k - 1)
      PROVE  Left(g, k)
  <2> DEFINE q == g[k - 1]
  <2>1. k \in 0 .. Len(l) /\ k # 0 /\ k - 1 \in 0 .. Len(l) /\ l[k] \in S
    OBVIOUS
  <2>2. g[k] = IF l[k] \in keep THEN Append(q, l[k]) ELSE q
    BY <1>3, <2>1
  <2>3. /\ q \in Seq(S)
        /\ \A x : (\E i \in 1 .. Len(q) : q[i] = x)
                    <=> (\E i \in 1 .. k - 1 : l[i] = x /\ x \in keep)
        /\ IsInjective(l) => \A i, j \in 1 .. Len(q) : q[i] = q[j] => i = j
    BY <1>5 DEF Left
  <2> HIDE DEF q
  <2>4. \A x : (\E i \in 1 .. k : l[i] = x /\ x \in keep)
                 <=> \/ \E i \in 1 .. k - 1 : l[i] = x /\ x \in keep
                     \/ l[k] = x /\ x \in keep
    <3>1. \A i \in 1 .. k : i # k => i \in 1 .. k - 1
      OBVIOUS
    <3>2. k \in 1 .. k /\ \A i \in 1 .. k - 1 : i \in 1 .. k
      OBVIOUS
    <3> QED
      BY <3>1, <3>2
  <2>5. CASE l[k] \notin keep
    <3>1. g[k] = q
      BY <2>2, <2>5
    <3>2. \A x : (\E i \in 1 .. Len(q) : q[i] = x)
                   <=> (\E i \in 1 .. k : l[i] = x /\ x \in keep)
      BY <2>3, <2>4, <2>5
    <3> QED
      BY <2>3, <3>1, <3>2 DEF Left
  <2>6. CASE l[k] \in keep
    <3>1. g[k] = Append(q, l[k])
      BY <2>2, <2>6
    <3>2. /\ g[k] \in Seq(S) /\ Len(g[k]) = Len(q) + 1
          /\ \A i \in 1 .. Len(q) : g[k][i] = q[i]
          /\ g[k][Len(q) + 1] = l[k]
      BY <2>1, <2>3, <3>1
    <3>3. Len(q) \in Nat /\ \A i \in 1 .. Len(g[k]) : i \in 1 .. Len(q) \/ i = Len(q) + 1
      BY <2>3, <3>2
    <3>4. \A x : (\E i \in 1 .. Len(g[k]) : g[k][i] = x)
                   <=> (\E i \in 1 .. Len(q) : q[i] = x) \/ x = l[k]
      BY <3>2, <3>3
    <3>5. ASSUME IsInjective(l)
          PROVE  \A i, j \in 1 .. Len(g[k]) : g[k][i] = g[k][j] => i = j
      <4>1. \A i \in 1 .. Len(q) : q[i] # l[k]
        <5> SUFFICES ASSUME NEW i \in 1 .. Len(q), q[i] = l[k]
                     PROVE  FALSE
          OBVIOUS
        <5>1. PICK j \in 1 .. k - 1 : l[j] = l[k]
          BY <2>3
        <5>2. j \in DOMAIN l /\ k \in DOMAIN l /\ j # k
          BY <1>1
        <5> QED
          BY <3>5, <5>1, <5>2 DEF IsInjective
      <4> QED
        BY <2>3, <3>2, <3>3, <3>5, <4>1
    <3>6. \A x : (\E i \in 1 .. Len(g[k]) : g[k][i] = x)
                   <=> (\E i \in 1 .. k : l[i] = x /\ x \in keep)
      BY <2>3, <2>4, <2>6, <3>4
    <3> QED
      BY <3>2, <3>5, <3>6 DEF Left
  <2> QED
    BY <2>5, <2>6
<1>6. Left(g, Len(l))
  <2> DEFINE bad == {n \in 0 .. Len(l) : ~Left(g, n)}
  <2> SUFFICES ASSUME bad # {}
               PROVE  FALSE
    BY <1>1
  <2>0. bad \in SUBSET Nat
    BY <1>1
  <2>1. PICK k \in bad : \A j \in bad : k <= j
    <3> HIDE DEF bad
    <3> QED
      BY <2>0, Least
  <2>2. k # 0 /\ k \in 0 .. Len(l)
    BY <1>4, <2>1
  <2>3. k - 1 \in 0 .. Len(l) /\ k - 1 \notin bad /\ k \in 1 .. Len(l)
    BY <1>1, <2>1, <2>2
  <2> QED
    BY <1>5, <2>1, <2>3
<1>7. /\ Kept(l, keep) \in Seq(S)
      /\ \A x : (\E i \in 1 .. Len(Kept(l, keep)) : Kept(l, keep)[i] = x)
                  <=> (\E i \in 1 .. Len(l) : l[i] = x /\ x \in keep)
      /\ IsInjective(l) => \A i, j \in 1 .. Len(Kept(l, keep)) :
                             Kept(l, keep)[i] = Kept(l, keep)[j] => i = j
  BY <1>2, <1>6 DEF Left
<1>8. DOMAIN l = 1 .. Len(l) /\ DOMAIN Kept(l, keep) = 1 .. Len(Kept(l, keep))
  BY <1>7
<1>9. ToSet(Kept(l, keep)) = ToSet(l) \cap keep
  BY <1>7, <1>8 DEF ToSet
<1> QED
  BY <1>7, <1>8, <1>9 DEF IsInjective

----------------------------------------------------------------------------
(* The invariant.                                                          *)

SpentType == spent \in [DOMAIN Limit -> Nat]

\* A ping is only on its way to a device of the mesh.
Reached == \A d \in Device : air[d] # <<>> => d \in table

\* With Prompt, what waits for the root comes from devices of the mesh.
FromMembers == Prompt => ToSet(inbox) \subseteq table

GhostsFound == Prompt => GhostsPending

\* Until a connection was refused or broke, there is none, and nothing is
\* listed, or it is the first one.
FirstLink ==
  spent.break + spent.refuse = 0 =>
    \/ link = "up" /\ server = Listed
    \/ link = "down" /\ list = <<>> /\ mesh \in {"ping", "link"}

ListInv ==
  /\ RegistryTypeOK /\ SpentType
  /\ ListedOnce /\ Reached /\ FromMembers /\ GhostsFound /\ FirstLink

LEMMA SpendOne ==
  ASSUME SpentType, NEW what \in DOMAIN Limit, Spend(what)
  PROVE  /\ SpentType'
         /\ \A k \in DOMAIN Limit : spent'[k] = IF k = what THEN spent[k] + 1 ELSE spent[k]
BY RegistryAssumption DEF SpentType, Spend

LEMMA Counters ==
  ASSUME SpentType
  PROVE  /\ spent.break \in Nat /\ spent.refuse \in Nat /\ spent.unread \in Nat
         /\ {"join", "leave", "lose", "unread", "refuse", "break"} \subseteq DOMAIN Limit
BY RegistryAssumption DEF SpentType

\* What the root adds to its list.
LEMMA AddedFacts ==
  ASSUME NEW S, NEW l \in Seq(S), NEW d \in S
  PROVE  /\ Added(l, d) \in Seq(S)
         /\ ToSet(Added(l, d)) = ToSet(l) \cup {d}
         /\ IsInjective(l) => IsInjective(Added(l, d))
<1>1. CASE d \in ToSet(l)
  BY <1>1 DEF Added
<1>2. CASE d \notin ToSet(l)
  <2>1. Added(l, d) = Append(l, d)
    BY <1>2 DEF Added
  <2>2. /\ Append(l, d) \in Seq(S) /\ Len(l) \in Nat
        /\ DOMAIN l = 1 .. Len(l) /\ DOMAIN Append(l, d) = 1 .. Len(l) + 1
        /\ \A i \in 1 .. Len(l) : Append(l, d)[i] = l[i]
        /\ Append(l, d)[Len(l) + 1] = d
    OBVIOUS
  <2>3. \A i \in 1 .. Len(l) + 1 : i \in 1 .. Len(l) \/ i = Len(l) + 1
    BY <2>2
  <2>4. \A i \in 1 .. Len(l) : i \in 1 .. Len(l) + 1 /\ l[i] # d
    BY <1>2, <2>2 DEF ToSet
  <2>5. Len(l) + 1 \in 1 .. Len(l) + 1
    BY <2>2
  <2>6. ToSet(Append(l, d)) = ToSet(l) \cup {d}
    BY <2>2, <2>3, <2>4, <2>5 DEF ToSet
  <2>7. IsInjective(l) => IsInjective(Append(l, d))
    BY <2>2, <2>3, <2>4 DEF IsInjective
  <2> QED
    BY <2>1, <2>2, <2>6, <2>7
<1> QED
  BY <1>1, <1>2

\* A queue of registrations and its first element.
LEMMA QueueFacts ==
  ASSUME NEW S, NEW q \in Seq(S)
  PROVE  /\ \A e \in S : Append(q, e) \in Seq(S) /\ ToSet(Append(q, e)) = ToSet(q) \cup {e}
         /\ q # <<>> => /\ Head(q) \in S /\ Head(q) \in ToSet(q)
                        /\ Tail(q) \in Seq(S) /\ ToSet(Tail(q)) \subseteq ToSet(q)
         /\ ToSet(q) \subseteq S
<1>1. Len(q) \in Nat /\ DOMAIN q = 1 .. Len(q) /\ \A i \in 1 .. Len(q) : q[i] \in S
  OBVIOUS
<1>2. ASSUME NEW e \in S
      PROVE  Append(q, e) \in Seq(S) /\ ToSet(Append(q, e)) = ToSet(q) \cup {e}
  <2>1. /\ Append(q, e) \in Seq(S) /\ DOMAIN Append(q, e) = 1 .. Len(q) + 1
        /\ \A i \in 1 .. Len(q) : Append(q, e)[i] = q[i]
        /\ Append(q, e)[Len(q) + 1] = e
    OBVIOUS
  <2>2. /\ \A i \in 1 .. Len(q) + 1 : i \in 1 .. Len(q) \/ i = Len(q) + 1
        /\ \A i \in 1 .. Len(q) : i \in 1 .. Len(q) + 1
        /\ Len(q) + 1 \in 1 .. Len(q) + 1
    BY <1>1
  <2> QED
    BY <1>1, <2>1, <2>2 DEF ToSet
<1>3. ASSUME q # <<>>
      PROVE  /\ Head(q) \in S /\ Head(q) \in ToSet(q)
             /\ Tail(q) \in Seq(S) /\ ToSet(Tail(q)) \subseteq ToSet(q)
  <2>1. 1 \in 1 .. Len(q) /\ Head(q) = q[1]
    BY <1>3
  <2>2. /\ Tail(q) \in Seq(S) /\ DOMAIN Tail(q) = 1 .. Len(q) - 1
        /\ \A i \in 1 .. Len(q) - 1 : Tail(q)[i] = q[i + 1] /\ i + 1 \in 1 .. Len(q)
    BY <1>3
  <2> QED
    BY <1>1, <2>1, <2>2 DEF ToSet
<1> QED
  BY <1>1, <1>2, <1>3 DEF ToSet

----------------------------------------------------------------------------
(* The steps.                                                              *)

LEMMA JoinStep ==
  ASSUME ListInv, NEW d \in Device, Join(d)
  PROVE  ListInv'
<1>1. SpentType' /\ UNCHANGED <<spent.break, spent.refuse, spent.unread>>
  BY SpendOne, Counters DEF Join, ListInv
<1>2. RegistryTypeOK'
  <2>1. adds' \in 0 .. EventLen
    BY RegistryAssumption DEF ListInv, RegistryTypeOK, Join, Posted
  <2>2. rootOf' \in [Device -> BOOLEAN]
    BY DEF ListInv, RegistryTypeOK, Join
  <2> QED
    BY <2>1, <2>2 DEF ListInv, RegistryTypeOK, Join
<1>3. Listed' = Listed
  BY DEF Join, Listed
<1>4. table \subseteq table'
  BY DEF Join
<1> QED
  BY <1>1, <1>2, <1>3, <1>4
     DEF ListInv, Join, ListedOnce, Reached, FromMembers, GhostsFound, GhostsPending, FirstLink

LEMMA LeaveStep ==
  ASSUME ListInv, NEW d \in Device, Leave(d)
  PROVE  ListInv'
<1>1. SpentType' /\ UNCHANGED <<spent.break, spent.refuse, spent.unread>>
  BY SpendOne, Counters DEF Leave, ListInv
<1>2. /\ Kept(inbox, Device \ {d}) \in Seq(Device)
      /\ ToSet(Kept(inbox, Device \ {d})) = ToSet(inbox) \cap (Device \ {d})
  BY KeptFacts DEF ListInv, RegistryTypeOK
<1>3. removes' \in 0 .. EventLen /\ removes' > 0
  BY RegistryAssumption DEF ListInv, RegistryTypeOK, Leave, Posted
<1>4. <<>> \in Seq(Ping)
  OBVIOUS
<1>5. RegistryTypeOK'
  BY <1>2, <1>3, <1>4 DEF ListInv, RegistryTypeOK, Leave
<1>6. FromMembers'
  BY <1>2 DEF ListInv, FromMembers, Leave
<1>7. Reached'
  BY DEF ListInv, RegistryTypeOK, Reached, Leave
<1>8. GhostsFound'
  BY <1>3 DEF GhostsFound, GhostsPending
<1>9. Listed' = Listed
  BY DEF Leave, Listed
<1> QED
  BY <1>1, <1>5, <1>6, <1>7, <1>8, <1>9 DEF ListInv, Leave, ListedOnce, FirstLink

\* The connection: it breaks, is closed, refused or found to be there.
LEMMA LinkStep ==
  ASSUME ListInv, LinkBreaks \/ LinkClosed \/ ConnectFails \/ HasLink
  PROVE  ListInv'
<1>1. /\ SpentType' /\ spent'.unread = spent.unread
      /\ spent'.break + spent'.refuse = 0 => spent.break + spent.refuse = 0 /\ spent' = spent
  <2>1. CASE LinkBreaks \/ ConnectFails
    BY <2>1, SpendOne, Counters DEF LinkBreaks, ConnectFails, ListInv
  <2>2. CASE LinkClosed \/ HasLink
    BY <2>2 DEF LinkClosed, HasLink, ListInv, SpentType
  <2> QED
    BY <2>1, <2>2
<1>2. UNCHANGED <<table, list, adds, removes, server, air, inbox, rootOf>>
  BY DEF LinkBreaks, LinkClosed, ConnectFails, HasLink
<1>3. RegistryTypeOK'
  BY <1>2 DEF ListInv, RegistryTypeOK, LinkBreaks, LinkClosed, ConnectFails, HasLink
<1>4. Listed' = Listed
  BY <1>2 DEF Listed
<1>5. FirstLink'
  <2>1. LinkBreaks => ~(spent'.break + spent'.refuse = 0)
    BY SpendOne, Counters DEF LinkBreaks, ListInv
  <2>2. ConnectFails => ~(spent'.break + spent'.refuse = 0)
    BY SpendOne, Counters DEF ConnectFails, ListInv
  <2> QED
    BY <1>1, <1>2, <1>4, <2>1, <2>2 DEF ListInv, FirstLink, LinkClosed, HasLink
<1> QED
  BY <1>1, <1>2, <1>3, <1>4, <1>5
     DEF ListInv, ListedOnce, Reached, FromMembers, GhostsFound, GhostsPending

LEMMA ConnectStep ==
  ASSUME ListInv, Connect
  PROVE  ListInv'
<1>1. /\ UNCHANGED <<table, list, adds, removes, air, inbox, rootOf, spent>>
      /\ mesh = "link" /\ link = "down" /\ link' = "up" /\ mesh' = "offline"
      /\ server' = Registered(list)
  BY DEF Connect
<1>2. server' \in SUBSET Device /\ (list = <<>> => server' = {})
  BY <1>1, QueueFacts DEF Registered, ListInv, RegistryTypeOK
<1>3. RegistryTypeOK'
  BY <1>1, <1>2 DEF ListInv, RegistryTypeOK
<1>4. Listed' = Listed /\ (list = <<>> => Listed = {})
  BY <1>1 DEF Listed, ToSet
<1> QED
  BY <1>1, <1>2, <1>3, <1>4
     DEF ListInv, SpentType, ListedOnce, Reached, FromMembers, GhostsFound, GhostsPending, FirstLink

\* root_send_ping
LEMMA PingStep ==
  ASSUME ListInv, PingAdded \/ PingTimed \/ PingNone
  PROVE  ListInv'
<1>1. /\ UNCHANGED <<table, list, removes, link, server, inbox, rootOf>>
      /\ mesh = "ping" /\ mesh' = "link" /\ adds' \in 0 .. EventLen
  <2>1. adds \in 0 .. EventLen /\ EventLen \in Nat
    BY RegistryAssumption DEF ListInv, RegistryTypeOK
  <2>2. adds' = adds \/ (adds > 0 /\ adds' = adds - 1)
    BY DEF PingAdded, PingTimed, PingNone
  <2>3. adds' \in 0 .. EventLen
    BY <2>1, <2>2
  <2> QED
    BY <2>3 DEF PingAdded, PingTimed, PingNone
<1>2. Listed \in SUBSET Device
  BY QueueFacts DEF Listed, ListInv, RegistryTypeOK
<1>3. SeenBy(list) \subseteq SUBSET Device
  <2>1. \A k \in 0 .. Len(list) : ToSet(SubSeq(list, 1, k)) \in SUBSET Device
    <3>1. \A k \in 0 .. Len(list) : SubSeq(list, 1, k) \in Seq(Device)
      BY DEF ListInv, RegistryTypeOK
    <3> QED
      BY <3>1, QueueFacts
  <2> QED
    BY <2>1 DEF SeenBy
<1>4. ASSUME NEW force \in Forces, NEW seen \in SeenBy(list), SendPing(force, seen)
      PROVE  /\ SpentType' /\ UNCHANGED <<spent.break, spent.refuse, spent.unread>>
             /\ air' \in [Device -> Seq(Ping)] /\ Reached'
  <2>1. PICK lost \in SUBSET table :
          /\ IF lost = {} THEN UNCHANGED spent ELSE Spend("lose")
          /\ air' = [d \in Device |->
               IF d \in table \ lost
                 THEN Append(air[d], [force |-> force, macs |-> Listed, seen |-> seen])
                 ELSE air[d]]
    BY <1>4 DEF SendPing
  <2>2. SpentType' /\ UNCHANGED <<spent.break, spent.refuse, spent.unread>>
    BY <2>1, SpendOne, Counters DEF ListInv, SpentType
  <2>3. [force |-> force, macs |-> Listed, seen |-> seen] \in Ping
    BY <1>2, <1>3 DEF Ping
  <2>4. air' \in [Device -> Seq(Ping)]
    BY <2>1, <2>3 DEF ListInv, RegistryTypeOK
  <2>5. Reached'
    BY <1>1, <2>1 DEF ListInv, Reached
  <2> QED
    BY <2>2, <2>4, <2>5
<1>5. /\ SpentType' /\ UNCHANGED <<spent.break, spent.refuse, spent.unread>>
      /\ air' \in [Device -> Seq(Ping)] /\ Reached'
  <2>1. CASE PingAdded
    BY <1>4, <2>1 DEF PingAdded, Forces
  <2>2. CASE PingTimed
    BY <1>4, <2>2 DEF PingTimed
  <2>3. CASE PingNone
    BY <2>3 DEF PingNone, ListInv, RegistryTypeOK, SpentType, Reached
  <2> QED
    BY <2>1, <2>2, <2>3
<1>6. RegistryTypeOK'
  BY <1>1, <1>5 DEF ListInv, RegistryTypeOK
<1>7. Listed' = Listed
  BY <1>1 DEF Listed
<1> QED
  BY <1>1, <1>5, <1>6, <1>7
     DEF ListInv, ListedOnce, FromMembers, GhostsFound, GhostsPending, FirstLink

\* root_do_child_offline
LEMMA OfflineStep ==
  ASSUME ListInv, ChildOffline \/ TableUnread \/ NoneOffline
  PROVE  ListInv'
<1>1. UNCHANGED <<table, adds, link, air, inbox, rootOf>> /\ mesh = "offline" /\ mesh' = "read"
  BY DEF ChildOffline, TableUnread, NoneOffline
<1>2. removes' \in 0 .. EventLen
  <2>1. removes \in 0 .. EventLen /\ EventLen \in Nat
    BY RegistryAssumption DEF ListInv, RegistryTypeOK
  <2>2. removes' = removes \/ (removes > 0 /\ removes' = removes - 1)
    BY DEF ChildOffline, TableUnread, NoneOffline
  <2> QED
    BY <2>1, <2>2
<1>3. CASE ChildOffline
  <2>1. /\ list' \in Seq(Device) /\ IsInjective(list') /\ Listed' = Listed \cap table
        /\ UNCHANGED spent
    BY <1>3, KeptFacts DEF ChildOffline, ListInv, RegistryTypeOK, ListedOnce, Listed
  <2>2. server' = IF link = "up" THEN server \ (Listed \ table) ELSE server
    BY <1>3 DEF ChildOffline
  <2>3. RegistryTypeOK'
    BY <1>1, <1>2, <2>1, <2>2 DEF ListInv, RegistryTypeOK
  <2> QED
    BY <1>1, <2>1, <2>2, <2>3
       DEF ListInv, SpentType, ListedOnce, Reached, FromMembers, GhostsFound, GhostsPending, FirstLink
<1>4. CASE TableUnread
  <2>1. /\ SpentType' /\ UNCHANGED <<spent.break, spent.refuse>> /\ spent'.unread # 0
    BY <1>4, SpendOne, Counters DEF TableUnread, ListInv
  <2>2. UNCHANGED <<list, server>> /\ Listed' = Listed
    BY <1>4 DEF TableUnread, Listed
  <2>3. RegistryTypeOK'
    BY <1>1, <1>2, <2>2 DEF ListInv, RegistryTypeOK
  <2> QED
    BY <1>1, <2>1, <2>2, <2>3
       DEF ListInv, ListedOnce, Reached, FromMembers, GhostsFound, GhostsPending, FirstLink
<1>5. CASE NoneOffline
  <2>1. UNCHANGED <<list, server, removes, spent>> /\ Listed' = Listed
    BY <1>5 DEF NoneOffline, Listed
  <2>2. RegistryTypeOK'
    BY <1>1, <1>2, <2>1 DEF ListInv, RegistryTypeOK
  <2> QED
    BY <1>1, <2>1, <2>2
       DEF ListInv, SpentType, ListedOnce, Reached, FromMembers, GhostsFound, GhostsPending, FirstLink
<1> QED
  BY <1>3, <1>4, <1>5

\* root_do_process_register
LEMMA ReadStep ==
  ASSUME ListInv, ReadRegistration \/ ReadNothing
  PROVE  ListInv'
<1>1. /\ UNCHANGED <<table, adds, removes, link, air, rootOf, spent>>
      /\ mesh = "read" /\ mesh' = "ping"
  BY DEF ReadRegistration, ReadNothing
<1>2. CASE ReadRegistration
  <2>1. /\ inbox # <<>> /\ inbox' = Tail(inbox) /\ list' = Added(list, Head(inbox))
        /\ server' = IF link = "up" THEN server \cup {Head(inbox)} ELSE server
    BY <1>2 DEF ReadRegistration
  <2>2. /\ Head(inbox) \in Device /\ Head(inbox) \in ToSet(inbox)
        /\ inbox' \in Seq(Device) /\ ToSet(inbox') \subseteq ToSet(inbox)
    BY <2>1, QueueFacts DEF ListInv, RegistryTypeOK
  <2>3. /\ list' \in Seq(Device) /\ IsInjective(list')
        /\ Listed' = Listed \cup {Head(inbox)}
    <3>1. list \in Seq(Device) /\ IsInjective(list)
      BY DEF ListInv, RegistryTypeOK, ListedOnce
    <3>2. PICK e : e = Head(inbox)
      OBVIOUS
    <3>3. /\ Added(list, e) \in Seq(Device) /\ IsInjective(Added(list, e))
          /\ ToSet(Added(list, e)) = ToSet(list) \cup {e}
      BY <2>2, <3>1, <3>2, AddedFacts
    <3> QED
      BY <2>1, <3>2, <3>3 DEF Listed
  <2>4. RegistryTypeOK'
    BY <1>1, <2>1, <2>2, <2>3 DEF ListInv, RegistryTypeOK
  <2>5. FromMembers' /\ GhostsFound'
    BY <1>1, <2>2, <2>3 DEF ListInv, FromMembers, GhostsFound, GhostsPending
  <2> QED
    BY <1>1, <2>1, <2>3, <2>4, <2>5 DEF ListInv, SpentType, ListedOnce, Reached, FirstLink
<1>3. CASE ReadNothing
  <2>1. UNCHANGED <<list, server, inbox>> /\ Listed' = Listed
    BY <1>3 DEF ReadNothing, Listed
  <2>2. RegistryTypeOK'
    BY <1>1, <2>1 DEF ListInv, RegistryTypeOK
  <2> QED
    BY <1>1, <2>1, <2>2
       DEF ListInv, SpentType, ListedOnce, Reached, FromMembers, GhostsFound, GhostsPending, FirstLink
<1> QED
  BY <1>2, <1>3

\* node_handle_ping_from_root
LEMMA DeviceStep ==
  ASSUME ListInv, NEW d \in Device, AnswerPing(d) \/ IgnorePing(d)
  PROVE  ListInv'
<1>1. UNCHANGED <<table, list, adds, removes, mesh, link, server>> /\ Listed' = Listed
  BY DEF AnswerPing, IgnorePing, rootVars, Listed
<1>2. SpentType' /\ UNCHANGED <<spent.break, spent.refuse, spent.unread>>
  BY SpendOne, Counters DEF AnswerPing, IgnorePing, ListInv, SpentType
<1>3. air[d] # <<>> /\ air' = [air EXCEPT ![d] = Tail(@)] /\ d \in table
  BY DEF AnswerPing, IgnorePing, ListInv, Reached
<1>4. air' \in [Device -> Seq(Ping)] /\ Reached'
  BY <1>1, <1>3 DEF ListInv, RegistryTypeOK, Reached
<1>5. inbox' \in {inbox, Append(inbox, d)} /\ rootOf' \in [Device -> BOOLEAN]
  BY DEF AnswerPing, IgnorePing, ListInv, RegistryTypeOK
<1>6. inbox' \in Seq(Device) /\ ToSet(inbox') \subseteq ToSet(inbox) \cup {d}
  <2>1. inbox \in Seq(Device)
    BY DEF ListInv, RegistryTypeOK
  <2>2. Append(inbox, d) \in Seq(Device) /\ ToSet(Append(inbox, d)) = ToSet(inbox) \cup {d}
    BY <2>1, QueueFacts
  <2> QED
    BY <1>5, <2>1, <2>2
<1>7. RegistryTypeOK'
  BY <1>1, <1>4, <1>5, <1>6 DEF ListInv, RegistryTypeOK
<1> QED
  BY <1>1, <1>2, <1>3, <1>4, <1>6, <1>7
     DEF ListInv, ListedOnce, FromMembers, GhostsFound, GhostsPending, FirstLink

LEMMA ListStep ==
  ASSUME ListInv, [Next]_vars
  PROVE  ListInv'
<1>1. CASE UNCHANGED vars
  <2>1. /\ UNCHANGED <<table, list, adds, removes, mesh, link, server, air, inbox, rootOf, spent>>
        /\ Listed' = Listed
    BY <1>1 DEF vars, rootVars, Listed
  <2> QED
    BY <2>1 DEF ListInv, RegistryTypeOK, SpentType, ListedOnce, Reached, FromMembers,
                GhostsFound, GhostsPending, FirstLink
<1> QED
  BY <1>1, JoinStep, LeaveStep, LinkStep, ConnectStep, PingStep, OfflineStep, ReadStep,
     DeviceStep DEF Next

LEMMA ListInit ==
  ASSUME Init
  PROVE  ListInv
<1>1. /\ <<>> \in Seq(Device) /\ <<>> \in Seq(Ping) /\ ToSet(<<>>) = {}
      /\ IsInjective(<<>>) /\ EventLen \in Nat
  BY RegistryAssumption DEF ToSet, IsInjective
<1>2. RegistryTypeOK
  BY <1>1 DEF Init, RegistryTypeOK
<1>3. SpentType
  BY DEF Init, SpentType
<1> QED
  BY <1>1, <1>2, <1>3 DEF Init, ListInv, ListedOnce, Reached, FromMembers, GhostsFound,
                          GhostsPending, FirstLink, Listed

\* The variables keep to their types: no event queue overflows and only devices
\* of the mesh are listed or registered (main/router.c, main/node_dev_list.c).
THEOREM RegistryTypeCorrect == Spec => []RegistryTypeOK
<1>1. ListInv => RegistryTypeOK
  BY DEF ListInv
<1> QED
  BY <1>1, ListInit, ListStep, PTL DEF Spec

\* However often a device registers, leaves and comes back, it has one link in
\* the list, so that the walk of root_do_child_offline, which deletes the first
\* link with an address, deletes the device.
THEOREM AlwaysListedOnce == Spec => []ListedOnce
<1>1. ListInv => ListedOnce
  BY DEF ListInv
<1> QED
  BY <1>1, ListInit, ListStep, PTL DEF Spec

\* As long as the first connection works, registering devices one by one and
\* unregistering those that left keeps the server's set the same as the list
\* (root_do_process_register, root_do_child_offline).
THEOREM ServerAlwaysKnowsList == Spec => []ServerKnowsList
<1>1. ListInv => ServerKnowsList
  BY DEF ListInv, FirstLink, ServerKnowsList
<1> QED
  BY <1>1, ListInit, ListStep, PTL DEF Spec

\* If nothing a device sent outlives its stay in the mesh, a listed device that
\* is gone never stays behind without an event that finds it, however short
\* the event queue is (root_do_child_offline).
THEOREM GhostsAlwaysPending ==
  ASSUME Prompt
  PROVE  Spec => []GhostsPending
<1>1. ListInv => GhostsPending
  BY Prompt DEF ListInv, GhostsFound
<1> QED
  BY <1>1, ListInit, ListStep, PTL DEF Spec
=============================================================================
