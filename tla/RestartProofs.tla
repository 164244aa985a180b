--------------------------- MODULE RestartProofs ---------------------------
(***************************************************************************)
(* Theorems about a restart command (RestartCommand in RestartMesh), for   *)
(* any addresses, any length of them, any number of them in a command and  *)
(* any of the writes failing; and about the watchdogs, for any times.      *)
(***************************************************************************)
EXTENDS RestartMesh, SequenceTheorems, TLAPS

MacBytes == [1 .. MacLen -> 0 .. 255]

----------------------------------------------------------------------------
(* Bytes.                                                                  *)

LEMMA Rising ==
  ASSUME NEW M \in Nat, NEW a \in Int, NEW b \in Int, a <= b
  PROVE  M * a <= M * b
<1>1. M * (b - a) = M * b - M * a /\ M * (b - a) >= 0
  BY SMT
<1> QED
  BY <1>1

LEMMA Places ==
  ASSUME NEW k \in Int
  PROVE  /\ CommandAt(k) \in Int /\ ResponseAt(k) \in Int
         /\ CommandAt(k + 1) = CommandAt(k) + MacLen
         /\ ResponseAt(k + 1) = ResponseAt(k) + MacLen
         /\ ResponseAt(k) = CommandAt(k) + 1
<1>1. MacLen \in Nat
  BY MacAssumption
<1>2. MacLen * ((k + 1) - 1) = MacLen * (k - 1) + MacLen
  BY <1>1
<1> QED
  BY <1>1, <1>2 DEF CommandAt, ResponseAt

LEMMA InOrderPlaces ==
  ASSUME NEW j \in Int, NEW k \in Int, j < k
  PROVE  CommandAt(j) + MacLen <= CommandAt(k) /\ ResponseAt(j) + MacLen <= ResponseAt(k)
<1>1. MacLen \in Nat
  BY MacAssumption
<1>2. MacLen * j <= MacLen * (k - 1)
  BY <1>1, Rising
<1>3. MacLen * ((j + 1) - 1) = MacLen * j
  BY <1>1
<1> QED
  BY <1>1, <1>2, <1>3, Places DEF CommandAt, ResponseAt

LEMMA PutType ==
  ASSUME NEW b \in [Bytes -> 0 .. 255], NEW at \in Int, NEW mac \in MacBytes
  PROVE  Put(b, at, mac) \in [Bytes -> 0 .. 255]
<1>1. MacLen \in Nat \ {0}
  BY MacAssumption
<1>2. ASSUME NEW k \in Bytes, k \in at .. (at + MacLen - 1)
      PROVE  mac[k - at + 1] \in 0 .. 255
  <2>1. k - at + 1 \in 1 .. MacLen
    BY <1>1, <1>2 DEF Bytes
  <2> QED
    BY <2>1 DEF MacBytes
<1> QED
  BY <1>1, <1>2 DEF Put

LEMMA PutGet ==
  ASSUME NEW b \in [Bytes -> 0 .. 255], NEW at \in Int, NEW mac \in MacBytes,
         at .. (at + MacLen - 1) \subseteq Bytes
  PROVE  Get(Put(b, at, mac), at) = mac
<1>1. MacLen \in Nat \ {0}
  BY MacAssumption
<1>2. ASSUME NEW k \in 1 .. MacLen
      PROVE  Put(b, at, mac)[at + k - 1] = mac[k]
  <2>1. at + k - 1 \in at .. (at + MacLen - 1) /\ (at + k - 1) - at + 1 = k
    BY <1>1
  <2> QED
    BY <1>1, <2>1 DEF Put
<1> QED
  BY <1>1, <1>2 DEF Get, MacBytes

LEMMA PutElsewhere ==
  ASSUME NEW b \in [Bytes -> 0 .. 255], NEW at \in Int, NEW mac \in MacBytes, NEW from \in Int,
         from .. (from + MacLen - 1) \subseteq Bytes,
         from + MacLen <= at \/ at + MacLen <= from
  PROVE  Get(Put(b, at, mac), from) = Get(b, from)
<1>1. MacLen \in Nat \ {0}
  BY MacAssumption
<1>2. ASSUME NEW k \in 1 .. MacLen
      PROVE  Put(b, at, mac)[from + k - 1] = b[from + k - 1]
  <2>1. from + k - 1 \in Bytes /\ from + k - 1 \notin at .. (at + MacLen - 1)
    BY <1>1
  <2> QED
    BY <1>1, <2>1 DEF Put
<1> QED
  BY <1>1, <1>2 DEF Get

LEMMA GetType ==
  ASSUME NEW b \in [Bytes -> 0 .. 255], NEW from \in Int,
         from .. (from + MacLen - 1) \subseteq Bytes
  PROVE  Get(b, from) \in MacBytes
<1>1. MacLen \in Nat \ {0}
  BY MacAssumption
<1>2. ASSUME NEW k \in 1 .. MacLen
      PROVE  b[from + k - 1] \in 0 .. 255
  <2>1. from + k - 1 \in Bytes
    BY <1>1
  <2> QED
    BY <2>1
<1> QED
  BY <1>1, <1>2 DEF Get, MacBytes

\* Every address of a command or of its report lies in the buffer.
LEMMA InBytes ==
  ASSUME NEW k \in 1 .. MaxNamed
  PROVE  /\ CommandAt(k) .. (CommandAt(k) + MacLen - 1) \subseteq Bytes
         /\ ResponseAt(k) .. (ResponseAt(k) + MacLen - 1) \subseteq Bytes
<1>1. MacLen \in Nat \ {0} /\ MaxNamed \in Nat
  BY MacAssumption
<1>2. CommandAt(1) = 2 /\ ResponseAt(1) = 3
  BY <1>1 DEF CommandAt, ResponseAt
<1>3. CommandAt(1) <= CommandAt(k)
  <2>1. CASE k = 1
    BY <1>2, <2>1
  <2>2. CASE 1 < k
    BY <1>1, <2>2, InOrderPlaces, Places
  <2> QED
    BY <2>1, <2>2
<1>4. CommandAt(k) + MacLen <= CommandAt(MaxNamed + 1)
  BY <1>1, InOrderPlaces
<1>5. CommandAt(MaxNamed + 1) + MacLen = CommandAt(MaxNamed + 2)
  BY <1>1, Places, MaxNamed + 1 + 1 = MaxNamed + 2
<1> QED
  BY <1>1, <1>2, <1>3, <1>4, <1>5, Places DEF Bytes

----------------------------------------------------------------------------
(* The command as it arrives.                                              *)

LEMMA Division ==
  ASSUME NEW M \in Nat \ {0}, NEW q \in Nat, NEW r \in 0 .. M - 1
  PROVE  (M * q + r) \div M = q /\ (M * q + r) % M = r
BY SMT

LEMMA LayoutType ==
  ASSUME NEW s \in BoundedSeq(Mac, MaxNamed)
  PROVE  /\ s \in Seq(Mac) /\ Len(s) \in 0 .. MaxNamed
         /\ Layout(s) \in [Bytes -> 0 .. 255]
         /\ 1 \in Bytes /\ Layout(s)[1] = Len(s)
         /\ \A k \in 1 .. Len(s) : Get(Layout(s), CommandAt(k)) = s[k]
<1>1. MacLen \in Nat \ {0} /\ MaxNamed \in 1 .. 255 /\ Mac \subseteq MacBytes
  BY MacAssumption DEF MacBytes
<1>2. s \in Seq(Mac) /\ Len(s) \in 0 .. MaxNamed
  BY <1>1 DEF BoundedSeq, SeqOf
<1>3. 1 \in Bytes
  BY <1>1, InBytes DEF Bytes, CommandAt
<1>4. ASSUME NEW k \in 1 .. Len(s), NEW j \in 1 .. MacLen
      PROVE  LET at == CommandAt(k) + j - 1
             IN /\ at \in Bytes /\ at # 1 /\ at < CommandAt(Len(s) + 1)
                /\ s[(at - 2) \div MacLen + 1][((at - 2) % MacLen) + 1] = s[k][j]
  <2> DEFINE at == CommandAt(k) + j - 1
  <2>1. at \in Bytes
    <3>1. k \in 1 .. MaxNamed
      BY <1>1, <1>2
    <3>2. CommandAt(k) \in Int
      BY <3>1, Places
    <3>3. at \in CommandAt(k) .. (CommandAt(k) + MacLen - 1)
      BY <1>1, <3>2
    <3> QED
      BY <3>1, <3>3, InBytes
  <2>2. at - 2 = MacLen * (k - 1) + (j - 1) /\ MacLen * (k - 1) >= 0
    BY <1>1, Rising DEF CommandAt
  <2>3. CommandAt(k) + MacLen <= CommandAt(Len(s) + 1)
    BY <1>2, InOrderPlaces
  <2>4. (at - 2) \div MacLen = k - 1 /\ (at - 2) % MacLen = j - 1
    BY <1>1, <1>2, <2>2, Division, k - 1 \in Nat, j - 1 \in 0 .. MacLen - 1
  <2>5. at # 1 /\ at < CommandAt(Len(s) + 1)
    <3>1. CommandAt(k) \in Int /\ CommandAt(Len(s) + 1) \in Int /\ MacLen * (k - 1) \in Int
      BY <1>1, <1>2, Places
    <3> QED
      BY <1>1, <2>2, <2>3, <3>1
  <2>6. s[(at - 2) \div MacLen + 1][((at - 2) % MacLen) + 1] = s[k][j]
    BY <1>1, <2>4
  <2> QED
    BY <2>1, <2>5, <2>6
<1>5. Layout(s) \in [Bytes -> 0 .. 255]
  <2>1. ASSUME NEW b \in Bytes, b # 1, b < CommandAt(Len(s) + 1)
        PROVE  s[(b - 2) \div MacLen + 1][((b - 2) % MacLen) + 1] \in 0 .. 255
    <3> DEFINE q == (b - 2) \div MacLen
    <3>1. b - 2 \in Nat /\ b - 2 < MacLen * Len(s)
      BY <1>1, <1>2, <2>1 DEF Bytes, CommandAt
    <3>2. q \in Nat /\ (b - 2) % MacLen \in 0 .. MacLen - 1
          /\ MacLen * q <= b - 2
      BY <1>1, <3>1, SMT
    <3>3. q < Len(s)
      <4>1. SUFFICES ASSUME Len(s) <= q  PROVE FALSE
        BY <1>2, <3>2
      <4>2. MacLen * Len(s) <= MacLen * q
        BY <1>1, <1>2, <3>2, <4>1, Rising
      <4>3. MacLen * Len(s) \in Int /\ MacLen * q \in Int
        BY <1>1, <1>2, <3>2
      <4> QED
        BY <3>1, <3>2, <4>2, <4>3
    <3>4. s[q + 1] \in MacBytes
      BY <1>1, <1>2, <3>2, <3>3
    <3>5. ((b - 2) % MacLen) + 1 \in 1 .. MacLen
      BY <1>1, <3>2
    <3> QED
      BY <3>4, <3>5 DEF MacBytes
  <2>2. \A n \in 0 .. MaxNamed : n \in 0 .. 255
    BY <1>1
  <2>3. Len(s) \in 0 .. 255
    BY <1>2, <2>2
  <2>4. ASSUME NEW b \in Bytes
        PROVE  Layout(s)[b] \in 0 .. 255
    <3>1. CASE b = 1
      BY <2>3, <3>1 DEF Layout
    <3>2. CASE b # 1 /\ b < CommandAt(Len(s) + 1)
      <4>1. Layout(s)[b] = s[(b - 2) \div MacLen + 1][((b - 2) % MacLen) + 1]
        BY <3>2 DEF Layout
      <4> QED
        BY <2>1, <3>2, <4>1
    <3>3. CASE b # 1 /\ ~(b < CommandAt(Len(s) + 1))
      <4>1. Layout(s)[b] = 0
        BY <3>3 DEF Layout
      <4> QED
        BY <4>1
    <3> QED
      BY <3>1, <3>2, <3>3
  <2> QED
    BY <2>4 DEF Layout
<1>6. Layout(s)[1] = Len(s)
  BY <1>3 DEF Layout
<1>7. ASSUME NEW k \in 1 .. Len(s)
      PROVE  Get(Layout(s), CommandAt(k)) = s[k]
  <2>1. \A j \in 1 .. MacLen : Layout(s)[CommandAt(k) + j - 1] = s[k][j]
    BY <1>4 DEF Layout
  <2>2. s[k] \in MacBytes
    BY <1>1, <1>2
  <2> QED
    BY <2>1, <2>2 DEF Get, MacBytes
<1> QED
  BY <1>2, <1>3, <1>5, <1>6, <1>7

----------------------------------------------------------------------------
(* The invariant.                                                          *)

TypeInv ==
  /\ named \in BoundedSeq(Mac, MaxNamed)
  /\ buf \in [Bytes -> 0 .. 255]
  /\ i \in 1 .. Len(named) + 1 /\ failed = Len(refused) /\ failed < i
  /\ self \in BOOLEAN /\ sockUp \in BOOLEAN
  /\ pc \in {"read", "loop", "reboot", "done"}
  /\ told \in Seq(MacBytes) /\ refused \in Seq(MacBytes) /\ report \in Seq(MacBytes)

\* What is read first, and never again.
NumberInv ==
  /\ pc = "read" => /\ buf = Layout(named) /\ i = 1
                    /\ told = <<>> /\ refused = <<>>
  /\ pc # "read" => num = Len(named)
  /\ pc \in {"read", "loop"} => report = <<>>

\* The report so far, whatever has become of the command.
ReportInv ==
  /\ \A k \in 1 .. failed : Get(buf, ResponseAt(k)) = refused[k]
  /\ pc \in {"reboot", "done"} /\ num > 0 =>
       i = num + 1 /\ (sockUp => report = refused)

FirstReached == refused = <<>> \/ refused[1] # named[1]

\* While the first address was not refused the report stays behind the place
\* that is read.
UnreadInv ==
  FirstReached =>
    /\ i > 1 => failed < i - 1
    /\ \A k \in i .. Len(named) : Get(buf, CommandAt(k)) = named[k]
    /\ ToSet(told) \cup ToSet(refused) = {named[k] : k \in 1 .. i - 1} \ {Self}

CommandInv == TypeInv /\ NumberInv /\ ReportInv /\ UnreadInv

Fresh ==
  /\ named \in BoundedSeq(Mac, MaxNamed)
  /\ buf = Layout(named) /\ i = 1 /\ failed = 0 /\ self = FALSE /\ pc = "read"
  /\ told = <<>> /\ refused = <<>> /\ report = <<>> /\ sockUp \in BOOLEAN

LEMMA FreshInv == Fresh => CommandInv
<1> SUFFICES ASSUME Fresh
             PROVE  CommandInv
  OBVIOUS
<1> USE DEF Fresh
<1>1. TypeInv
  <2>1. buf \in [Bytes -> 0 .. 255] /\ Len(named) \in Nat
    <3>1. named \in BoundedSeq(Mac, MaxNamed)
      OBVIOUS
    <3>2. Layout(named) \in [Bytes -> 0 .. 255] /\ Len(named) \in 0 .. MaxNamed
      BY <3>1, LayoutType
    <3> QED
      BY <3>2
  <2>2. <<>> \in Seq(MacBytes) /\ Len(<<>>) = 0
    BY EmptySeq
  <2>3. 1 \in 1 .. Len(named) + 1
    BY <2>1
  <2>4. i \in 1 .. Len(named) + 1 /\ failed = Len(refused) /\ failed < i
    BY <2>1, <2>2, <2>3
  <2> QED
    BY <2>1, <2>2, <2>4 DEF TypeInv
<1>2. NumberInv
  BY DEF NumberInv
<1>3. ReportInv
  BY DEF ReportInv
<1>4. UnreadInv
  <2>1. ToSet(told) = {} /\ ToSet(refused) = {}
    BY DEF ToSet
  <2>2. {named[k] : k \in 1 .. i - 1} = {}
    OBVIOUS
  <2>3. \A k \in i .. Len(named) : Get(buf, CommandAt(k)) = named[k]
    BY LayoutType
  <2> QED
    BY <2>1, <2>2, <2>3 DEF UnreadInv
<1> QED
  BY <1>1, <1>2, <1>3, <1>4 DEF CommandInv

LEMMA AddrType ==
  ASSUME CommandInv, pc = "loop", Loops
  PROVE  /\ i \in 1 .. MaxNamed /\ i \in 1 .. Len(named)
         /\ Addr \in MacBytes
         /\ FirstReached => Addr = named[i]
<1>1. i \in 1 .. Len(named) /\ Len(named) \in 0 .. MaxNamed
  BY LayoutType DEF CommandInv, TypeInv, NumberInv, Loops
<1>2. i \in 1 .. MaxNamed
  BY <1>1, MacAssumption
<1>3. CommandAt(i) \in Int
  BY <1>2, Places
<1>4. Addr \in MacBytes
  BY <1>2, <1>3, InBytes, GetType DEF Addr, CommandInv, TypeInv
<1> QED
  BY <1>1, <1>2, <1>4 DEF Addr, CommandInv, UnreadInv

LEMMA ToSetAppend ==
  ASSUME NEW S, NEW q \in Seq(S), NEW e \in S
  PROVE  ToSet(Append(q, e)) = ToSet(q) \cup {e}
<1>1. /\ DOMAIN Append(q, e) = DOMAIN q \cup {Len(q) + 1}
      /\ \A k \in DOMAIN q : Append(q, e)[k] = q[k]
      /\ Append(q, e)[Len(q) + 1] = e
  BY AppendProperties
<1> QED
  BY <1>1, Zenon DEF ToSet

LEMMA OneMore ==
  ASSUME NEW n \in Nat \ {0}
  PROVE  {named[k] : k \in 1 .. (n + 1) - 1} = {named[k] : k \in 1 .. n - 1} \cup {named[n]}
<1>1. 1 .. (n + 1) - 1 = (1 .. n - 1) \cup {n}
  OBVIOUS
<1> QED
  BY <1>1

----------------------------------------------------------------------------
(* The steps of root_do_restart.                                           *)

LEMMA ReadNumberInv == CommandInv /\ ReadNumber => CommandInv'
<1> SUFFICES ASSUME CommandInv, ReadNumber
             PROVE  CommandInv'
  OBVIOUS
<1>1. /\ pc = "read" /\ UNCHANGED <<named, buf, i, failed, told, refused, sockUp, report>>
      /\ pc' \in {"loop", "reboot"} /\ self' \in BOOLEAN
      /\ num' = buf[1] /\ (num' = 0 <=> pc' = "reboot")
  BY DEF ReadNumber
<1>2. num' = Len(named)
  BY <1>1, LayoutType DEF CommandInv, TypeInv, NumberInv
<1>3. TypeInv'
  BY <1>1 DEF CommandInv, TypeInv
<1>4. NumberInv'
  BY <1>1, <1>2 DEF CommandInv, NumberInv
<1>5. ReportInv'
  BY <1>1 DEF CommandInv, ReportInv, Get
<1>6. UnreadInv'
  <2>1. UnreadInv' <=> UnreadInv
    BY <1>1 DEF UnreadInv, FirstReached, Get, ToSet
  <2> QED
    BY <2>1 DEF CommandInv
<1> QED
  BY <1>3, <1>4, <1>5, <1>6 DEF CommandInv

LEMMA NamesSelfInv == CommandInv /\ NamesSelf => CommandInv'
<1> SUFFICES ASSUME CommandInv, NamesSelf
             PROVE  CommandInv'
  OBVIOUS
<1>1. /\ pc = "loop" /\ Loops /\ Addr = Self /\ self' = TRUE /\ i' = i + 1
      /\ UNCHANGED <<named, buf, num, failed, pc, told, refused, sockUp, report>>
  BY DEF NamesSelf
<1>2. i \in 1 .. Len(named) /\ (FirstReached => Addr = named[i])
  BY <1>1, AddrType
<1>3. TypeInv'
  BY <1>1, <1>2 DEF CommandInv, TypeInv
<1>4. NumberInv'
  BY <1>1 DEF CommandInv, NumberInv
<1>5. ReportInv'
  BY <1>1 DEF CommandInv, ReportInv, Get
<1>6. UnreadInv'
  <2> SUFFICES ASSUME FirstReached'
               PROVE  /\ i' > 1 => failed' < i' - 1
                      /\ \A k \in i' .. Len(named') : Get(buf', CommandAt(k)) = named'[k]
                      /\ ToSet(told') \cup ToSet(refused') = {named'[k] : k \in 1 .. i' - 1} \ {Self}
    BY DEF UnreadInv, Get, ToSet
  <2>1. FirstReached
    BY <1>1 DEF FirstReached
  <2>2. failed < i /\ failed \in Int /\ i \in Nat \ {0}
    BY DEF CommandInv, TypeInv
  <2>3. named[i] = Self
    BY <1>1, <1>2, <2>1
  <2>4. {named[k] : k \in 1 .. (i + 1) - 1} = {named[k] : k \in 1 .. i - 1} \cup {named[i]}
    BY <2>2, OneMore
  <2>5. ToSet(told) \cup ToSet(refused) = {named[k] : k \in 1 .. i - 1} \ {Self}
    BY <2>1 DEF CommandInv, UnreadInv
  <2>6. {named[k] : k \in 1 .. i - 1} \ {Self} = {named[k] : k \in 1 .. (i + 1) - 1} \ {Self}
    BY <2>3, <2>4
  <2>7. \A k \in i + 1 .. Len(named) : Get(buf, CommandAt(k)) = named[k]
    BY <1>2, <2>1, <2>2 DEF CommandInv, UnreadInv
  <2>8. i' > 1 => failed' < i' - 1
    BY <1>1, <2>2
  <2>9. \A k \in i' .. Len(named') : Get(buf', CommandAt(k)) = named'[k]
    BY <1>1, <2>7
  <2>10. ToSet(told') \cup ToSet(refused') = {named'[k] : k \in 1 .. i' - 1} \ {Self}
    BY <1>1, <2>5, <2>6, Zenon
  <2> QED
    BY <2>8, <2>9, <2>10
<1> QED
  BY <1>3, <1>4, <1>5, <1>6 DEF CommandInv

LEMMA TellInv == CommandInv /\ Tell => CommandInv'
<1> SUFFICES ASSUME CommandInv, Tell
             PROVE  CommandInv'
  OBVIOUS
<1>1. /\ pc = "loop" /\ Loops /\ Addr # Self /\ told' = Append(told, Addr) /\ i' = i + 1
      /\ UNCHANGED <<named, buf, num, failed, self, pc, refused, sockUp, report>>
  BY DEF Tell
<1>2. i \in 1 .. Len(named) /\ Addr \in MacBytes /\ (FirstReached => Addr = named[i])
  BY <1>1, AddrType
<1>3. TypeInv'
  BY <1>1, <1>2 DEF CommandInv, TypeInv
<1>4. NumberInv'
  BY <1>1 DEF CommandInv, NumberInv
<1>5. ReportInv'
  BY <1>1 DEF CommandInv, ReportInv, Get
<1>6. UnreadInv'
  <2> SUFFICES ASSUME FirstReached'
               PROVE  /\ i' > 1 => failed' < i' - 1
                      /\ \A k \in i' .. Len(named') : Get(buf', CommandAt(k)) = named'[k]
                      /\ ToSet(told') \cup ToSet(refused') = {named'[k] : k \in 1 .. i' - 1} \ {Self}
    BY DEF UnreadInv, Get, ToSet
  <2>1. FirstReached
    BY <1>1 DEF FirstReached
  <2>2. failed < i /\ failed \in Int /\ i \in Nat \ {0}
    BY DEF CommandInv, TypeInv
  <2>3. ToSet(told') = ToSet(told) \cup {named[i]}
    <3>1. told \in Seq(MacBytes)
      BY DEF CommandInv, TypeInv
    <3> QED
      BY <1>1, <1>2, <2>1, <3>1, ToSetAppend
  <2>4. {named[k] : k \in 1 .. (i + 1) - 1} = {named[k] : k \in 1 .. i - 1} \cup {named[i]}
    BY <2>2, OneMore
  <2>5. ToSet(told) \cup ToSet(refused) = {named[k] : k \in 1 .. i - 1} \ {Self}
    BY <2>1 DEF CommandInv, UnreadInv
  <2>6. named[i] # Self
    BY <1>1, <1>2, <2>1
  <2>7. \A k \in i + 1 .. Len(named) : Get(buf, CommandAt(k)) = named[k]
    BY <1>2, <2>1, <2>2 DEF CommandInv, UnreadInv
  <2>8. i' > 1 => failed' < i' - 1
    BY <1>1, <2>2
  <2>9. \A k \in i' .. Len(named') : Get(buf', CommandAt(k)) = named'[k]
    BY <1>1, <2>7
  <2>10. ToSet(told') \cup ToSet(refused') = {named'[k] : k \in 1 .. i' - 1} \ {Self}
    <3>1. (ToSet(told) \cup {named[i]}) \cup ToSet(refused)
            = {named[k] : k \in 1 .. (i + 1) - 1} \ {Self}
      BY <2>4, <2>5, <2>6, Zenon
    <3>2. ToSet(refused') = ToSet(refused) /\ named' = named /\ i' = i + 1
      BY <1>1
    <3> QED
      BY <2>3, <3>1, <3>2, Zenon
  <2> QED
    BY <2>8, <2>9, <2>10
<1> QED
  BY <1>3, <1>4, <1>5, <1>6 DEF CommandInv

LEMMA TellFailsInv == CommandInv /\ TellFails => CommandInv'
<1> SUFFICES ASSUME CommandInv, TellFails
             PROVE  CommandInv'
  OBVIOUS
<1> DEFINE at == ResponseAt(failed + 1)
<1>1. /\ pc = "loop" /\ Loops /\ Addr # Self /\ i' = i + 1 /\ failed' = failed + 1
      /\ buf' = Put(buf, at, Addr) /\ refused' = Append(refused, Addr)
      /\ UNCHANGED <<named, num, self, pc, told, sockUp, report>>
  BY DEF TellFails
<1>2. /\ i \in 1 .. MaxNamed /\ i \in 1 .. Len(named)
      /\ Addr \in MacBytes /\ (FirstReached => Addr = named[i])
  BY <1>1, AddrType
<1>3. /\ buf \in [Bytes -> 0 .. 255] /\ refused \in Seq(MacBytes)
      /\ failed = Len(refused) /\ failed \in Nat /\ failed < i
      /\ named \in BoundedSeq(Mac, MaxNamed) /\ Len(named) \in 0 .. MaxNamed
  BY LayoutType DEF CommandInv, TypeInv
<1>4. /\ MacLen \in Nat \ {0} /\ MaxNamed \in Nat
      /\ failed + 1 \in 1 .. MaxNamed /\ at \in Int
      /\ at .. (at + MacLen - 1) \subseteq Bytes
  <2>1. MacLen \in Nat \ {0} /\ MaxNamed \in Nat
    BY MacAssumption
  <2>2. failed + 1 \in 1 .. MaxNamed
    BY <1>2, <1>3, <2>1
  <2> QED
    BY <2>1, <2>2, InBytes, Places
<1>5. TypeInv'
  <2>1. buf' \in [Bytes -> 0 .. 255]
    BY <1>1, <1>2, <1>3, <1>4, PutType
  <2>2. refused' \in Seq(MacBytes) /\ Len(refused') = failed'
    BY <1>1, <1>2, <1>3, AppendProperties
  <2>3. i' \in 1 .. Len(named') + 1 /\ failed' < i'
    BY <1>1, <1>2, <1>3
  <2> QED
    BY <1>1, <2>1, <2>2, <2>3 DEF CommandInv, TypeInv
<1>6. NumberInv'
  BY <1>1 DEF CommandInv, NumberInv
<1>7. ReportInv'
  <2>1. ASSUME NEW k \in 1 .. failed + 1
        PROVE  Get(Put(buf, at, Addr), ResponseAt(k)) = Append(refused, Addr)[k]
    <3>1. CASE k = failed + 1
      <4>1. Get(Put(buf, at, Addr), at) = Addr
        BY <1>2, <1>3, <1>4, PutGet
      <4> QED
        BY <1>2, <1>3, <3>1, <4>1
    <3>2. CASE k < failed + 1
      <4>1. k \in 1 .. failed /\ k \in 1 .. MaxNamed
        BY <1>3, <1>4, <3>2
      <4>2. ResponseAt(k) + MacLen <= at /\ ResponseAt(k) \in Int
        BY <1>3, <3>2, InOrderPlaces, Places
      <4>3. ResponseAt(k) .. (ResponseAt(k) + MacLen - 1) \subseteq Bytes
        BY <4>1, InBytes
      <4>4. Get(Put(buf, at, Addr), ResponseAt(k)) = Get(buf, ResponseAt(k))
        BY <1>2, <1>3, <1>4, <4>2, <4>3, PutElsewhere
      <4>5. Get(buf, ResponseAt(k)) = refused[k]
        BY <4>1 DEF CommandInv, ReportInv
      <4>6. Append(refused, Addr)[k] = refused[k]
        BY <1>2, <1>3, <4>1, AppendProperties
      <4> QED
        BY <4>4, <4>5, <4>6
    <3> QED
      BY <1>3, <3>1, <3>2
  <2>2. \A k \in 1 .. failed' : Get(buf', ResponseAt(k)) = refused'[k]
    BY <1>1, <2>1
  <2>3. pc' = "loop"
    BY <1>1
  <2> QED
    BY <2>2, <2>3 DEF ReportInv, Get
<1>8. UnreadInv'
  <2> SUFFICES ASSUME FirstReached'
               PROVE  /\ i' > 1 => failed' < i' - 1
                      /\ \A k \in i' .. Len(named') : Get(buf', CommandAt(k)) = named'[k]
                      /\ ToSet(told') \cup ToSet(refused') = {named'[k] : k \in 1 .. i' - 1} \ {Self}
    BY DEF UnreadInv, Get, ToSet
  <2>1. FirstReached /\ failed < i - 1
    <3>1. refused' # <<>> /\ refused'[1] # named[1]
      BY <1>1, <1>2, <1>3, AppendProperties DEF FirstReached
    <3>2. CASE refused = <<>>
      <4>1. FirstReached /\ failed = 0
        BY <1>3, <3>2 DEF FirstReached
      <4>2. refused'[1] = Addr /\ Addr = named[i]
        BY <1>1, <1>2, <1>3, <3>2, <4>1
      <4>3. i > 1
        BY <1>2, <3>1, <4>2
      <4> QED
        BY <4>1, <4>3 DEF CommandInv, UnreadInv
    <3>3. CASE refused # <<>>
      <4>1. 1 \in 1 .. Len(refused) /\ failed >= 1
        BY <1>3, <3>3
      <4>2. refused'[1] = refused[1]
        BY <1>1, <1>2, <1>3, <4>1, AppendProperties
      <4>3. FirstReached
        BY <3>1, <4>2 DEF FirstReached
      <4>4. i > 1
        BY <1>2, <1>3, <4>1
      <4> QED
        BY <4>3, <4>4 DEF CommandInv, UnreadInv
    <3> QED
      BY <3>2, <3>3
  <2>2. Addr = named[i] /\ i \in Nat \ {0}
    BY <1>2, <2>1
  <2>3. ToSet(refused') = ToSet(refused) \cup {named[i]}
    BY <1>1, <1>2, <1>3, <2>2, ToSetAppend
  <2>4. {named[k] : k \in 1 .. (i + 1) - 1} = {named[k] : k \in 1 .. i - 1} \cup {named[i]}
    BY <2>2, OneMore
  <2>5. ToSet(told) \cup ToSet(refused) = {named[k] : k \in 1 .. i - 1} \ {Self}
    BY <2>1 DEF CommandInv, UnreadInv
  <2>6. ASSUME NEW k \in i + 1 .. Len(named)
        PROVE  Get(Put(buf, at, Addr), CommandAt(k)) = named[k]
    <3>1. k \in 1 .. MaxNamed /\ k \in i .. Len(named) /\ k \in Int
      BY <1>2, <1>3, <1>4
    <3>2. CommandAt(k) \in Int
      BY <3>1, Places
    <3>3. at + MacLen = CommandAt(failed + 2) + 1
      BY <1>3, <1>4, Places, (failed + 1) + 1 = failed + 2
    <3>4. CommandAt(failed + 2) < CommandAt(k)
      <4>1. failed + 2 < k
        BY <1>2, <1>3, <2>1
      <4>2. CommandAt(failed + 2) + MacLen <= CommandAt(k)
        BY <1>3, <3>1, <4>1, InOrderPlaces
      <4>3. CommandAt(failed + 2) \in Int /\ CommandAt(k) \in Int
        BY <1>3, <3>1, Places
      <4> QED
        BY <1>4, <4>2, <4>3
    <3>5. at + MacLen <= CommandAt(k)
      <4>1. CommandAt(failed + 2) \in Int
        BY <1>3, Places
      <4> QED
        BY <3>2, <3>3, <3>4, <4>1
    <3>6. CommandAt(k) .. (CommandAt(k) + MacLen - 1) \subseteq Bytes
      BY <3>1, InBytes
    <3>7. Get(Put(buf, at, Addr), CommandAt(k)) = Get(buf, CommandAt(k))
      BY <1>2, <1>3, <1>4, <3>2, <3>5, <3>6, PutElsewhere
    <3> QED
      BY <2>1, <3>1, <3>7 DEF CommandInv, UnreadInv
  <2>7. i' > 1 => failed' < i' - 1
    BY <1>1, <1>3, <2>1, <2>2
  <2>8. \A k \in i' .. Len(named') : Get(buf', CommandAt(k)) = named'[k]
    BY <1>1, <2>6
  <2>9. ToSet(told') \cup ToSet(refused') = {named'[k] : k \in 1 .. i' - 1} \ {Self}
    <3>1. ToSet(told) \cup (ToSet(refused) \cup {named[i]})
            = {named[k] : k \in 1 .. (i + 1) - 1} \ {Self}
      BY <1>1, <2>2, <2>4, <2>5, Zenon
    <3>2. ToSet(told') = ToSet(told) /\ named' = named /\ i' = i + 1
      BY <1>1
    <3> QED
      BY <2>3, <3>1, <3>2, Zenon
  <2> QED
    BY <2>7, <2>8, <2>9
<1> QED
  BY <1>5, <1>6, <1>7, <1>8 DEF CommandInv

LEMMA ReportStepInv == CommandInv /\ Report => CommandInv'
<1> SUFFICES ASSUME CommandInv, Report
             PROVE  CommandInv'
  OBVIOUS
<1> DEFINE Read == [k \in 1 .. failed |-> Get(buf, ResponseAt(k))]
<1>1. /\ pc = "loop" /\ ~Loops /\ pc' = "reboot"
      /\ report' = IF failed >= 1 /\ sockUp THEN Read ELSE report
      /\ UNCHANGED <<named, buf, num, i, failed, self, told, refused, sockUp>>
  BY DEF Report
<1>2. /\ failed = Len(refused) /\ refused \in Seq(MacBytes) /\ report = <<>>
      /\ num = Len(named) /\ Len(named) \in Nat
      /\ i \in 1 .. Len(named) + 1
  BY <1>1, LayoutType DEF CommandInv, TypeInv, NumberInv
<1>3. Read = refused
  <2>1. \A k \in 1 .. failed : Get(buf, ResponseAt(k)) = refused[k]
    BY DEF CommandInv, ReportInv
  <2> QED
    BY <1>2, <2>1
<1>4. sockUp => report' = refused
  <2>1. CASE failed >= 1
    BY <1>1, <1>3, <2>1
  <2>2. CASE ~(failed >= 1)
    <3>1. refused = <<>>
      BY <1>2, <2>2, EmptySeq
    <3> QED
      BY <1>1, <1>2, <2>2, <3>1
  <2> QED
    BY <2>1, <2>2
<1>5. report' \in Seq(MacBytes)
  BY <1>1, <1>2, <1>3, EmptySeq
<1>6. TypeInv'
  BY <1>1, <1>5 DEF CommandInv, TypeInv
<1>7. NumberInv'
  BY <1>1 DEF CommandInv, NumberInv
<1>8. ReportInv'
  <2>1. i = num + 1
    BY <1>1, <1>2 DEF Loops
  <2> QED
    BY <1>1, <1>4, <2>1 DEF CommandInv, ReportInv, Get
<1>9. UnreadInv'
  <2>1. UnreadInv' <=> UnreadInv
    BY <1>1 DEF UnreadInv, FirstReached, Get, ToSet
  <2> QED
    BY <2>1 DEF CommandInv
<1> QED
  BY <1>6, <1>7, <1>8, <1>9 DEF CommandInv

LEMMA EndInv == CommandInv /\ End => CommandInv'
<1> SUFFICES ASSUME CommandInv, End
             PROVE  CommandInv'
  OBVIOUS
<1>1. /\ pc = "reboot" /\ pc' = "done"
      /\ UNCHANGED <<named, buf, num, i, failed, self, told, refused, sockUp, report>>
  BY DEF End
<1>2. TypeInv' /\ NumberInv' /\ ReportInv'
  BY <1>1 DEF CommandInv, TypeInv, NumberInv, ReportInv, Get
<1>3. UnreadInv' <=> UnreadInv
  BY <1>1 DEF UnreadInv, FirstReached, Get, ToSet
<1> QED
  BY <1>2, <1>3 DEF CommandInv

LEMMA StutterInv == CommandInv /\ UNCHANGED vars => CommandInv'
<1> SUFFICES ASSUME CommandInv, UNCHANGED vars
             PROVE  CommandInv'
  OBVIOUS
<1>1. TypeInv' /\ NumberInv' /\ ReportInv'
  BY DEF vars, CommandInv, TypeInv, NumberInv, ReportInv, Get
<1>2. UnreadInv' <=> UnreadInv
  BY DEF vars, UnreadInv, FirstReached, Get, ToSet
<1> QED
  BY <1>1, <1>2 DEF CommandInv

LEMMA CalledFresh ==
  ASSUME CommandInv, NEW s \in BoundedSeq(Mac, MaxNamed), Called(s)
  PROVE  Fresh'
BY DEF Called, Fresh, CommandInv, TypeInv

LEMMA NothingNamed == <<>> \in BoundedSeq(Mac, MaxNamed)
<1>1. MaxNamed \in Nat
  BY MacAssumption
<1>2. <<>> \in [1 .. 0 -> Mac] /\ 0 \in 0 .. MaxNamed
  BY <1>1
<1> QED
  BY <1>2 DEF BoundedSeq, SeqOf

(***************************************************************************)
(* The invariant of root_do_restart, from command to command.              *)
(***************************************************************************)
THEOREM CommandCorrect == MeshSpec => []CommandInv
<1>1. MeshInit => CommandInv
  <2>1. MeshInit => Fresh
    BY NothingNamed DEF MeshInit, Init, Fresh
  <2> QED
    BY <2>1, FreshInv
<1>2. CommandInv /\ [MeshNext]_meshVars => CommandInv'
  <2> SUFFICES ASSUME CommandInv, [MeshNext]_meshVars
               PROVE  CommandInv'
    OBVIOUS
  <2>1. (Fresh => CommandInv)'
    BY FreshInv, PTL
  <2>2. CASE \E s \in BoundedSeq(Mac, MaxNamed) : Called(s)
    BY <2>1, <2>2, CalledFresh
  <2>3. CASE Command
    BY <2>3, ReadNumberInv, NamesSelfInv, TellInv, TellFailsInv, ReportStepInv, EndInv DEF Command
  <2>4. CASE Returned
    BY <2>1, <2>4, NothingNamed, CalledFresh DEF Returned
  <2>5. CASE UNCHANGED vars
    BY <2>5, StutterInv
  <2> QED
    BY <2>2, <2>3, <2>4, <2>5 DEF MeshNext, meshVars
<1> QED
  BY <1>1, <1>2, PTL DEF MeshSpec

(***************************************************************************)
(* The report names exactly the devices that could not be reached.         *)
(***************************************************************************)
THEOREM ReportsAlwaysRefused == MeshSpec => []ReportsRefused
<1>1. CommandInv => ReportsRefused
  BY DEF CommandInv, ReportInv, ReportsRefused, Finished
<1> QED
  BY <1>1, CommandCorrect, PTL

(***************************************************************************)
(* When the first device is reached, the report never overwrites an        *)
(* address that is still to be read.                                       *)
(***************************************************************************)
THEOREM FirstReachedAlwaysAllTold == MeshSpec => []FirstReachedAllTold
<1>1. CommandInv => FirstReachedAllTold
  <2> SUFFICES ASSUME CommandInv, Finished, FirstReached
               PROVE  ToSet(told) \cup ToSet(refused) = ToSet(named) \ {Self}
    BY DEF FirstReachedAllTold, FirstReached
  <2>1. num = Len(named) /\ i = num + 1 /\ num \in Nat
    BY LayoutType DEF CommandInv, NumberInv, ReportInv, Finished, TypeInv
  <2>2. ToSet(told) \cup ToSet(refused) = {named[k] : k \in 1 .. i - 1} \ {Self}
    BY DEF CommandInv, UnreadInv
  <2>3. 1 .. i - 1 = DOMAIN named
    BY <2>1, LayoutType DEF CommandInv, TypeInv
  <2> QED
    BY <2>2, <2>3 DEF ToSet
<1> QED
  BY <1>1, CommandCorrect, PTL

----------------------------------------------------------------------------
(* The watchdogs.                                                          *)

Machine == Present \cup {Self}

StateInv == state \in [Machine -> {"up", "expired", "pulsed"}]

\* One pulse is given a period after the last one at least.
LEMMA PeriodFeedOnce ==
  ASSUME StateInv, NEW d \in Machine, W!PeriodFeed(d)
  PROVE  UNCHANGED state
<1>1. CASE W!Due(d)
  <2>1. age[d] # 0
    BY <1>1, MeshAssumption DEF W!Due
  <2>2. state' = [state EXCEPT ![d] = state[d]]
    BY <1>1, <2>1 DEF W!PeriodFeed, W!FeedDog
  <2> QED
    BY <2>2 DEF StateInv
<1>2. CASE ~W!Due(d)
  BY <1>2 DEF W!PeriodFeed
<1> QED
  BY <1>1, <1>2

\* What may become of the state of a device.
LEMMA WatchdogStep ==
  ASSUME StateInv, W!WatchdogNext
  PROVE  /\ StateInv'
         /\ \A d \in Machine : state[d] # "pulsed" /\ state'[d] = "pulsed" => doing[d] = "restart"
<1>1. ASSUME UNCHANGED state
      PROVE  /\ StateInv'
             /\ \A d \in Machine : state[d] # "pulsed" /\ state'[d] = "pulsed" => doing[d] = "restart"
  BY <1>1 DEF StateInv
<1>2. CASE W!RootFeeds
  BY <1>1, <1>2, PeriodFeedOnce DEF W!RootFeeds, Machine
<1>3. CASE W!Round \/ W!ConnectFails \/ W!Joins \/ \E d \in Present : W!Commanded(d)
  BY <1>1, <1>3 DEF W!Round, W!ConnectFails, W!Joins, W!Commanded
<1>4. ASSUME NEW d \in Present, W!NodeHandles(d) \/ W!NodePhoto(d) \/ W!PhotoSent(d)
      PROVE  UNCHANGED state
  BY <1>4, PeriodFeedOnce DEF W!NodeHandles, W!NodePhoto, W!PhotoSent, Machine
<1>5. ASSUME NEW d \in Present, W!NodeRestarts(d)
      PROVE  UNCHANGED state
  BY <1>5 DEF W!NodeRestarts
<1>6. ASSUME NEW d \in Machine, W!Restart(d)
      PROVE  /\ StateInv'
             /\ \A e \in Machine : state[e] # "pulsed" /\ state'[e] = "pulsed" => doing[e] = "restart"
  <2>1. state' = [state EXCEPT ![d] = "pulsed"] /\ doing[d] = "restart"
    BY <1>6 DEF W!Restart, W!Pulses, W!FeedDog
  <2> QED
    BY <2>1 DEF StateInv
<1>7. CASE W!Tick
  <2>1. /\ DOMAIN state' = Machine
        /\ \A d \in Machine : state'[d] \in {"expired", state[d]}
    BY <1>7 DEF W!Tick, W!Device, Machine
  <2>2. state' = [d \in Machine |-> state'[d]]
    BY <1>7 DEF W!Tick, W!Device, Machine
  <2> QED
    BY <2>1, <2>2 DEF StateInv
<1> QED
  BY <1>1, <1>2, <1>3, <1>4, <1>5, <1>6, <1>7 DEF W!WatchdogNext, W!Device, Machine

LEMMA MeshStep ==
  ASSUME StateInv, [MeshNext]_meshVars
  PROVE  /\ StateInv'
         /\ \A d \in Machine : state[d] # "pulsed" /\ state'[d] = "pulsed" => doing[d] = "restart"
<1>1. CASE UNCHANGED state
  BY <1>1 DEF StateInv
<1>2. CASE W!WatchdogNext
  BY <1>2, WatchdogStep
<1>3. CASE W!TakeCommand
  BY <1>1, <1>3 DEF W!TakeCommand
<1>4. CASE Command \/ Returned
  BY <1>1, <1>4 DEF Command, Returned, watchVars, W!Tells, W!CommandDone
<1> QED
  BY <1>1, <1>2, <1>3, <1>4 DEF MeshNext, meshVars, watchVars

(***************************************************************************)
(* Two pulses come close together only for a restart, whatever the periods *)
(* of the pings, of the feeding and of the chip.                           *)
(***************************************************************************)
THEOREM OnlyToldAreReset == MeshSpec => ResetOnlyTold
<1>1. MeshInit => StateInv
  BY DEF MeshInit, W!WatchdogInit, W!Device, StateInv, Machine
<1>2. StateInv /\ [MeshNext]_meshVars => StateInv'
  BY MeshStep
<1>3. StateInv /\ [MeshNext]_meshVars =>
        [\A d \in Present \cup {Self} :
           state[d] # "pulsed" /\ state'[d] = "pulsed" => doing[d] = "restart"]_meshVars
  BY MeshStep DEF Machine
<1> QED
  BY <1>1, <1>2, <1>3, PTL DEF MeshSpec, ResetOnlyTold

----------------------------------------------------------------------------
(* The times.  A device feeds its watchdog when it reads a message and the *)
(* last pulse is Period old; the pings of the root see to it that it reads *)
(* one in time.                                                            *)

\* At most one thing comes between the root and the devices, and the chip
\* waits for what it and a restart may take.
Timing ==
  /\ Acts <= 1
  /\ Period - 1 + 2 * Interval < Expiry
  /\ Period - 1 + Interval + (Interval - 1) + Reboot < Expiry
  /\ Period - 1 + (Interval - 1) + Block < Expiry
  /\ Period - 1 + Photo < Expiry

Message == {"ping", "led", "photo", "restart"}

TimeType ==
  /\ age \in [Machine -> Nat] /\ StateInv
  /\ inbox \in [Present -> Seq(Message)]
  /\ doing \in [Machine -> {"idle", "photo", "restart"}] /\ left \in [Machine -> Nat]
  /\ ping \in 0 .. Interval /\ wake \in Nat
  /\ mesh \in {"round", "restart"} /\ link \in {"up", "down"} /\ adds \in Nat
  /\ spent \in [DOMAIN Limit -> Nat]
  /\ spent.lose + spent.block + spent.join + spent.command <= Acts

\* The root sends the ping that is due in its next round, which comes at once
\* unless the connection has failed or the root restarts.
RootTimes ==
  /\ mesh = "restart" => ping < Interval /\ link = "up" /\ doing[Self] = "idle"
  /\ link = "up" => wake <= 1
  /\ link = "down" => spent.block > 0 /\ doing[Self] = "idle" /\ wake <= Block
  /\ link = "up" /\ wake > 0 /\ doing[Self] = "idle" /\ W!Up(Self) => ping < Interval
  /\ doing[Self] = "restart" => left[Self] <= Reboot
  /\ doing[Self] # "photo"

\* How old the last pulse of a device may be: when the root has no ping to
\* send, and when nothing is on its way to the device.
Missed == IF spent.lose = 0 THEN 0 ELSE Interval

Low == Period - 1 + Missed + (Interval - 1)

Reach ==
  IF doing[Self] = "restart" THEN Low + (Reboot - left[Self])
  ELSE IF link = "down" /\ ping = Interval THEN Period - 1 + (Interval - 1) + (Block - wake)
  ELSE Period - 1 + Missed + ping

NodeTimes(d) ==
  W!Up(Self) /\ W!Up(d) =>
    /\ doing[d] = "idle" /\ inbox[d] = <<>> => age[d] <= Reach
    /\ doing[d] = "idle" /\ inbox[d] # <<>> /\ Head(inbox[d]) = "restart" => age[d] <= Low
    /\ doing[d] = "photo" => age[d] + left[d] <= Period - 1 + Photo
    /\ doing[d] = "restart" => age[d] + left[d] <= Low + Reboot

TimeInv ==
  TimeType /\ RootTimes /\ Fed /\ \A d \in Present : NodeTimes(d)

LEMMA TimeConstants ==
  /\ Interval \in Nat \ {0} /\ Period \in Nat \ {0} /\ Expiry \in Nat \ {0}
  /\ Reboot \in Nat \ {0} /\ Block \in Nat \ {0} /\ Photo \in Nat \ {0} /\ Acts \in Nat
  /\ {"lose", "block", "join", "command", "restart"} = DOMAIN Limit
  /\ Self \notin Present
BY MeshAssumption

\* A message is at the end of what is on its way.
LEMMA MessageSent ==
  ASSUME NEW q \in Seq(Message), NEW what \in Message
  PROVE  /\ Append(q, what) \in Seq(Message) /\ Append(q, what) # <<>>
         /\ Head(Append(q, what)) = IF q = <<>> THEN what ELSE Head(q)
<1>1. Append(q, what) \in Seq(Message) /\ Append(q, what) # <<>>
  BY AppendProperties
<1>2. CASE q = <<>>
  BY <1>2
<1>3. CASE q # <<>>
  <2>1. Len(q) \in Nat \ {0} /\ Head(q) = q[1] /\ Append(q, what)[1] = q[1]
    BY <1>3, EmptySeq, AppendProperties
  <2> QED
    BY <1>1, <1>3, <2>1
<1> QED
  BY <1>1, <1>2, <1>3

\* What is spent: a count goes up, and with Acts at most one thing happens.
LEMMA SpendOnce ==
  ASSUME TimeType, NEW what \in DOMAIN Limit, W!Spend(what)
  PROVE  /\ spent' \in [DOMAIN Limit -> Nat]
         /\ spent'.lose + spent'.block + spent'.join + spent'.command <= Acts
         /\ \A k \in DOMAIN Limit : spent'[k] = IF k = what THEN spent[k] + 1 ELSE spent[k]
<1>1. /\ spent' \in [DOMAIN Limit -> Nat]
      /\ \A k \in DOMAIN Limit : spent'[k] = IF k = what THEN spent[k] + 1 ELSE spent[k]
  BY TimeConstants DEF TimeType, W!Spend
<1>2. /\ spent.lose \in Nat /\ spent.block \in Nat /\ spent.join \in Nat /\ spent.command \in Nat
      /\ what \in {"lose", "block", "join", "command", "restart"}
  BY TimeConstants DEF TimeType
<1>3. what = "restart" \/ spent.lose + spent.block + spent.join + spent.command < Acts
  BY DEF W!Spend
<1>4. spent.lose + spent.block + spent.join + spent.command <= Acts
  BY DEF TimeType
<1>5. /\ spent'.lose = IF what = "lose" THEN spent.lose + 1 ELSE spent.lose
      /\ spent'.block = IF what = "block" THEN spent.block + 1 ELSE spent.block
      /\ spent'.join = IF what = "join" THEN spent.join + 1 ELSE spent.join
      /\ spent'.command = IF what = "command" THEN spent.command + 1 ELSE spent.command
  BY <1>1, TimeConstants
<1>6. spent'.lose + spent'.block + spent'.join + spent'.command <= Acts
  BY <1>2, <1>3, <1>4, <1>5, TimeConstants
<1> QED
  BY <1>1, <1>6

LEMMA Counts ==
  ASSUME TimeType
  PROVE  /\ spent.lose \in Nat /\ spent.block \in Nat /\ spent.join \in Nat /\ spent.command \in Nat
         /\ Missed \in {0, Interval}
         /\ Acts <= 1 /\ spent.block > 0 => Missed = 0
<1>1. spent.lose \in Nat /\ spent.block \in Nat /\ spent.join \in Nat /\ spent.command \in Nat
  BY TimeConstants DEF TimeType
<1>2. spent.lose + spent.block + spent.join + spent.command <= Acts
  BY DEF TimeType
<1> QED
  BY <1>1, <1>2, TimeConstants DEF Missed

\* The two bounds lie between the period and the time of the chip.
LEMMA Bounds ==
  ASSUME Timing
  PROVE  TimeType /\ RootTimes =>
           /\ Low \in Nat /\ Period - 1 <= Low /\ Low + Reboot < Expiry
           /\ Reach \in Int /\ Period - 1 <= Reach /\ Reach < Expiry
           /\ mesh = "restart" => Reach <= Low
<1> SUFFICES ASSUME TimeType, RootTimes
             PROVE  /\ Low \in Nat /\ Period - 1 <= Low /\ Low + Reboot < Expiry
                    /\ Reach \in Int /\ Period - 1 <= Reach /\ Reach < Expiry
                    /\ mesh = "restart" => Reach <= Low
  OBVIOUS
<1>1. Missed \in {0, Interval}
  BY Counts
<1>2. Low \in Nat /\ Period - 1 <= Low /\ Low + Reboot < Expiry
  BY <1>1, TimeConstants DEF Low, Timing
<1>3. /\ ping \in 0 .. Interval /\ wake \in Nat /\ left[Self] \in Nat
      /\ link = "down" => Missed = 0 /\ wake <= Block
      /\ doing[Self] = "restart" => left[Self] <= Reboot
      /\ mesh = "restart" => ping < Interval /\ link = "up" /\ doing[Self] = "idle"
  BY Counts DEF TimeType, RootTimes, Machine, Timing
<1>4. CASE doing[Self] = "restart"
  BY <1>2, <1>3, <1>4, TimeConstants DEF Reach
<1>5. CASE doing[Self] # "restart" /\ link = "down" /\ ping = Interval
  BY <1>2, <1>3, <1>5, TimeConstants DEF Reach, Timing
<1>6. CASE doing[Self] # "restart" /\ ~(link = "down" /\ ping = Interval)
  <2>1. Reach = Period - 1 + Missed + ping
    BY <1>6 DEF Reach
  <2> QED
    BY <1>1, <1>2, <1>3, <2>1, TimeConstants DEF Timing, Low
<1> QED
  BY <1>4, <1>5, <1>6

\* A device that nothing happens to, or that is sent something.
LEMMA NodeSent ==
  ASSUME TimeType, NEW d \in Present, NodeTimes(d),
         UNCHANGED <<state[Self], state[d], age[d], doing[d], left[d]>>,
         Low \in Nat, Low' \in Nat, Low <= Low',
         \/ inbox'[d] = inbox[d] /\ (W!Up(Self) => Reach <= Reach') /\ Reach \in Int /\ Reach' \in Int
         \/ \E what \in Message :
              /\ inbox'[d] = Append(inbox[d], what)
              /\ what # "restart" \/ age[d] <= Low' \/ inbox[d] # <<>> \/ doing[d] # "idle"
  PROVE  NodeTimes(d)'
<1>1. /\ age[d] \in Nat /\ left[d] \in Nat /\ inbox[d] \in Seq(Message)
      /\ Reboot \in Nat
  BY TimeConstants DEF TimeType, Machine
<1>2. CASE inbox'[d] = inbox[d] /\ (W!Up(Self) => Reach <= Reach') /\ Reach \in Int /\ Reach' \in Int
  BY <1>1, <1>2 DEF NodeTimes, W!Up
<1>3. ASSUME NEW what \in Message, inbox'[d] = Append(inbox[d], what),
             what # "restart" \/ age[d] <= Low' \/ inbox[d] # <<>> \/ doing[d] # "idle"
      PROVE  NodeTimes(d)'
  <2>1. inbox'[d] # <<>> /\ Head(inbox'[d]) = IF inbox[d] = <<>> THEN what ELSE Head(inbox[d])
    BY <1>1, <1>3, MessageSent
  <2> QED
    BY <1>1, <1>3, <2>1 DEF NodeTimes, W!Up
<1> QED
  BY <1>2, <1>3

\* What reading a message, or the end of a photo, leaves of the age.
LEMMA FedYoung ==
  ASSUME TimeType, NEW d \in Machine, W!PeriodFeed(d)
  PROVE  /\ age' \in [Machine -> Nat] /\ age'[d] <= Period - 1
         /\ \A e \in Machine : e # d => age'[e] = age[e]
         /\ UNCHANGED state
<1>1. UNCHANGED state
  BY PeriodFeedOnce DEF TimeType
<1>2. CASE W!Due(d)
  <2>1. age' = [age EXCEPT ![d] = 0]
    BY <1>2 DEF W!PeriodFeed, W!FeedDog
  <2> QED
    BY <1>1, <2>1, TimeConstants DEF TimeType
<1>3. CASE ~W!Due(d)
  <2>1. age' = age /\ ~(age[d] >= Period)
    BY <1>3 DEF W!PeriodFeed, W!Due
  <2> QED
    BY <1>1, <2>1, TimeConstants DEF TimeType
<1> QED
  BY <1>2, <1>3

LEMMA BoundsNext ==
  ASSUME Timing
  PROVE  (TimeType /\ RootTimes =>
            /\ Low \in Nat /\ Period - 1 <= Low /\ Low + Reboot < Expiry
            /\ Reach \in Int /\ Period - 1 <= Reach /\ Reach < Expiry
            /\ mesh = "restart" => Reach <= Low)'
<1>1. TimeType /\ RootTimes =>
        /\ Low \in Nat /\ Period - 1 <= Low /\ Low + Reboot < Expiry
        /\ Reach \in Int /\ Period - 1 <= Reach /\ Reach < Expiry
        /\ mesh = "restart" => Reach <= Low
  BY Bounds
<1> QED
  BY <1>1, PTL

\* What is sent to some devices.
LEMMA SentTo ==
  ASSUME TimeType, NEW to, NEW what \in Message, W!Sent(to, what)
  PROVE  /\ inbox' \in [Present -> Seq(Message)]
         /\ \A d \in Present :
              inbox'[d] = IF d \in to /\ W!Up(d) THEN Append(inbox[d], what) ELSE inbox[d]
<1>1. inbox' = [d \in Present |->
                  IF d \in to /\ W!Up(d) THEN Append(inbox[d], what) ELSE inbox[d]]
  BY DEF W!Sent
<1>2. \A d \in Present : inbox[d] \in Seq(Message) /\ Append(inbox[d], what) \in Seq(Message)
  BY MessageSent DEF TimeType
<1> QED
  BY <1>1, <1>2

\* tcp_client_read_task, and a device that joins
LEMMA AsideStep ==
  ASSUME Timing, TimeInv, W!RootFeeds \/ W!Joins
  PROVE  TimeInv'
<1>1. UNCHANGED <<inbox, doing, left, ping, wake, mesh, link>>
  BY DEF W!RootFeeds, W!Joins, W!rootVars
<1>2. /\ age' \in [Machine -> Nat] /\ UNCHANGED state
      /\ \A d \in Present : age'[d] = age[d]
  <2>1. CASE W!RootFeeds
    BY <2>1, FedYoung, TimeConstants DEF W!RootFeeds, TimeInv, Machine
  <2>2. CASE W!Joins
    BY <2>2 DEF W!Joins, TimeInv, TimeType
  <2> QED
    BY <2>1, <2>2
<1>3. /\ adds' \in Nat /\ spent' \in [DOMAIN Limit -> Nat]
      /\ spent'.lose + spent'.block + spent'.join + spent'.command <= Acts
      /\ UNCHANGED <<spent.lose, spent.block>>
  <2>1. CASE W!RootFeeds
    BY <2>1 DEF W!RootFeeds, W!rootVars, TimeInv, TimeType
  <2>2. CASE W!Joins
    <3>1. W!Spend("join") /\ adds' = adds + 1
      BY <2>2 DEF W!Joins
    <3>2. adds' \in Nat /\ TimeType
      BY <3>1 DEF TimeInv, TimeType
    <3>3. /\ spent' \in [DOMAIN Limit -> Nat]
          /\ spent'.lose + spent'.block + spent'.join + spent'.command <= Acts
          /\ spent'.lose = spent.lose /\ spent'.block = spent.block
      BY <3>1, <3>2, SpendOnce, TimeConstants
    <3> QED
      BY <3>2, <3>3
  <2> QED
    BY <2>1, <2>2
<1>4. TimeType'
  BY <1>1, <1>2, <1>3 DEF TimeInv, TimeType, StateInv
<1>5. RootTimes' /\ Low' = Low /\ Reach' = Reach
  BY <1>1, <1>2, <1>3 DEF TimeInv, RootTimes, Low, Reach, Missed, W!Up
<1>6. ASSUME NEW d \in Present
      PROVE  NodeTimes(d)'
  BY <1>1, <1>2, <1>5 DEF TimeInv, NodeTimes, W!Up
<1> QED
  BY <1>2, <1>4, <1>5, <1>6 DEF TimeInv, Fed

\* root_send_ping in a round
LEMMA RoundStep ==
  ASSUME Timing, TimeInv, W!Round
  PROVE  TimeInv'
<1>1. /\ UNCHANGED <<age, state, doing, left, mesh>> /\ link' = "up" /\ wake' = 1
      /\ mesh = "round" /\ doing[Self] = "idle" /\ W!Up(Self)
  BY DEF W!Round, W!Between, W!Free
<1>2. /\ wake = 0 \/ link = "up"
      /\ ping \in 0 .. Interval /\ adds \in Nat /\ Missed \in {0, Interval}
  BY Counts DEF W!Round, W!Between, TimeInv, TimeType
<1>3. CASE ~W!PingDue
  <2>1. UNCHANGED <<ping, adds, inbox, spent>> /\ ping < Interval
    BY <1>2, <1>3, TimeConstants DEF W!Round, W!SendPing, W!PingDue
  <2>2. TimeType' /\ RootTimes'
    BY <1>1, <2>1 DEF TimeInv, TimeType, RootTimes, StateInv, W!Up
  <2>3. Low' = Low /\ Reach' = Reach
    BY <1>1, <2>1, TimeConstants DEF Low, Reach, Missed
  <2>4. ASSUME NEW d \in Present
        PROVE  NodeTimes(d)'
    BY <1>1, <2>1, <2>3 DEF TimeInv, NodeTimes, W!Up
  <2> QED
    BY <1>1, <2>2, <2>4 DEF TimeInv, Fed
<1>4. CASE W!PingDue
  <2>1. /\ ping' = 0 /\ adds' \in Nat
        /\ \/ W!Sent(Present, "ping") /\ UNCHANGED spent
           \/ W!Sent({}, "ping") /\ W!Spend("lose")
    BY <1>2, <1>4 DEF W!Round, W!SendPing, W!Less
  <2>2. /\ spent' \in [DOMAIN Limit -> Nat]
        /\ spent'.lose + spent'.block + spent'.join + spent'.command <= Acts
        /\ spent'.lose = spent.lose \/ (W!Spend("lose") /\ spent'.lose = spent.lose + 1)
    BY <2>1, SpendOnce, TimeConstants DEF TimeInv, TimeType
  <2>3. inbox' \in [Present -> Seq(Message)]
    BY <2>1, SentTo DEF TimeInv, Message
  <2>4. TimeType' /\ RootTimes'
    <3>1. ping' \in 0 .. Interval /\ ping' < Interval
      BY <2>1, TimeConstants
    <3>2. TimeType'
      BY <1>1, <2>1, <2>2, <2>3, <3>1 DEF TimeInv, TimeType, StateInv
    <3>3. RootTimes'
      BY <1>1, <3>1 DEF RootTimes
    <3> QED
      BY <3>2, <3>3
  <2>5. /\ Low \in Nat /\ Low' \in Nat /\ Reach \in Int /\ Reach' \in Int
    BY <2>4, Bounds, BoundsNext DEF TimeInv
  <2>6. Low <= Low'
    BY <2>2, Counts, TimeConstants DEF TimeInv, Low, Missed
  <2>7. ASSUME NEW d \in Present
        PROVE  NodeTimes(d)'
    <3>1. CASE W!Sent(Present, "ping")
      <4>1. inbox'[d] = IF W!Up(d) THEN Append(inbox[d], "ping") ELSE inbox[d]
        BY <3>1, SentTo DEF TimeInv, Message
      <4>2. CASE W!Up(d)
        BY <1>1, <2>5, <2>6, <4>1, <4>2, NodeSent DEF TimeInv, Message
      <4> QED
        BY <1>1, <4>2 DEF NodeTimes, W!Up
    <3>2. CASE W!Sent({}, "ping") /\ W!Spend("lose")
      <4>1. inbox'[d] = inbox[d]
        BY <3>2, SentTo DEF TimeInv, Message
      <4>2. spent.lose = 0 /\ spent.block = 0 /\ spent'.lose = 1
        <5>1. spent'.lose = spent.lose + 1 /\ spent'.block = spent.block
          BY <3>2, SpendOnce, TimeConstants DEF TimeInv
        <5>2. spent'.join \in Nat /\ spent'.command \in Nat
          BY <2>2, TimeConstants
        <5> QED
          BY <2>2, <5>1, <5>2, Counts, TimeConstants DEF TimeInv, Timing
      <4>3. link = "up"
        BY <4>2 DEF TimeInv, RootTimes, TimeType
      <4>4. Reach = Period - 1 + ping /\ Reach' = Period - 1 + Interval
        BY <1>1, <2>1, <4>2, <4>3, TimeConstants DEF Reach, Missed
      <4>5. Reach <= Reach'
        BY <1>2, <4>4, TimeConstants
      <4> QED
        BY <1>1, <2>5, <2>6, <4>1, <4>5, NodeSent DEF TimeInv
    <3> QED
      BY <2>1, <3>1, <3>2
  <2> QED
    BY <1>1, <2>4, <2>7 DEF TimeInv, Fed
<1> QED
  BY <1>3, <1>4

\* A connection that fails; a ping that is due is sent before it is tried.
LEMMA FailStep ==
  ASSUME Timing, TimeInv, W!ConnectFails
  PROVE  TimeInv'
<1>1. /\ UNCHANGED <<age, state, doing, left, mesh>> /\ link' = "down" /\ wake' \in 1 .. Block
      /\ mesh = "round" /\ doing[Self] = "idle" /\ W!Up(Self) /\ wake = 0
      /\ W!Spend("block") /\ W!SendPing(Present)
  BY DEF W!ConnectFails, W!Free
<1>2. /\ ping \in 0 .. Interval /\ adds \in Nat /\ Missed \in {0, Interval}
      /\ TimeType /\ spent.block \in Nat
  BY Counts DEF TimeInv, TimeType
<1>3. /\ spent' \in [DOMAIN Limit -> Nat]
      /\ spent'.lose + spent'.block + spent'.join + spent'.command <= Acts
      /\ spent'.lose = spent.lose /\ spent'.block = spent.block + 1
  BY <1>1, <1>2, SpendOnce, TimeConstants
<1>4. \/ UNCHANGED <<ping, adds, inbox>> /\ ping < Interval
      \/ ping' = 0 /\ adds' \in Nat /\ W!Sent(Present, "ping")
  BY <1>1, <1>2, TimeConstants DEF W!SendPing, W!PingDue, W!Less
<1>5. ping' \in 0 .. Interval /\ ping' < Interval /\ adds' \in Nat /\ wake' \in Nat
  BY <1>1, <1>2, <1>4, TimeConstants
<1>6. inbox' \in [Present -> Seq(Message)]
  <2>1. CASE UNCHANGED inbox
    BY <1>2, <2>1 DEF TimeType
  <2>2. CASE W!Sent(Present, "ping")
    BY <1>2, <2>2, SentTo DEF Message
  <2> QED
    BY <1>4, <2>1, <2>2
<1>7. TimeType'
  BY <1>1, <1>2, <1>3, <1>5, <1>6 DEF TimeType, StateInv
<1>8. RootTimes'
  <2>1. spent'.block > 0 /\ wake' <= Block
    BY <1>1, <1>2, <1>3, TimeConstants
  <2> QED
    BY <1>1, <2>1 DEF RootTimes
<1>9. Low' = Low /\ Low \in Nat /\ Reach \in Int /\ Reach' \in Int
  BY <1>3, <1>7, <1>8, Bounds, BoundsNext DEF TimeInv, Low, Missed
<1>10. ASSUME NEW d \in Present
       PROVE  NodeTimes(d)'
  <2>1. CASE UNCHANGED <<ping, inbox>> /\ ping < Interval
    <3>1. Reach' = Reach
      BY <1>1, <1>3, <2>1, TimeConstants DEF Reach, Missed
    <3> QED
      BY <1>1, <1>9, <2>1, <3>1 DEF TimeInv, NodeTimes, W!Up
  <2>2. CASE W!Sent(Present, "ping")
    <3>1. inbox'[d] = IF W!Up(d) THEN Append(inbox[d], "ping") ELSE inbox[d]
      BY <1>2, <2>2, SentTo DEF Message
    <3>2. CASE W!Up(d)
      BY <1>1, <1>9, <3>1, <3>2, NodeSent DEF TimeInv, Message
    <3> QED
      BY <1>1, <3>2 DEF NodeTimes, W!Up
  <2> QED
    BY <1>4, <2>1, <2>2
<1> QED
  BY <1>1, <1>7, <1>8, <1>10 DEF TimeInv, Fed

\* A light or a photo
LEMMA CommandedStep ==
  ASSUME Timing, TimeInv, NEW e \in Present, W!Commanded(e)
  PROVE  TimeInv'
<1>1. /\ UNCHANGED <<age, state, doing, left, ping, wake, mesh, link, adds>>
      /\ W!Spend("command") /\ TimeType
  BY DEF W!Commanded, W!rootVars, TimeInv
<1>2. PICK what \in {"led", "photo"} : W!Sent({e}, what)
  BY DEF W!Commanded
<1>3. /\ spent' \in [DOMAIN Limit -> Nat]
      /\ spent'.lose + spent'.block + spent'.join + spent'.command <= Acts
      /\ spent'.lose = spent.lose /\ spent'.block = spent.block
  BY <1>1, SpendOnce, TimeConstants
<1>4. what \in Message /\ what # "restart"
  BY DEF Message
<1>5. /\ inbox' \in [Present -> Seq(Message)]
      /\ \A d \in Present :
           inbox'[d] = IF d \in {e} /\ W!Up(d) THEN Append(inbox[d], what) ELSE inbox[d]
  BY <1>1, <1>2, <1>4, SentTo
<1>6. TimeType' /\ RootTimes'
  BY <1>1, <1>3, <1>5 DEF TimeInv, TimeType, RootTimes, StateInv, W!Up
<1>7. Low' = Low /\ Reach' = Reach /\ Low \in Nat /\ Reach \in Int
  BY <1>1, <1>3, Bounds DEF TimeInv, Low, Reach, Missed
<1>8. ASSUME NEW d \in Present
      PROVE  NodeTimes(d)'
  <2>1. inbox'[d] = inbox[d] \/ inbox'[d] = Append(inbox[d], what)
    BY <1>5
  <2>2. NodeTimes(d) /\ Low <= Low' /\ Reach <= Reach'
    BY <1>7 DEF TimeInv
  <2> QED
    BY <1>1, <1>4, <1>7, <2>1, <2>2, NodeSent
<1> QED
  BY <1>1, <1>6, <1>8 DEF TimeInv, Fed

\* node_task reads a message, or has sent its photo; a restart makes the
\* device wait before it gives its pulses.
LEMMA NodeStep ==
  ASSUME Timing, TimeInv, NEW e \in Present,
         W!NodeHandles(e) \/ W!NodePhoto(e) \/ W!NodeRestarts(e) \/ W!PhotoSent(e)
  PROVE  TimeInv'
<1>1. /\ UNCHANGED <<ping, wake, mesh, link, adds, spent>>
      /\ TimeType /\ RootTimes /\ e \in Machine /\ e # Self
  BY TimeConstants DEF W!NodeHandles, W!NodePhoto, W!NodeRestarts, W!PhotoSent, W!Reads,
     W!rootVars, TimeInv, Machine
<1>2. /\ inbox' \in [Present -> Seq(Message)]
      /\ \A d \in Present : d # e => inbox'[d] = inbox[d]
  <2>1. inbox' = inbox \/ (inbox[e] # <<>> /\ inbox' = [inbox EXCEPT ![e] = Tail(@)])
    BY DEF W!NodeHandles, W!NodePhoto, W!NodeRestarts, W!PhotoSent, W!Reads
  <2>2. inbox[e] # <<>> => Tail(inbox[e]) \in Seq(Message)
    BY <1>1, HeadTailProperties DEF TimeType
  <2> QED
    BY <1>1, <2>1, <2>2 DEF TimeType
<1>3. /\ doing' \in [Machine -> {"idle", "photo", "restart"}]
      /\ \A d \in Machine : d # e => doing'[d] = doing[d]
  BY <1>1 DEF W!NodeHandles, W!NodePhoto, W!NodeRestarts, W!PhotoSent, TimeType
<1>4. /\ left' \in [Machine -> Nat]
      /\ \A d \in Machine : d # e => left'[d] = left[d]
  BY <1>1, TimeConstants DEF W!NodeHandles, W!NodePhoto, W!NodeRestarts, W!PhotoSent, TimeType
<1>5. /\ age' \in [Machine -> Nat] /\ UNCHANGED state
      /\ \A d \in Machine : d # e => age'[d] = age[d]
      /\ W!NodeRestarts(e) \/ age'[e] <= Period - 1
  <2>1. CASE W!NodeRestarts(e)
    BY <1>1, <2>1 DEF W!NodeRestarts, TimeType
  <2>2. CASE W!NodeHandles(e) \/ W!NodePhoto(e) \/ W!PhotoSent(e)
    BY <1>1, <2>2, FedYoung DEF W!NodeHandles, W!NodePhoto, W!PhotoSent
  <2> QED
    BY <2>1, <2>2
<1>6. doing'[Self] = doing[Self] /\ left'[Self] = left[Self]
  BY <1>1, <1>3, <1>4 DEF Machine
<1>7. TimeType'
  BY <1>1, <1>2, <1>3, <1>4, <1>5 DEF TimeType, StateInv
<1>8. RootTimes' /\ Low' = Low /\ Reach' = Reach
  BY <1>1, <1>5, <1>6 DEF RootTimes, Low, Reach, Missed, W!Up
<1>9. ASSUME NEW d \in Present, d # e
      PROVE  NodeTimes(d)'
  BY <1>2, <1>3, <1>4, <1>5, <1>8, <1>9 DEF TimeInv, NodeTimes, W!Up, Machine
<1>10. NodeTimes(e)'
  <2>1. /\ Low \in Nat /\ Reach \in Int /\ Period - 1 <= Low /\ Period - 1 <= Reach
        /\ age[e] \in Nat /\ age'[e] \in Nat /\ left'[e] \in Nat
    BY <1>1, <1>4, <1>5, Bounds DEF TimeType
  <2>2. CASE W!NodeHandles(e) \/ W!PhotoSent(e)
    <3>1. doing'[e] = "idle"
      BY <1>1, <2>2 DEF W!NodeHandles, W!PhotoSent, W!Reads, W!Free, TimeType
    <3>2. age'[e] <= Period - 1
      BY <1>5, <2>2, FedYoung, <1>1 DEF W!NodeHandles, W!PhotoSent
    <3> QED
      BY <1>8, <2>1, <3>1, <3>2, TimeConstants DEF NodeTimes
  <2>3. CASE W!NodePhoto(e)
    <3>1. doing'[e] = "photo" /\ left'[e] \in 0 .. Photo
      BY <1>1, <2>3 DEF W!NodePhoto, TimeType
    <3>2. age'[e] <= Period - 1
      BY <1>1, <2>3, FedYoung DEF W!NodePhoto
    <3> QED
      BY <2>1, <3>1, <3>2, TimeConstants DEF NodeTimes
  <2>4. CASE W!NodeRestarts(e)
    <3>1. /\ doing'[e] = "restart" /\ left'[e] = Reboot /\ age' = age
          /\ doing[e] = "idle" /\ W!Up(e) /\ inbox[e] # <<>> /\ Head(inbox[e]) = "restart"
      BY <1>1, <2>4 DEF W!NodeRestarts, W!Reads, W!Free, TimeType
    <3>2. W!Up(Self) => age[e] <= Low
      BY <3>1 DEF TimeInv, NodeTimes
    <3> QED
      BY <1>5, <1>8, <2>1, <3>1, <3>2, TimeConstants DEF NodeTimes, W!Up
  <2> QED
    BY <2>2, <2>3, <2>4
<1> QED
  BY <1>5, <1>7, <1>8, <1>9, <1>10 DEF TimeInv, Fed

\* The two pulses of a restart; nothing is asked of a device that is reset.
LEMMA PulsedStep ==
  ASSUME Timing, TimeInv, NEW e \in Machine, W!Restart(e)
  PROVE  TimeInv'
<1>1. /\ UNCHANGED <<inbox, left, ping, wake, mesh, link, adds, spent>>
      /\ age' = [age EXCEPT ![e] = 0] /\ state' = [state EXCEPT ![e] = "pulsed"]
      /\ doing' = [doing EXCEPT ![e] = "idle"] /\ doing[e] = "restart"
      /\ TimeType /\ RootTimes
  BY DEF W!Restart, W!Pulses, W!FeedDog, W!rootVars, TimeInv
<1>2. TimeType'
  BY <1>1 DEF TimeType, StateInv
<1>3. /\ state'[e] = "pulsed" /\ doing'[e] = "idle"
      /\ \A d \in Machine : d # e => age'[d] = age[d] /\ state'[d] = state[d] /\ doing'[d] = doing[d]
      /\ Self \in Machine /\ Present \subseteq Machine
  BY <1>1 DEF TimeType, StateInv, Machine
<1>4. RootTimes'
  <2>1. CASE e = Self
    BY <1>1, <1>3, <2>1 DEF RootTimes, W!Up
  <2>2. CASE e # Self
    <3>1. doing'[Self] = doing[Self] /\ state'[Self] = state[Self]
      BY <1>3, <2>2
    <3> QED
      BY <1>1, <3>1 DEF RootTimes, W!Up
  <2> QED
    BY <2>1, <2>2
<1>5. ASSUME NEW d \in Present
      PROVE  NodeTimes(d)'
  <2>1. CASE e = Self \/ e = d
    BY <1>3, <2>1 DEF NodeTimes, W!Up
  <2>2. CASE e # Self /\ e # d
    <3>1. UNCHANGED <<doing[Self], state[Self], doing[d], state[d], age[d]>>
      BY <1>3, <2>2
    <3>2. Low' = Low /\ Reach' = Reach
      BY <1>1, <3>1 DEF Low, Reach, Missed
    <3> QED
      BY <1>1, <3>1, <3>2 DEF TimeInv, NodeTimes, W!Up
  <2> QED
    BY <2>1, <2>2
<1>6. Fed'
  BY <1>3 DEF TimeInv, Fed, Machine
<1> QED
  BY <1>2, <1>4, <1>5, <1>6 DEF TimeInv

\* A command to restart comes between two pings.
LEMMA TakeStep ==
  ASSUME Timing, TimeInv, W!TakeCommand
  PROVE  TimeInv'
<1>1. /\ UNCHANGED <<age, state, inbox, doing, left, ping, wake, link, adds>>
      /\ mesh' = "restart" /\ link = "up" /\ doing[Self] = "idle" /\ W!Spend("restart")
      /\ TimeType /\ RootTimes
  BY DEF W!TakeCommand, W!Free, TimeInv
<1>2. ping < Interval
  BY <1>1, TimeConstants DEF W!TakeCommand, W!PingDue, TimeType
<1>3. /\ spent' \in [DOMAIN Limit -> Nat]
      /\ spent'.lose + spent'.block + spent'.join + spent'.command <= Acts
      /\ spent'.lose = spent.lose /\ spent'.block = spent.block
  BY <1>1, SpendOnce, TimeConstants
<1>4. TimeType' /\ RootTimes'
  BY <1>1, <1>2, <1>3 DEF TimeType, RootTimes, StateInv, W!Up
<1>5. Low' = Low /\ Reach' = Reach
  BY <1>1, <1>3 DEF Low, Reach, Missed
<1>6. ASSUME NEW d \in Present
      PROVE  NodeTimes(d)'
  BY <1>1, <1>5 DEF TimeInv, NodeTimes, W!Up
<1> QED
  BY <1>1, <1>4, <1>6 DEF TimeInv, Fed

\* The restart is passed on while the devices are still young enough for it.
LEMMA TellsStep ==
  ASSUME Timing, TimeInv, NEW to, W!Tells(to), Serving
  PROVE  TimeInv'
<1>1. /\ UNCHANGED <<age, state, doing, left, ping, wake, mesh, link, adds, spent>>
      /\ W!Sent(to, "restart") /\ "restart" \in Message /\ TimeType /\ RootTimes
  BY DEF W!Tells, W!rootVars, TimeInv, Message
<1>2. /\ inbox' \in [Present -> Seq(Message)]
      /\ \A d \in Present :
           inbox'[d] = IF d \in to /\ W!Up(d) THEN Append(inbox[d], "restart") ELSE inbox[d]
  BY <1>1, SentTo
<1>3. TimeType' /\ RootTimes' /\ Low' = Low /\ Reach' = Reach
  BY <1>1, <1>2 DEF TimeType, RootTimes, StateInv, Low, Reach, Missed, W!Up
<1>4. Low \in Nat /\ Reach \in Int /\ Reach <= Low
  BY <1>1, Bounds DEF Serving
<1>5. ASSUME NEW d \in Present
      PROVE  NodeTimes(d)'
  <2>1. age[d] \in Nat /\ NodeTimes(d)
    BY <1>1 DEF TimeInv, TimeType, Machine
  <2>2. CASE inbox'[d] = inbox[d]
    BY <1>1, <1>3, <2>1, <2>2 DEF NodeTimes, W!Up
  <2>3. CASE W!Up(d) /\ inbox'[d] = Append(inbox[d], "restart")
    <3>1. CASE ~W!Up(Self)
      BY <1>1, <3>1 DEF NodeTimes, W!Up
    <3>2. CASE W!Up(Self)
      <4>1. age[d] <= Low \/ inbox[d] # <<>> \/ doing[d] # "idle"
        BY <1>4, <2>1, <2>3, <3>2 DEF NodeTimes
      <4> QED
        BY <1>1, <1>3, <1>4, <2>1, <2>3, <4>1, NodeSent
    <3> QED
      BY <3>1, <3>2
  <2> QED
    BY <1>2, <2>2, <2>3
<1> QED
  BY <1>1, <1>3, <1>5 DEF TimeInv, Fed

\* root_do_restart returns; the root restarts itself or goes on.
LEMMA DoneCommandStep ==
  ASSUME Timing, TimeInv, W!CommandDone(self)
  PROVE  TimeInv'
<1>1. /\ UNCHANGED <<age, state, inbox, ping, link, adds, spent>>
      /\ mesh = "restart" /\ mesh' = "round" /\ wake' = 1
      /\ TimeType /\ RootTimes
  BY DEF W!CommandDone, TimeInv
<1>2. \/ UNCHANGED <<doing, left>>
      \/ doing' = [doing EXCEPT ![Self] = "restart"] /\ left' = [left EXCEPT ![Self] = Reboot]
  BY DEF W!CommandDone
<1>3. /\ ping < Interval /\ link = "up" /\ doing[Self] = "idle"
      /\ Self \in Machine /\ Present \subseteq Machine \ {Self}
  BY <1>1, TimeConstants DEF RootTimes, Machine
<1>4. /\ doing' \in [Machine -> {"idle", "photo", "restart"}] /\ left' \in [Machine -> Nat]
      /\ doing'[Self] = "idle" \/ (doing'[Self] = "restart" /\ left'[Self] = Reboot)
      /\ \A d \in Present : doing'[d] = doing[d] /\ left'[d] = left[d]
  <2>1. CASE UNCHANGED <<doing, left>>
    BY <1>1, <1>3, <2>1 DEF TimeType
  <2>2. CASE doing' = [doing EXCEPT ![Self] = "restart"] /\ left' = [left EXCEPT ![Self] = Reboot]
    BY <1>1, <1>3, <2>2, TimeConstants DEF TimeType
  <2> QED
    BY <1>2, <2>1, <2>2
<1>5. TimeType'
  BY <1>1, <1>4 DEF TimeType, StateInv
<1>6. RootTimes'
  BY <1>1, <1>3, <1>4, TimeConstants DEF RootTimes
<1>7. /\ Low' = Low /\ Low \in Nat /\ Reach \in Int /\ Reach' \in Int /\ Reach <= Low
  BY <1>1, <1>5, <1>6, Bounds, BoundsNext DEF Low, Missed
<1>8. Reach <= Reach'
  <2>1. CASE doing'[Self] = "idle"
    <3>1. Reach' = Reach
      BY <1>1, <1>3, <2>1 DEF Reach, Missed, Low
    <3> QED
      BY <1>7, <3>1
  <2>2. CASE doing'[Self] = "restart" /\ left'[Self] = Reboot
    <3>1. Reach' = Low + (Reboot - Reboot)
      BY <1>7, <2>2 DEF Reach
    <3> QED
      BY <1>7, <3>1, TimeConstants
  <2> QED
    BY <1>4, <2>1, <2>2
<1>9. ASSUME NEW d \in Present
      PROVE  NodeTimes(d)'
  <2>1. NodeTimes(d) /\ Low <= Low' /\ inbox'[d] = inbox[d]
        /\ UNCHANGED <<state[Self], state[d], age[d], doing[d], left[d]>>
    BY <1>1, <1>4, <1>7 DEF TimeInv
  <2> QED
    BY <1>1, <1>7, <1>8, <2>1, NodeSent
<1> QED
  BY <1>1, <1>5, <1>6, <1>9 DEF TimeInv, Fed

LEMMA Passing ==
  ASSUME TimeInv, W!Tick
  PROVE  /\ W!Up(Self) /\ age[Self] < Period /\ mesh = "round"
         /\ doing[Self] = "restart" \/ wake > 0
         /\ \A d \in Machine : W!Up(d) /\ doing[d] # "idle" => left[d] > 0
         /\ \A d \in Present : W!Up(d) /\ doing[d] = "idle" => inbox[d] = <<>>
         /\ \A d \in Machine :
              /\ age'[d] = IF age[d] < Expiry THEN age[d] + 1 ELSE age[d]
              /\ state'[d] = IF W!Up(d) /\ age'[d] = Expiry THEN "expired" ELSE state[d]
              /\ left'[d] = IF left[d] > 0 THEN left[d] - 1 ELSE 0
         /\ age' \in [Machine -> Nat] /\ left' \in [Machine -> Nat] /\ StateInv'
         /\ ping' = IF ping < Interval THEN ping + 1 ELSE ping
         /\ wake' = IF wake > 0 THEN wake - 1 ELSE 0
         /\ UNCHANGED <<inbox, doing, mesh, link, adds, spent>>
<1>1. Machine = W!Device /\ Self \in Machine /\ TimeType
  BY DEF Machine, W!Device, TimeInv
<1>2. W!Up(Self) /\ W!Settled
  BY DEF W!Tick
<1>3. age[Self] < Period
  BY <1>1, <1>2, TimeConstants DEF W!Settled, W!Due, TimeType
<1>4. /\ mesh = "round"
      /\ doing[Self] = "restart" \/ wake > 0
      /\ \A d \in Machine : W!Up(d) /\ doing[d] # "idle" => left[d] > 0
      /\ \A d \in Present : W!Up(d) /\ doing[d] = "idle" => inbox[d] = <<>>
  BY <1>1, <1>2 DEF W!Settled, W!Free
<1>5. /\ age' = [d \in Machine |-> IF age[d] < Expiry THEN age[d] + 1 ELSE age[d]]
      /\ state' = [d \in Machine |-> IF W!Up(d) /\ age'[d] = Expiry THEN "expired" ELSE state[d]]
      /\ left' = [d \in Machine |-> IF left[d] > 0 THEN left[d] - 1 ELSE 0]
  BY <1>1 DEF W!Tick, W!More, W!Less
<1>6. age' \in [Machine -> Nat] /\ left' \in [Machine -> Nat]
  BY <1>1, <1>5 DEF TimeType
<1>7. StateInv'
  BY <1>1, <1>5 DEF TimeType, StateInv
<1>8. /\ ping' = IF ping < Interval THEN ping + 1 ELSE ping
      /\ wake' = IF wake > 0 THEN wake - 1 ELSE 0
      /\ UNCHANGED <<inbox, doing, mesh, link, adds, spent>>
  BY DEF W!Tick, W!More, W!Less
<1> QED
  BY <1>2, <1>3, <1>4, <1>5, <1>6, <1>7, <1>8

\* A unit passes: every age stays below the time of the chip.
LEMMA TickStep ==
  ASSUME Timing, TimeInv, W!Tick
  PROVE  TimeInv'
<1>1. /\ TimeType /\ RootTimes /\ Self \in Machine /\ Present \subseteq Machine
      /\ ping \in 0 .. Interval /\ wake \in Nat /\ Missed \in {0, Interval}
      /\ UNCHANGED <<inbox, doing, mesh, link, adds, spent>>
  BY Passing, Counts DEF TimeInv, TimeType, Machine
<1>2. /\ ping' = IF ping < Interval THEN ping + 1 ELSE ping
      /\ wake' = IF wake > 0 THEN wake - 1 ELSE 0
      /\ left'[Self] = IF left[Self] > 0 THEN left[Self] - 1 ELSE 0
  BY <1>1, Passing
<1>3. ping' \in 0 .. Interval /\ wake' \in Nat /\ wake' <= wake
  BY <1>1, <1>2, TimeConstants
<1>4. TimeType'
  <2>1. age' \in [Machine -> Nat] /\ left' \in [Machine -> Nat] /\ StateInv'
    BY Passing
  <2> QED
    BY <1>1, <1>3, <2>1 DEF TimeType
<1>5. RootTimes'
  <2>1. mesh = "round"
    BY Passing
  <2>2. link = "up" => wake <= 1 /\ wake' = 0
    BY <1>1, <1>2 DEF RootTimes
  <2>3. link = "down" => spent.block > 0 /\ doing[Self] = "idle" /\ wake' <= Block
    BY <1>1, <1>3, TimeConstants DEF RootTimes
  <2>4. doing[Self] = "restart" => left'[Self] <= Reboot
    <3>1. left[Self] \in Nat
      BY <1>1 DEF TimeType
    <3> QED
      BY <1>1, <1>2, <3>1, TimeConstants DEF RootTimes
  <2> QED
    BY <1>1, <2>1, <2>2, <2>3, <2>4 DEF RootTimes
<1>6. /\ Low' = Low /\ Low \in Nat /\ Low + Reboot < Expiry
      /\ Reach \in Int /\ Reach' \in Int /\ Reach' < Expiry
  BY <1>1, <1>4, <1>5, Bounds, BoundsNext DEF Low, Missed
<1>7. Reach + 1 <= Reach'
  <2>1. CASE doing[Self] = "restart"
    <3>1. left[Self] > 0 /\ left[Self] \in Nat
      BY <1>1, <2>1, Passing DEF TimeType
    <3>2. Reach = Low + (Reboot - left[Self]) /\ Reach' = Low + (Reboot - (left[Self] - 1))
      BY <1>1, <1>2, <1>6, <2>1, <3>1 DEF Reach
    <3> QED
      BY <1>6, <3>1, <3>2, TimeConstants
  <2>2. CASE doing[Self] # "restart" /\ link = "up"
    <3>1. wake > 0 /\ doing[Self] = "idle"
      BY <1>1, <2>2, Passing DEF RootTimes, TimeType, W!Up
    <3>2. ping < Interval
      BY <1>1, <2>2, <3>1, Passing DEF RootTimes
    <3>3. Reach = Period - 1 + Missed + ping /\ Reach' = Period - 1 + Missed + (ping + 1)
      BY <1>1, <1>2, <2>2, <3>2 DEF Reach, Missed
    <3> QED
      BY <1>1, <3>3, TimeConstants
  <2>3. CASE doing[Self] # "restart" /\ link = "down"
    <3>1. wake > 0 /\ wake <= Block /\ Missed = 0 /\ Missed' = 0 /\ wake' = wake - 1
      BY <1>1, <1>2, <2>3, Passing, Counts DEF RootTimes, Timing, Missed
    <3>2. CASE ping = Interval
      <4>1. /\ Reach = Period - 1 + (Interval - 1) + (Block - wake)
            /\ Reach' = Period - 1 + (Interval - 1) + (Block - (wake - 1))
        BY <1>1, <1>2, <2>3, <3>1, <3>2 DEF Reach
      <4> QED
        BY <1>1, <3>1, <4>1, TimeConstants
    <3>3. CASE ping < Interval
      <4>1. Reach = Period - 1 + 0 + ping /\ ping' = ping + 1
        BY <1>2, <2>3, <3>1, <3>3, <1>1, TimeConstants DEF Reach
      <4>2. CASE ping + 1 = Interval
        <5>1. Reach' = Period - 1 + (Interval - 1) + (Block - (wake - 1))
          BY <1>1, <2>3, <3>1, <4>1, <4>2 DEF Reach
        <5> QED
          BY <1>1, <3>1, <4>1, <4>2, <5>1, TimeConstants
      <4>3. CASE ping + 1 # Interval
        <5>1. Reach' = Period - 1 + 0 + (ping + 1)
          BY <1>1, <2>3, <3>1, <4>1, <4>3 DEF Reach
        <5> QED
          BY <1>1, <4>1, <5>1, TimeConstants
      <4> QED
        BY <4>2, <4>3
    <3> QED
      BY <1>1, <3>2, <3>3, TimeConstants
  <2> QED
    BY <1>1, <2>1, <2>2, <2>3 DEF TimeType
<1>8. ASSUME NEW d \in Present, W!Up(d)
      PROVE  age[d] + 1 < Expiry /\ age'[d] = age[d] + 1 /\ NodeTimes(d)'
  <2>1. /\ age[d] \in Nat /\ left[d] \in Nat /\ doing[d] \in {"idle", "photo", "restart"}
        /\ NodeTimes(d) /\ W!Up(Self) /\ d \in Machine
    BY <1>1, Passing DEF TimeInv, TimeType
  <2>2. /\ doing[d] = "idle" => inbox[d] = <<>>
        /\ doing[d] # "idle" => left[d] > 0
        /\ age'[d] = IF age[d] < Expiry THEN age[d] + 1 ELSE age[d]
        /\ left'[d] = IF left[d] > 0 THEN left[d] - 1 ELSE 0
    BY <1>8, <2>1, Passing
  <2>3. CASE doing[d] = "idle"
    <3>1. age[d] <= Reach
      BY <1>8, <2>1, <2>2, <2>3 DEF NodeTimes
    <3>2. age[d] + 1 < Expiry /\ age'[d] = age[d] + 1 /\ age'[d] <= Reach'
      BY <1>6, <1>7, <2>1, <2>2, <3>1, TimeConstants
    <3> QED
      BY <1>1, <2>2, <2>3, <3>2 DEF NodeTimes
  <2>4. CASE doing[d] = "photo"
    <3>1. age[d] + left[d] <= Period - 1 + Photo
      BY <1>8, <2>1, <2>4 DEF NodeTimes
    <3>2. /\ age[d] + 1 < Expiry /\ age'[d] = age[d] + 1
          /\ age'[d] + left'[d] <= Period - 1 + Photo
      BY <2>1, <2>2, <2>4, <3>1, TimeConstants DEF Timing
    <3> QED
      BY <1>1, <2>4, <3>2 DEF NodeTimes
  <2>5. CASE doing[d] = "restart"
    <3>1. age[d] + left[d] <= Low + Reboot
      BY <1>8, <2>1, <2>5 DEF NodeTimes
    <3>2. /\ age[d] + 1 < Expiry /\ age'[d] = age[d] + 1
          /\ age'[d] + left'[d] <= Low' + Reboot
      BY <1>6, <2>1, <2>2, <2>5, <3>1, TimeConstants
    <3> QED
      BY <1>1, <2>5, <3>2 DEF NodeTimes
  <2> QED
    BY <2>1, <2>3, <2>4, <2>5
<1>9. \A d \in Present : NodeTimes(d)'
  <2> SUFFICES ASSUME NEW d \in Present
               PROVE  NodeTimes(d)'
    OBVIOUS
  <2>1. CASE W!Up(d)
    BY <1>8, <2>1
  <2>2. CASE ~W!Up(d)
    <3>1. state'[d] = state[d]
      BY <1>1, <2>2, Passing
    <3> QED
      BY <2>2, <3>1 DEF NodeTimes, W!Up
  <2> QED
    BY <2>1, <2>2
<1>10. Fed'
  <2> SUFFICES ASSUME NEW d \in Machine
               PROVE  state'[d] # "expired"
    BY DEF Fed, Machine
  <2>1. state'[d] = (IF W!Up(d) /\ age'[d] = Expiry THEN "expired" ELSE state[d])
        /\ state[d] # "expired"
    BY Passing DEF TimeInv, Fed, Machine
  <2>2. CASE d = Self
    <3>1. age[d] < Period /\ age[d] \in Nat
      BY <1>1, <2>2, Passing DEF TimeType
    <3>2. age'[d] = (IF age[d] < Expiry THEN age[d] + 1 ELSE age[d])
      BY Passing
    <3>3. age'[d] # Expiry
      BY <3>1, <3>2, TimeConstants DEF Timing
    <3> QED
      BY <2>1, <3>3
  <2>3. CASE d \in Present /\ W!Up(d)
    <3>1. age[d] \in Nat /\ age[d] + 1 < Expiry /\ age'[d] = age[d] + 1
      BY <1>1, <1>8, <2>3 DEF TimeType
    <3> QED
      BY <2>1, <3>1, TimeConstants
  <2>4. CASE ~W!Up(d)
    BY <2>1, <2>4
  <2> QED
    BY <2>2, <2>3, <2>4 DEF Machine
<1> QED
  BY <1>4, <1>5, <1>9, <1>10 DEF TimeInv

LEMMA WatchdogTimes ==
  ASSUME Timing, TimeInv, W!WatchdogNext
  PROVE  TimeInv'
<1>1. CASE W!RootFeeds \/ W!Joins
  BY <1>1, AsideStep
<1>2. CASE W!Round \/ W!ConnectFails \/ W!Tick
  BY <1>2, RoundStep, FailStep, TickStep
<1>3. CASE \E d \in Present : W!Commanded(d)
  BY <1>3, CommandedStep
<1>4. CASE \E d \in Present :
             W!NodeHandles(d) \/ W!NodePhoto(d) \/ W!NodeRestarts(d) \/ W!PhotoSent(d)
  BY <1>4, NodeStep
<1>5. CASE \E d \in Machine : W!Restart(d)
  BY <1>5, PulsedStep
<1> QED
  BY <1>1, <1>2, <1>3, <1>4, <1>5 DEF W!WatchdogNext, W!Device, Machine

LEMMA TimesStep ==
  ASSUME Timing, TimeInv, [MeshNext]_meshVars
  PROVE  TimeInv'
<1>1. CASE UNCHANGED watchVars
  <2>1. UNCHANGED <<age, state, inbox, doing, left, ping, wake, mesh, link, adds, spent>>
    BY <1>1 DEF watchVars
  <2>2. Low' = Low /\ Reach' = Reach
    BY <2>1 DEF Low, Reach, Missed
  <2>3. TimeType' /\ RootTimes' /\ Fed'
    BY <2>1 DEF TimeInv, TimeType, RootTimes, Fed, StateInv, W!Up
  <2>4. \A d \in Present : NodeTimes(d)'
    BY <2>1, <2>2 DEF TimeInv, NodeTimes, W!Up
  <2> QED
    BY <2>3, <2>4 DEF TimeInv
<1>2. CASE W!TakeCommand
  BY <1>2, TakeStep
<1>3. CASE W!WatchdogNext
  BY <1>3, WatchdogTimes
<1>4. CASE Serving /\ Command
  <2>1. CASE \E to : W!Tells(to)
    BY <1>4, <2>1, TellsStep
  <2>2. CASE W!CommandDone(self)
    BY <2>2, DoneCommandStep
  <2> QED
    BY <1>1, <1>4, <2>1, <2>2 DEF Command
<1> QED
  BY <1>1, <1>2, <1>3, <1>4 DEF MeshNext, meshVars, Returned

LEMMA TimesInit ==
  ASSUME MeshInit
  PROVE  TimeInv
<1>1. /\ age = [d \in Machine |-> 1] /\ state = [d \in Machine |-> "up"]
      /\ inbox = [d \in Present |-> <<>>]
      /\ doing = [d \in Machine |-> "idle"] /\ left = [d \in Machine |-> 0]
      /\ ping = Interval /\ wake = 0 /\ mesh = "round" /\ link = "up" /\ adds = 0
      /\ spent = [k \in DOMAIN Limit |-> 0]
  BY DEF MeshInit, W!WatchdogInit, W!Device, Machine
<1>2. Self \in Machine /\ Present \subseteq Machine
  BY DEF Machine
<1>3. TimeType
  <2>1. <<>> \in Seq(Message)
    OBVIOUS
  <2>2. spent.lose + spent.block + spent.join + spent.command <= Acts
    BY <1>1, TimeConstants
  <2> QED
    BY <1>1, <2>1, <2>2, TimeConstants DEF TimeType, StateInv
<1>4. RootTimes
  BY <1>1, <1>2 DEF RootTimes
<1>5. ASSUME NEW d \in Present
      PROVE  NodeTimes(d)
  <2>1. Reach = Period - 1 + 0 + Interval
    BY <1>1, <1>2, TimeConstants DEF Reach, Missed
  <2>2. age[d] <= Reach /\ doing[d] = "idle" /\ inbox[d] = <<>>
    BY <1>1, <1>2, <2>1, TimeConstants
  <2> QED
    BY <2>2 DEF NodeTimes
<1>6. Fed
  BY <1>1 DEF Fed, Machine
<1> QED
  BY <1>3, <1>4, <1>5, <1>6 DEF TimeInv

(***************************************************************************)
(* With times that satisfy Timing, no watchdog expires while the root      *)
(* works, whatever is lost, blocks it or keeps a device busy, and also if  *)
(* the root or the device waits to restart meanwhile (root_mesh_read_task, *)
(* period_feed_dog_in_second, system_reboot).                              *)
(***************************************************************************)
THEOREM AlwaysFed ==
  ASSUME Timing
  PROVE  MeshSpec => []Fed
<1>1. TimeInv /\ [MeshNext]_meshVars => TimeInv'
  BY Timing, TimesStep
<1>2. MeshInit => TimeInv
  BY TimesInit
<1>3. TimeInv => Fed
  BY DEF TimeInv
<1> QED
  BY <1>1, <1>2, <1>3, PTL DEF MeshSpec
=============================================================================
