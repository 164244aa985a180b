----------------------------- MODULE LinkProofs -----------------------------
(***************************************************************************)
(* The sockets and the commands of the root (ServerLink), for any number   *)
(* of them, of losses of the mesh and of everything else that happens to a *)
(* connection.                                                             *)
(***************************************************************************)
EXTENDS ServerLink, FiniteSetTheorems, SequenceTheorems, TLAPS

\* Open sockets that nobody has the number of.
Leaked == open \ {sock}

\* The reading task is going to clear g_sockfd, whatever it then is.
WillClear == tcp \in {"close", "clear"} \/ (tcp = "read" /\ ~up)

SpentType == spent \in [DOMAIN Limit -> Nat]

\* Only the mesh task fills g_sockfd, and it does so when it has found 0.
ConnectsFromNone == mesh = "connect" => sock = 0

\* A loss of the mesh pays for the one socket that clearing may lose.
LeakPaid ==
  Cardinality(Leaked) + (IF WillClear THEN 1 ELSE 0) <= spent.down

LinkInv ==
  /\ SpentType
  /\ open \subseteq Socket /\ IsFiniteSet(open)
  /\ ConnectsFromNone
  /\ LeakPaid

----------------------------------------------------------------------------
LEMMA SpendSteps ==
  ASSUME SpentType, NEW what \in DOMAIN Limit, Spend(what)
  PROVE  /\ SpentType'
         /\ spent'.down = IF what = "down" THEN spent.down + 1 ELSE spent.down
BY LinkAssumption DEF SpentType, Spend

LEMMA LeakType ==
  ASSUME IsFiniteSet(open), SpentType
  PROVE  IsFiniteSet(Leaked) /\ Cardinality(Leaked) \in Nat /\ spent.down \in Nat
<1>1. IsFiniteSet(Leaked) /\ Cardinality(Leaked) \in Nat
  BY FS_RemoveElement, FS_CardinalityType, FS_Subset DEF Leaked
<1> QED
  BY <1>1, LinkAssumption DEF SpentType

LEMMA OneMore ==
  ASSUME NEW S, IsFiniteSet(S), NEW x
  PROVE  /\ IsFiniteSet(S \cup {x})
         /\ Cardinality(S \cup {x}) <= Cardinality(S) + 1
<1>1. Cardinality(S) \in Nat
  BY FS_CardinalityType
<1>2. IsFiniteSet(S \cup {x})
      /\ Cardinality(S \cup {x}) = IF x \in S THEN Cardinality(S) ELSE Cardinality(S) + 1
  BY FS_AddElement, Zenon
<1> QED
  BY <1>1, <1>2

\* A step that neither loses a socket nor brings the end of the task nearer.
LEMMA LeakKept ==
  ASSUME LinkInv, SpentType', IsFiniteSet(open'), Leaked' \subseteq Leaked,
         spent'.down = spent.down, WillClear' => WillClear
  PROVE  LeakPaid'
<1>1. Cardinality(Leaked') <= Cardinality(Leaked)
  BY LeakType, FS_Subset DEF LinkInv
<1>2. Cardinality(Leaked') \in Nat
  BY LeakType, FS_Subset, FS_CardinalityType DEF LinkInv
<1> QED
  BY <1>1, <1>2, LeakType DEF LinkInv, LeakPaid

\* What the server, the network and the mesh task do without touching
\* g_sockfd.
LEMMA QuietSteps ==
  ASSUME LinkInv, UNCHANGED <<up, sock, open, tcp>>, SpentType',
         spent'.down = spent.down, mesh' = "connect" => sock = 0
  PROVE  LinkInv'
<1>1. open' \subseteq Socket /\ IsFiniteSet(open') /\ Leaked' = Leaked
      /\ WillClear' = WillClear
  BY DEF LinkInv, Leaked, WillClear
<1>2. LeakPaid'
  BY <1>1, LeakKept
<1> QED
  BY <1>1, <1>2 DEF LinkInv, ConnectsFromNone

\* A read that closes the socket, or leaves it.
LEMMA CloseSteps ==
  ASSUME LinkInv, UNCHANGED <<up, tcp, mesh>>, SpentType', spent'.down = spent.down,
         (open' = Closed(sock) /\ sock' = Cleared(sock)) \/ UNCHANGED <<open, sock>>
  PROVE  LinkInv'
<1>1. open' \subseteq Socket /\ IsFiniteSet(open')
  BY FS_RemoveElement DEF LinkInv, Closed
<1>2. Leaked' \subseteq Leaked /\ WillClear' = WillClear
  BY DEF Leaked, WillClear, Closed
<1>3. LeakPaid'
  BY <1>1, <1>2, LeakKept
<1>4. ConnectsFromNone'
  BY DEF LinkInv, ConnectsFromNone, Cleared
<1> QED
  BY <1>1, <1>3, <1>4 DEF LinkInv

LEMMA DownStep ==
  ASSUME LinkInv, MeshDown
  PROVE  LinkInv'
<1>1. SpentType' /\ spent'.down = spent.down + 1
  BY SpendSteps, LinkAssumption DEF MeshDown, LinkInv
<1>2. /\ Leaked' = Leaked /\ ConnectsFromNone'
      /\ open' \subseteq Socket /\ IsFiniteSet(open')
  BY DEF MeshDown, Leaked, LinkInv, ConnectsFromNone
<1>3. LeakPaid'
  BY <1>1, <1>2, LeakType DEF LinkInv, LeakPaid
<1> QED
  BY <1>1, <1>2, <1>3 DEF LinkInv

\* The socket that is cleared is lost, unless it is the one that was closed.
LEMMA ClearStep ==
  ASSUME LinkInv, TcpClear
  PROVE  LinkInv'
<1>1. UNCHANGED <<open, mesh, spent>> /\ sock' = 0 /\ WillClear /\ ~WillClear'
  BY DEF TcpClear, WillClear, Cleared, envVars
<1>2. Cardinality(Leaked') <= Cardinality(Leaked) + 1 /\ Cardinality(Leaked') \in Nat
  <2>1. Leaked' \subseteq Leaked \cup {sock}
    BY <1>1 DEF Leaked
  <2>2. IsFiniteSet(Leaked \cup {sock})
        /\ Cardinality(Leaked \cup {sock}) <= Cardinality(Leaked) + 1
    BY LeakType, OneMore DEF LinkInv
  <2> QED
    BY <2>1, <2>2, FS_Subset, FS_CardinalityType, LeakType DEF LinkInv
<1>3. LeakPaid'
  BY <1>1, <1>2, LeakType DEF LinkInv, LeakPaid
<1> QED
  BY <1>1, <1>3 DEF LinkInv, SpentType, ConnectsFromNone

LEMMA ConnectStep ==
  ASSUME LinkInv, NEW s \in Socket, Connected(s)
  PROVE  LinkInv'
<1>1. UNCHANGED <<up, tcp, spent>> /\ sock' = s /\ open' = open \cup {s} /\ mesh' = "register"
  BY DEF Connected, tcpVars
<1>2. sock = 0 /\ open' \subseteq Socket /\ IsFiniteSet(open')
  BY <1>1, FS_AddElement DEF LinkInv, ConnectsFromNone, Connected
<1>3. WillClear' = WillClear /\ SpentType' /\ ConnectsFromNone'
  BY <1>1 DEF LinkInv, WillClear, SpentType, ConnectsFromNone
<1>4. Leaked' \subseteq Leaked
  BY <1>1, <1>2, LinkAssumption DEF Leaked, LinkInv
<1>5. LeakPaid'
  BY <1>1, <1>2, <1>3, <1>4, LeakKept
<1> QED
  BY <1>2, <1>3, <1>5 DEF LinkInv

----------------------------------------------------------------------------
LEMMA LinkInvInit ==
  ASSUME Init
  PROVE  LinkInv
<1>1. Leaked = {} /\ IsFiniteSet(open) /\ Cardinality(Leaked) = 0
  BY FS_EmptySet DEF Init, Leaked
<1>2. SpentType /\ spent.down = 0
  BY LinkAssumption DEF Init, SpentType
<1> QED
  BY <1>1, <1>2 DEF Init, LinkInv, LeakPaid, ConnectsFromNone, WillClear

LEMMA LinkInvStep ==
  ASSUME LinkInv, [Next]_vars
  PROVE  LinkInv'
<1> USE DEF LinkInv
<1>1. CASE \E s \in Socket, a \in Addr : ServerSend(s, a)
  <2>1. Spend("cmd") /\ UNCHANGED <<up, sock, open, tcp, mesh>>
    BY <1>1 DEF ServerSend, tcpVars
  <2> QED
    BY <2>1, SpendSteps, QuietSteps, LinkAssumption DEF ConnectsFromNone
<1>2. CASE \E s \in Socket : ServerClose(s) \/ ConnectionReset(s)
  <2>1. (Spend("close") \/ Spend("reset")) /\ UNCHANGED <<up, sock, open, tcp, mesh>>
    BY <1>2 DEF ServerClose, ConnectionReset, tcpVars
  <2> QED
    BY <2>1, SpendSteps, QuietSteps, LinkAssumption DEF ConnectsFromNone
<1>3. CASE MeshDown
  BY <1>3, DownStep
<1>4. CASE MeshUp
  <2>1. UNCHANGED <<open, sock, mesh, spent, tcp>> /\ (WillClear' => WillClear)
    BY <1>4 DEF MeshUp, WillClear, tcpVars, envVars
  <2>2. SpentType' /\ ConnectsFromNone' /\ Leaked' = Leaked /\ spent'.down = spent.down
    BY <2>1 DEF SpentType, ConnectsFromNone, Leaked
  <2> QED
    BY <2>1, <2>2, LeakKept
<1>5. CASE RootGotIp
  <2>1. /\ UNCHANGED <<open, sock, spent>> /\ (WillClear' => WillClear)
        /\ mesh' = "connect" => mesh = "connect"
    BY <1>5 DEF RootGotIp, WillClear, envVars
  <2>2. SpentType' /\ ConnectsFromNone' /\ Leaked' = Leaked /\ spent'.down = spent.down
    BY <2>1 DEF SpentType, ConnectsFromNone, Leaked
  <2> QED
    BY <2>1, <2>2, LeakKept
<1>6. CASE \E k \in {1, 2} : (k = 2 \/ Segmented) /\ ReadFirst(k)
  <2>1. UNCHANGED <<up, sock, open, tcp, mesh, spent>>
    BY <1>6 DEF ReadFirst
  <2> QED
    BY <2>1, QuietSteps DEF SpentType, ConnectsFromNone
<1>7. CASE ReadRest
  <2>1. UNCHANGED <<up, sock, open, tcp, mesh, spent>>
    BY <1>7 DEF ReadRest
  <2> QED
    BY <2>1, QuietSteps DEF SpentType, ConnectsFromNone
<1>8. CASE ReadEof \/ ReadError
  <2>1. /\ UNCHANGED <<up, tcp, mesh, spent>>
        /\ (open' = Closed(sock) /\ sock' = Cleared(sock)) \/ UNCHANGED <<open, sock>>
    BY <1>8 DEF ReadEof, ReadError, envVars
  <2> QED
    BY <2>1, CloseSteps DEF SpentType
<1>9. CASE SelectFails
  <2>1. /\ UNCHANGED <<up, tcp, mesh>> /\ Spend("reset")
        /\ open' = Closed(sock) /\ sock' = Cleared(sock)
    BY <1>9 DEF SelectFails, tcpVars
  <2> QED
    BY <2>1, SpendSteps, CloseSteps, LinkAssumption
<1>10. CASE TcpLeave
  <2>1. UNCHANGED <<open, sock, mesh, spent>> /\ (WillClear' => WillClear)
    BY <1>10 DEF TcpLeave, WillClear, envVars
  <2>2. SpentType' /\ ConnectsFromNone' /\ Leaked' = Leaked /\ spent'.down = spent.down
    BY <2>1 DEF SpentType, ConnectsFromNone, Leaked
  <2> QED
    BY <2>1, <2>2, LeakKept
<1>11. CASE TcpClose
  <2>1. /\ UNCHANGED <<sock, mesh, spent>> /\ (WillClear' => WillClear)
        /\ open' = open \ {sock}
    BY <1>11 DEF TcpClose, WillClear, envVars, Closed
  <2>2. SpentType' /\ ConnectsFromNone' /\ Leaked' = Leaked /\ spent'.down = spent.down
    BY <2>1 DEF SpentType, ConnectsFromNone, Leaked
  <2>3. open' \subseteq Socket /\ IsFiniteSet(open')
    BY <2>1, FS_RemoveElement
  <2> QED
    BY <2>1, <2>2, <2>3, LeakKept
<1>12. CASE TcpClear
  BY <1>12, ClearStep
<1>13. CASE MeshLoop \/ MeshLeave
  <2>1. /\ UNCHANGED <<up, sock, open, tcp, spent>>
        /\ mesh' = "connect" => sock = 0
    BY <1>13 DEF MeshLoop, MeshLeave, tcpVars, envVars
  <2> QED
    BY <2>1, QuietSteps DEF SpentType
<1>14. CASE ConnectFails
  <2>1. UNCHANGED <<up, sock, open, tcp>> /\ Spend("refuse") /\ mesh' # "connect"
    BY <1>14 DEF ConnectFails, tcpVars
  <2> QED
    BY <2>1, SpendSteps, QuietSteps, LinkAssumption
<1>15. CASE \E s \in Socket : Connected(s)
  BY <1>15, ConnectStep
<1>16. CASE Register \/ Serve
  <2>1. UNCHANGED <<up, sock, open, tcp, spent>> /\ mesh' # "connect"
    BY <1>16 DEF Register, Serve, tcpVars, envVars
  <2> QED
    BY <2>1, QuietSteps DEF SpentType
<1>17. CASE UNCHANGED vars
  <2>1. UNCHANGED <<up, sock, open, tcp, mesh, spent>>
    BY <1>17 DEF vars, tcpVars, envVars
  <2> QED
    BY <2>1, QuietSteps DEF SpentType, ConnectsFromNone
<1> QED
  BY <1>1, <1>2, <1>3, <1>4, <1>5, <1>6, <1>7, <1>8, <1>9, <1>10, <1>11, <1>12,
     <1>13, <1>14, <1>15, <1>16, <1>17 DEF Next

\* However the tasks that share g_sockfd interleave, the root has no more
\* sockets open than it has lost the mesh, and one
\* (tcp_client_read_task, root_mesh_read_task).
THEOREM SocketsAlwaysBounded == Spec => []SocketsBounded
<1>1. Init => LinkInv
  BY LinkInvInit
<1>2. LinkInv /\ [Next]_vars => LinkInv'
  BY LinkInvStep
<1>3. ASSUME LinkInv
      PROVE  SocketsBounded
  <2>1. open \subseteq Leaked \cup {sock}
    BY DEF Leaked
  <2>2. IsFiniteSet(Leaked \cup {sock})
        /\ Cardinality(Leaked \cup {sock}) <= Cardinality(Leaked) + 1
    BY <1>3, LeakType, OneMore DEF LinkInv
  <2>3. Cardinality(open) <= Cardinality(Leaked \cup {sock})
        /\ Cardinality(open) \in Nat /\ Cardinality(Leaked \cup {sock}) \in Nat
    BY <2>1, <2>2, FS_Subset, FS_CardinalityType
  <2> QED
    BY <1>3, <2>2, <2>3, LeakType DEF LinkInv, LeakPaid, SocketsBounded
<1> QED
  BY <1>1, <1>2, <1>3, PTL DEF Spec

----------------------------------------------------------------------------
(* Type correctness.                                                       *)

\* How often the environment acted, and that every command was paid for.
SpentWithin ==
  /\ spent \in [DOMAIN Limit -> Nat]
  /\ \A k \in DOMAIN Limit : spent[k] <= Limit[k]
  /\ Len(sent) = spent.cmd

LinkTypeInv == ServerLinkTypeOK /\ SpentWithin

LEMMA SpendWithin ==
  ASSUME SpentWithin, NEW what \in DOMAIN Limit, Spend(what)
  PROVE  /\ spent' \in [DOMAIN Limit -> Nat]
         /\ \A k \in DOMAIN Limit : spent'[k] <= Limit[k]
         /\ spent'.cmd = IF what = "cmd" THEN spent.cmd + 1 ELSE spent.cmd
         /\ \A k \in DOMAIN spent' : spent'[k] \in 0 .. Limit[k]
BY LinkAssumption DEF SpentWithin, Spend

LEMMA PieceTaken ==
  ASSUME NEW S, NEW q \in Seq(S), NEW k \in 1 .. Len(q)
  PROVE  /\ SubSeq(q, k + 1, Len(q)) \in Seq(S)
         /\ Len(SubSeq(q, k + 1, Len(q))) = Len(q) - k
         /\ \A i \in 1 .. Len(q) - k :
              i + k \in 1 .. Len(q) /\ SubSeq(q, k + 1, Len(q))[i] = q[i + k]
         /\ \A i \in 1 .. Len(q) : q[i] \in S
OBVIOUS

\* What is handed over enters the queue, if there is room.
LEMMA DeliverType ==
  ASSUME queue \in Seq(Piece \X Piece), Len(queue) <= QueueLen,
         NEW b \in Piece \X Piece, Deliver(b)
  PROVE  /\ queue' \in Seq(Piece \X Piece) /\ Len(queue') <= QueueLen
         /\ \/ queue' = queue
            \/ b[1].half = "head" /\ queue' = Append(queue, b)
BY LinkAssumption DEF Deliver, Pushed, Addressed

LEMMA LinkTypeInit == Init => LinkTypeInv
<1> SUFFICES ASSUME Init PROVE LinkTypeInv
  OBVIOUS
<1>1. Nothing \in Piece
  BY LinkAssumption DEF Nothing, Piece
<1> QED
  BY <1>1, LinkAssumption DEF Init, LinkTypeInv, ServerLinkTypeOK, SpentWithin

LEMMA LinkTypeStep == LinkTypeInv /\ [Next]_vars => LinkTypeInv'
<1> SUFFICES ASSUME LinkTypeInv, [Next]_vars
             PROVE  LinkTypeInv'
  OBVIOUS
<1>0. ServerLinkTypeOK /\ SpentWithin
  BY DEF LinkTypeInv
<1> USE DEF LinkTypeInv, ServerLinkTypeOK
<1>1. ASSUME NEW s \in Socket, NEW a \in Addr, ServerSend(s, a)
      PROVE  LinkTypeInv'
  <2>1. /\ sent' \in Seq(Addr) /\ Len(sent') = Len(sent) + 1
        /\ Spend("cmd")
    BY <1>1 DEF ServerSend
  <2>2. Len(sent') \in 0 .. Limit.cmd
    <3>1. spent'.cmd = spent.cmd + 1 /\ spent'.cmd <= Limit.cmd
      BY <1>0, <2>1, SpendWithin, LinkAssumption
    <3> QED
      BY <1>0, <2>1, <3>1, LinkAssumption DEF SpentWithin
  <2>3. <<[cmd |-> Len(sent'), half |-> "head"], [cmd |-> Len(sent'), half |-> "tail"]>>
          \in Seq(Piece)
    BY <2>2 DEF Piece
  <2>4. wire' \in [Socket -> Seq(Piece)]
    <3> DEFINE w == <<[cmd |-> Len(sent'), half |-> "head"],
                      [cmd |-> Len(sent'), half |-> "tail"]>>
    <3>1. w \in Seq(Piece) /\ wire' = [wire EXCEPT ![s] = @ \o w]
      BY <1>1, <2>3 DEF ServerSend
    <3> HIDE DEF w
    <3>2. wire[s] \o w \in Seq(Piece)
      BY <3>1
    <3> QED
      BY <3>1, <3>2
  <2>5. SpentWithin' /\ \A k \in DOMAIN spent' : spent'[k] \in 0 .. Limit[k]
    BY <2>1, SpendWithin, LinkAssumption DEF SpentWithin
  <2> QED
    BY <1>1, <2>1, <2>2, <2>4, <2>5 DEF ServerSend, tcpVars
<1>2. ASSUME NEW what \in {"close", "reset", "refuse", "down"}, Spend(what),
             UNCHANGED sent
      PROVE  SpentWithin' /\ \A k \in DOMAIN spent' : spent'[k] \in 0 .. Limit[k]
  BY <1>0, <1>2, SpendWithin, LinkAssumption DEF SpentWithin
<1>3. ASSUME UNCHANGED <<spent, sent>>
      PROVE  SpentWithin' /\ \A k \in DOMAIN spent' : spent'[k] \in 0 .. Limit[k]
  BY <1>0, <1>3 DEF SpentWithin
<1>4. ASSUME NEW s \in Socket, ServerClose(s)
      PROVE  LinkTypeInv'
  BY <1>2, <1>4 DEF ServerClose, tcpVars
<1>5. ASSUME NEW s \in Socket, ConnectionReset(s)
      PROVE  LinkTypeInv'
  BY <1>2, <1>5 DEF ConnectionReset, tcpVars
<1>6. CASE MeshDown
  BY <1>2, <1>6 DEF MeshDown, tcpVars, linkVars
<1>7. CASE MeshUp
  BY <1>3, <1>7 DEF MeshUp, tcpVars, envVars, linkVars
<1>8. CASE RootGotIp
  <2>1. /\ tcp' \in {tcp, "read"} /\ already' \in {already, 0} /\ eof' \in {eof, 0}
        /\ mesh' \in {mesh, "loop"} /\ ip' = FALSE
        /\ UNCHANGED <<up, sock, open, queue, executed, buf, envVars>>
    BY <1>8 DEF RootGotIp
  <2>2. 0 \in 0 .. EofReads
    BY LinkAssumption
  <2> QED
    BY <1>3, <2>1, <2>2 DEF envVars, linkVars
<1>9. ASSUME NEW k \in {1, 2}, ReadFirst(k)
      PROVE  LinkTypeInv'
  <2>1. sock \in Socket /\ k \in 1 .. Len(wire[sock]) /\ wire[sock] \in Seq(Piece)
    BY <1>9 DEF ReadFirst, Reading
  <2>2. wire' \in [Socket -> Seq(Piece)]
    BY <1>9, <2>1, PieceTaken DEF ReadFirst
  <2>3. buf' \in Piece \X Piece
    BY <1>9, <2>1 DEF ReadFirst
  <2>4. queue' \in Seq(Piece \X Piece) /\ Len(queue') <= QueueLen
    BY <1>9, <2>3, DeliverType DEF ReadFirst
  <2>5. already' \in {0, 1} /\ eof' \in 0 .. EofReads
    BY <1>9, LinkAssumption DEF ReadFirst
  <2> QED
    BY <1>3, <1>9, <2>2, <2>3, <2>4, <2>5 DEF ReadFirst
<1>10. CASE ReadRest
  <2>1. wire' \in [Socket -> Seq(Piece)]
    BY <1>10 DEF ReadRest, Reading
  <2>2. queue' \in Seq(Piece \X Piece) /\ Len(queue') <= QueueLen
    BY <1>10, DeliverType DEF ReadRest
  <2> QED
    BY <1>3, <1>10, <2>1, <2>2, LinkAssumption DEF ReadRest
<1>11. CASE ReadEof
  <2>1. queue' \in Seq(Piece \X Piece) /\ Len(queue') <= QueueLen
    BY <1>11, DeliverType DEF ReadEof
  <2>2. eof' \in 0 .. EofReads /\ open' \subseteq Socket /\ sock' \in Socket \cup {0}
    BY <1>11, LinkAssumption DEF ReadEof, Closed, Cleared
  <2> QED
    BY <1>3, <1>11, <2>1, <2>2 DEF ReadEof, envVars, linkVars
<1>12. CASE ReadError
  <2>1. queue' \in Seq(Piece \X Piece) /\ Len(queue') <= QueueLen
    BY <1>12, DeliverType DEF ReadError
  <2>2. eof' \in 0 .. EofReads /\ open' \subseteq Socket /\ sock' \in Socket \cup {0}
    BY <1>12, LinkAssumption DEF ReadError, Closed, Cleared
  <2> QED
    BY <1>3, <1>12, <2>1, <2>2 DEF ReadError, envVars, linkVars
<1>13. CASE SelectFails
  BY <1>2, <1>13 DEF SelectFails, tcpVars, linkVars, Closed, Cleared
<1>14. CASE TcpLeave \/ TcpClose \/ TcpClear
  BY <1>3, <1>14 DEF TcpLeave, TcpClose, TcpClear, envVars, linkVars, Closed, Cleared
<1>15. CASE MeshLeave \/ MeshLoop
  BY <1>3, <1>15 DEF MeshLeave, MeshLoop, envVars, linkVars, tcpVars
<1>16. CASE ConnectFails
  BY <1>2, <1>16 DEF ConnectFails, tcpVars, linkVars
<1>17. ASSUME NEW s \in Socket, Connected(s)
      PROVE  LinkTypeInv'
  BY <1>3, <1>17 DEF Connected, tcpVars
<1>18. CASE Register
  BY <1>3, <1>18 DEF Register, tcpVars
<1>19. CASE Serve
  <2>1. /\ queue' \in Seq(Piece \X Piece) /\ Len(queue') <= QueueLen
        /\ executed' \in Seq(Piece \X Piece)
    <3> DEFINE S == Piece \X Piece
    <3>1. queue \in Seq(S) /\ executed \in Seq(S) /\ Len(queue) <= QueueLen
      OBVIOUS
    <3> HIDE DEF S
    <3>2. CASE queue = <<>>
      BY <1>19, <3>1, <3>2 DEF Serve
    <3>3. CASE queue # <<>>
      <4>1. /\ Head(queue) \in S /\ Tail(queue) \in Seq(S)
            /\ Len(Tail(queue)) = Len(queue) - 1
        BY <3>1, <3>3
      <4>2. executed' = Append(executed, Head(queue)) /\ queue' = Tail(queue)
        BY <1>19, <3>3 DEF Serve
      <4> QED
        BY <3>1, <4>1, <4>2, LinkAssumption
    <3> QED
      BY <3>2, <3>3 DEF S
  <2> QED
    BY <1>3, <1>19, <2>1 DEF Serve, tcpVars, envVars, linkVars
<1>20. CASE UNCHANGED vars
  BY <1>3, <1>20 DEF vars, tcpVars, envVars, linkVars
<1> QED
  BY <1>1, <1>4, <1>5, <1>6, <1>7, <1>8, <1>9, <1>10, <1>11, <1>12, <1>13, <1>14,
     <1>15, <1>16, <1>17, <1>18, <1>19, <1>20 DEF Next

\* The connection keeps its type: no buffer, queue or count leaves its range.
THEOREM LinkTypeCorrect == Spec => []ServerLinkTypeOK
<1>1. LinkTypeInv => ServerLinkTypeOK
  BY DEF LinkTypeInv
<1> QED
  BY <1>1, LinkTypeInit, LinkTypeStep, PTL DEF Spec

----------------------------------------------------------------------------
(* The order of the commands, as long as no connection is disturbed.       *)

\* Every command handed over so far is older than c.
Ahead(c) ==
  /\ \A i \in 1 .. Len(executed) : executed[i][1].cmd < c
  /\ \A i \in 1 .. Len(queue) : queue[i][1].cmd < c

\* Executed and queued commands are in the order in which they were sent.
Ordered ==
  /\ \A i, j \in 1 .. Len(executed) :
       i < j => executed[i][1].cmd < executed[j][1].cmd
  /\ \A i, j \in 1 .. Len(queue) : i < j => queue[i][1].cmd < queue[j][1].cmd
  /\ \A i \in 1 .. Len(executed), j \in 1 .. Len(queue) :
       executed[i][1].cmd < queue[j][1].cmd

\* On its connection, a header is younger than all that arrives before it.
WireOrdered(s) ==
  \A i \in 1 .. Len(wire[s]) :
    /\ wire[s][i].cmd <= Len(sent)
    /\ \A j \in 1 .. Len(wire[s]) :
         i < j /\ wire[s][j].half = "head" => wire[s][i].cmd < wire[s][j].cmd

\* A command that is being read, and those still to be read from the socket in
\* use, are younger than all that has been handed over; a socket never used has
\* carried nothing, and none was closed by the server or reset.
Coming ==
  /\ \A c \in Nat : sock # 0 => \A i \in 1 .. Len(wire[sock]) :
       wire[sock][i].half = "head" /\ wire[sock][i].cmd = c =>
         Ahead(c) /\ (already = 1 => buf[1].cmd < c)
  /\ \A c \in Nat :
       already = 1 /\ buf[1].half = "head" /\ buf[1].cmd = c => Ahead(c)
  /\ \A s \in Socket : /\ peer[s] \in {"none", "ok"}
                       /\ peer[s] = "none" => wire[s] = <<>>

InSequence ==
  /\ Ordered /\ Coming
  /\ \A s \in Socket : WireOrdered(s)
  /\ buf[1].cmd <= Len(sent) /\ \A c \in Nat : c > Len(sent) => Ahead(c)

OrderInv == ~Disturbed => InSequence

\* What the proofs below need to know of the types.
LEMMA OrderTypes ==
  ASSUME ServerLinkTypeOK
  PROVE  /\ wire \in [Socket -> Seq(Piece)] /\ Len(sent) \in Nat
         /\ queue \in Seq(Piece \X Piece) /\ executed \in Seq(Piece \X Piece)
         /\ buf \in Piece \X Piece /\ buf[1] \in Piece
         /\ \A b \in Piece : b.cmd \in Nat
         /\ \A i \in 1 .. Len(queue) : queue[i][1].cmd \in Nat
         /\ \A i \in 1 .. Len(executed) : executed[i][1].cmd \in Nat
         /\ sock \in Socket \cup {0} /\ already \in {0, 1}
         /\ peer \in [Socket -> {"none", "ok", "closed", "reset"}]
<1>1. \A b \in Piece : b.cmd \in Nat
  BY LinkAssumption DEF Piece
<1>2. ASSUME NEW q \in Seq(Piece \X Piece), NEW i \in 1 .. Len(q)
      PROVE  q[i][1].cmd \in Nat
  <2>1. q[i] \in Piece \X Piece
    BY <1>2
  <2>2. q[i][1] \in Piece
    BY <2>1
  <2> QED
    BY <1>1, <2>2
<1> QED
  BY <1>1, <1>2 DEF ServerLinkTypeOK

\* A command ahead of which there are only older ones is queued.
LEMMA Queued ==
  ASSUME ServerLinkTypeOK, Ordered, NEW b \in Piece \X Piece, Ahead(b[1].cmd),
         queue' = Append(queue, b), executed' = executed
  PROVE  /\ Ordered'
         /\ \A c \in Nat : Ahead(c) /\ b[1].cmd < c => Ahead(c)'
<1> DEFINE S == Piece \X Piece
<1>1. /\ queue \in Seq(S) /\ b \in S
      /\ \A i \in 1 .. Len(queue) : queue[i][1].cmd \in Nat
      /\ \A i \in 1 .. Len(executed) : executed[i][1].cmd \in Nat
  BY OrderTypes
<1> HIDE DEF S
<1>2. /\ Len(queue') = Len(queue) + 1 /\ Len(queue) \in Nat
      /\ queue'[Len(queue) + 1] = b
      /\ \A i \in 1 .. Len(queue) : queue'[i] = queue[i]
  BY <1>1
<1>3. \A i \in 1 .. Len(queue') : i \in 1 .. Len(queue) \/ i = Len(queue) + 1
  BY <1>2
<1>4. \A i \in 1 .. Len(queue) : ~(Len(queue) + 1 < i)
  BY <1>2
<1>5. Ordered'
  <2>1. \A i, j \in 1 .. Len(queue') :
          i < j => queue'[i][1].cmd < queue'[j][1].cmd
    BY <1>2, <1>3, <1>4 DEF Ordered, Ahead
  <2>2. \A i \in 1 .. Len(executed), j \in 1 .. Len(queue') :
          executed[i][1].cmd < queue'[j][1].cmd
    BY <1>2, <1>3 DEF Ordered, Ahead
  <2> QED
    BY <2>1, <2>2 DEF Ordered
<1>6. \A c \in Nat : Ahead(c) /\ b[1].cmd < c => Ahead(c)'
  BY <1>2, <1>3 DEF Ahead
<1> QED
  BY <1>5, <1>6

\* The head of the queue is executed.
LEMMA Served ==
  ASSUME ServerLinkTypeOK, Ordered, queue # <<>>,
         executed' = Append(executed, Head(queue)), queue' = Tail(queue)
  PROVE  /\ Ordered'
         /\ \A c \in Nat : Ahead(c) => Ahead(c)'
<1> DEFINE S == Piece \X Piece
<1>1. queue \in Seq(S) /\ executed \in Seq(S)
  BY OrderTypes
<1> HIDE DEF S
<1>2. /\ Len(queue') = Len(queue) - 1 /\ Len(queue) \in Nat \ {0}
      /\ Head(queue) = queue[1] /\ queue[1] \in S
      /\ \A i \in 1 .. Len(queue) - 1 : queue'[i] = queue[i + 1]
  BY <1>1
<1>3. /\ Len(executed') = Len(executed) + 1 /\ Len(executed) \in Nat
      /\ executed'[Len(executed) + 1] = queue[1]
      /\ \A i \in 1 .. Len(executed) : executed'[i] = executed[i]
  BY <1>1, <1>2
<1>4. /\ \A i \in 1 .. Len(executed') :
           i \in 1 .. Len(executed) \/ i = Len(executed) + 1
      /\ \A i \in 1 .. Len(executed) : ~(Len(executed) + 1 < i)
      /\ 1 \in 1 .. Len(queue)
      /\ \A i \in 1 .. Len(queue') : i + 1 \in 1 .. Len(queue) /\ 1 < i + 1
      /\ \A i, j \in 1 .. Len(queue') : i < j => i + 1 < j + 1
  BY <1>2, <1>3
<1>5. Ordered'
  <2>1. \A i, j \in 1 .. Len(executed') :
          i < j => executed'[i][1].cmd < executed'[j][1].cmd
    BY <1>3, <1>4 DEF Ordered
  <2>2. \A i, j \in 1 .. Len(queue') : i < j => queue'[i][1].cmd < queue'[j][1].cmd
    BY <1>2, <1>4 DEF Ordered
  <2>3. \A i \in 1 .. Len(executed'), j \in 1 .. Len(queue') :
          executed'[i][1].cmd < queue'[j][1].cmd
    BY <1>2, <1>3, <1>4 DEF Ordered
  <2> QED
    BY <2>1, <2>2, <2>3 DEF Ordered
<1>6. \A c \in Nat : Ahead(c) => Ahead(c)'
  BY <1>2, <1>3, <1>4 DEF Ahead
<1> QED
  BY <1>5, <1>6

\* Undisturbed steps: the server closes nothing, the network resets nothing.
LEMMA Undisturbed ==
  ASSUME LinkTypeInv, Next, ~Disturbed'
  PROVE  /\ ~Disturbed /\ ~SelectFails
         /\ \A s \in Socket : ~ServerClose(s) /\ ~ConnectionReset(s)
<1>0. SpentWithin
  BY DEF LinkTypeInv
<1>1. ASSUME NEW what \in DOMAIN Limit, Spend(what)
      PROVE  /\ spent'.close >= spent.close /\ spent'.reset >= spent.reset
             /\ what = "close" => spent'.close = spent.close + 1
             /\ what = "reset" => spent'.reset = spent.reset + 1
  BY <1>0, <1>1, LinkAssumption DEF SpentWithin, Spend
<1>2. spent.close \in Nat /\ spent.reset \in Nat
  BY <1>0, LinkAssumption DEF SpentWithin
<1>3. /\ ~Spend("close") /\ ~Spend("reset")
      /\ (\E what \in DOMAIN Limit : Spend(what)) => ~Disturbed
  <2>1. spent' \in [DOMAIN Limit -> Nat] \/ \A what \in DOMAIN Limit : ~Spend(what)
    BY <1>0, SpendWithin
  <2>2. \/ \A what \in DOMAIN Limit : ~Spend(what)
        \/ spent'.close \in Nat /\ spent'.reset \in Nat
    BY <2>1, LinkAssumption
  <2> QED
    BY <1>1, <1>2, <2>2, LinkAssumption DEF Disturbed
<1>4. CASE UNCHANGED spent
  BY <1>3, <1>4 DEF Disturbed, SelectFails, ServerClose, ConnectionReset
<1>5. CASE UNCHANGED spent \/ \E what \in DOMAIN Limit : Spend(what)
  BY <1>3, <1>4, <1>5 DEF SelectFails, ServerClose, ConnectionReset
<1>6. CASE \/ \E s \in Socket, a \in Addr : ServerSend(s, a)
           \/ \E s \in Socket : ServerClose(s)
           \/ \E s \in Socket : ConnectionReset(s)
           \/ MeshDown \/ SelectFails \/ ConnectFails
  BY <1>5, <1>6, LinkAssumption
  DEF ServerSend, ServerClose, ConnectionReset, MeshDown, SelectFails, ConnectFails
<1>7. CASE \/ \E k \in {1, 2} : (k = 2 \/ Segmented) /\ ReadFirst(k)
           \/ \E s \in Socket : Connected(s)
           \/ MeshUp \/ RootGotIp \/ ReadRest \/ ReadEof \/ ReadError \/ TcpLeave
           \/ TcpClose \/ TcpClear \/ MeshLeave \/ MeshLoop \/ Register \/ Serve
  BY <1>4, <1>7
  DEF ReadFirst, Connected, MeshUp, RootGotIp, ReadRest, ReadEof, ReadError,
      TcpLeave, TcpClose, TcpClear, MeshLeave, MeshLoop, Register, Serve, envVars
<1> QED
  BY <1>6, <1>7 DEF Next

\* A step that moves no command.
LEMMA StillStep ==
  ASSUME InSequence, UNCHANGED <<queue, executed, wire, sent, buf, peer>>,
         already' \in {already, 0}, sock' \in {sock, 0}
  PROVE  InSequence'
<1>1. /\ Ordered' /\ \A c \in Nat : Ahead(c) => Ahead(c)'
      /\ \A s \in Socket : WireOrdered(s)'
  BY DEF InSequence, Ordered, Ahead, WireOrdered
<1>2. Coming'
  BY <1>1 DEF InSequence, Coming
<1> QED
  BY <1>1, <1>2 DEF InSequence

LEMMA SendStep ==
  ASSUME ServerLinkTypeOK, InSequence, NEW s \in Socket, NEW a \in Addr,
         ServerSend(s, a)
  PROVE  InSequence'
<1>0. wire \in [Socket -> Seq(Piece)] /\ Len(sent) \in Nat /\ wire[s] \in Seq(Piece)
      /\ sent \in Seq(Addr) /\ buf[1].cmd \in Nat
  BY OrderTypes DEF ServerLinkTypeOK
<1> DEFINE k == Len(sent')
           h == [cmd |-> k, half |-> "head"]
           t == [cmd |-> k, half |-> "tail"]
<1>1. /\ Len(sent') = Len(sent) + 1
      /\ UNCHANGED <<queue, executed, buf, already, sock, peer>>
      /\ wire' = [wire EXCEPT ![s] = @ \o <<h, t>>] /\ peer[s] = "ok"
  BY <1>0 DEF ServerSend, tcpVars
<1>2. h.cmd = k /\ h.half = "head" /\ t.cmd = k /\ t.half = "tail"
  OBVIOUS
<1>3. k = Len(sent) + 1 /\ k \in Nat
  BY <1>0, <1>1
<1> HIDE DEF h, t
<1>4. /\ wire'[s] = wire[s] \o <<h, t>>
      /\ \A r \in Socket \ {s} : wire'[r] = wire[r]
  BY <1>0, <1>1
<1> HIDE DEF k
<1>5. /\ Len(wire'[s]) = Len(wire[s]) + 2 /\ Len(wire[s]) \in Nat
      /\ wire'[s][Len(wire[s]) + 1] = h /\ wire'[s][Len(wire[s]) + 2] = t
      /\ \A i \in 1 .. Len(wire[s]) : wire'[s][i] = wire[s][i]
  BY <1>0, <1>4
<1>6. \A i \in 1 .. Len(wire'[s]) :
        \/ i \in 1 .. Len(wire[s]) /\ wire'[s][i] = wire[s][i]
        \/ i = Len(wire[s]) + 1 /\ wire'[s][i] = h
        \/ i = Len(wire[s]) + 2 /\ wire'[s][i] = t
  BY <1>5
<1>7. \A c \in Nat : Ahead(c) => Ahead(c)'
  BY <1>1 DEF Ahead
<1>8. /\ \A r \in Socket : \A i \in 1 .. Len(wire[r]) :
            wire[r][i].cmd \in Nat /\ wire[r][i].cmd <= Len(sent)
      /\ \A r \in Socket : WireOrdered(r)
  BY <1>0, OrderTypes DEF InSequence, WireOrdered
<1>9. WireOrdered(s)'
  <2> SUFFICES ASSUME NEW i \in 1 .. Len(wire'[s])
               PROVE  /\ wire'[s][i].cmd <= k
                      /\ \A j \in 1 .. Len(wire'[s]) :
                           i < j /\ wire'[s][j].half = "head"
                             => wire'[s][i].cmd < wire'[s][j].cmd
    BY DEF WireOrdered, k
  <2>1. wire'[s][i].cmd \in Nat /\ wire'[s][i].cmd <= k
    <3>1. CASE i \in 1 .. Len(wire[s]) /\ wire'[s][i] = wire[s][i]
      <4>1. wire[s][i].cmd \in Nat /\ wire[s][i].cmd <= Len(sent)
        BY <1>8, <3>1
      <4> QED
        BY <1>0, <1>3, <3>1, <4>1
    <3>2. CASE wire'[s][i] \in {h, t}
      BY <1>2, <1>3, <3>2
    <3> QED
      BY <1>6, <3>1, <3>2
  <2>2. ASSUME NEW j \in 1 .. Len(wire'[s]), i < j, wire'[s][j].half = "head"
        PROVE  wire'[s][i].cmd < wire'[s][j].cmd
    <3>1. CASE j \in 1 .. Len(wire[s])
      <4>1. i \in 1 .. Len(wire[s])
        BY <1>5, <2>2, <3>1
      <4> QED
        BY <1>5, <1>8, <2>2, <3>1, <4>1 DEF WireOrdered
    <3>2. CASE j = Len(wire[s]) + 1
      <4>1. i \in 1 .. Len(wire[s])
        BY <1>5, <2>2, <3>2
      <4> QED
        BY <1>0, <1>2, <1>3, <1>5, <1>8, <3>2, <4>1
    <3>3. CASE j = Len(wire[s]) + 2
      BY <1>2, <1>5, <2>2, <3>3
    <3> QED
      BY <1>6, <3>1, <3>2, <3>3
  <2> QED
    BY <2>1, <2>2
<1>10. \A r \in Socket \ {s} : WireOrdered(r)'
  <2> SUFFICES ASSUME NEW r \in Socket \ {s}
               PROVE  WireOrdered(r)'
    OBVIOUS
  <2> DEFINE w == wire[r]
  <2>1. wire'[r] = w
    BY <1>4
  <2>2. /\ \A i \in 1 .. Len(w) : w[i].cmd \in Nat /\ w[i].cmd <= Len(sent)
        /\ \A i, j \in 1 .. Len(w) : i < j /\ w[j].half = "head" => w[i].cmd < w[j].cmd
    BY <1>8 DEF WireOrdered
  <2> HIDE DEF w
  <2>3. \A i \in 1 .. Len(w) : w[i].cmd <= Len(sent')
    BY <1>0, <1>1, <2>2
  <2> QED
    BY <2>1, <2>2, <2>3 DEF WireOrdered
<1>11. Coming'
  <2>1. ASSUME NEW c \in Nat, sock # 0, NEW i \in 1 .. Len(wire'[sock]),
               wire'[sock][i].half = "head", wire'[sock][i].cmd = c
        PROVE  Ahead(c)' /\ (already = 1 => buf[1].cmd < c)
    <3>1. sock \in Socket
      BY <2>1, OrderTypes
    <3>2. CASE i \in 1 .. Len(wire[sock]) /\ wire'[sock][i] = wire[sock][i]
      BY <1>7, <2>1, <3>2 DEF InSequence, Coming
    <3>3. CASE c = k
      BY <1>0, <1>3, <1>7, <3>3 DEF InSequence
    <3> QED
      BY <1>2, <1>4, <1>6, <2>1, <3>1, <3>2, <3>3
  <2>2. \A r \in Socket : /\ peer'[r] \in {"none", "ok"}
                          /\ peer'[r] = "none" => wire'[r] = <<>>
    BY <1>1, <1>4 DEF InSequence, Coming
  <2> QED
    BY <1>1, <1>7, <2>1, <2>2 DEF InSequence, Coming
<1> QED
  <2>1. Ordered'
    BY <1>1 DEF InSequence, Ordered
  <2>2. buf'[1].cmd <= Len(sent') /\ \A c \in Nat : c > Len(sent') => Ahead(c)'
    BY <1>0, <1>1, <1>7 DEF InSequence
  <2> QED
    BY <1>9, <1>10, <1>11, <2>1, <2>2 DEF InSequence

\* The pieces read from a connection, and what remains on it.
LEMMA Reads ==
  ASSUME ServerLinkTypeOK, InSequence, sock # 0, NEW k \in 1 .. Len(wire[sock]),
         NEW v, v = SubSeq(wire[sock], k + 1, Len(wire[sock])),
         wire' = [wire EXCEPT ![sock] = v]
  PROVE  /\ sock \in Socket /\ wire[sock] \in Seq(Piece)
         /\ \A i \in 1 .. Len(wire'[sock]) :
              /\ i + k \in 1 .. Len(wire[sock]) /\ wire'[sock][i] = wire[sock][i + k]
              /\ wire'[sock][i].half = "head" =>
                   \A j \in 1 .. k : wire[sock][j].cmd < wire'[sock][i].cmd
         /\ \A r \in Socket : sent' = sent => WireOrdered(r)'
         /\ \A r \in Socket : wire[r] = <<>> => wire'[r] = <<>>
<1> DEFINE w == wire[sock]
<1>1. sock \in Socket /\ w \in Seq(Piece) /\ wire \in [Socket -> Seq(Piece)]
  BY OrderTypes
<1>2. wire'[sock] = v /\ \A r \in Socket \ {sock} : wire'[r] = wire[r]
  BY <1>1
<1>3. \A i, j \in 1 .. Len(w) :
        /\ w[i].cmd <= Len(sent)
        /\ i < j /\ w[j].half = "head" => w[i].cmd < w[j].cmd
  BY <1>1 DEF InSequence, WireOrdered
<1>4. /\ v \in Seq(Piece) /\ Len(v) = Len(w) - k /\ k \in 1 .. Len(w)
      /\ \A i \in 1 .. Len(w) - k : i + k \in 1 .. Len(w) /\ v[i] = w[i + k]
  BY <1>1, PieceTaken
<1> HIDE DEF w
<1>5. \A i \in 1 .. Len(v) : /\ i + k \in 1 .. Len(w) /\ v[i] = w[i + k]
                             /\ \A j \in 1 .. k : j \in 1 .. Len(w) /\ j < i + k
  BY <1>1, <1>4
<1>6. \A i \in 1 .. Len(v) : v[i].half = "head" => \A j \in 1 .. k : w[j].cmd < v[i].cmd
  BY <1>3, <1>5
<1>7. ASSUME sent' = sent, NEW r \in Socket
      PROVE  WireOrdered(r)'
  <2>1. CASE r # sock
    BY <1>2, <1>7, <2>1 DEF InSequence, WireOrdered
  <2>2. CASE r = sock
    <3>1. \A i, j \in 1 .. Len(v) : i < j => i + k < j + k
      BY <1>4
    <3>2. \A i \in 1 .. Len(v) :
            /\ v[i].cmd <= Len(sent)
            /\ \A j \in 1 .. Len(v) : i < j /\ v[j].half = "head" => v[i].cmd < v[j].cmd
      <4>1. ASSUME NEW i \in 1 .. Len(v)
            PROVE  v[i] = w[i + k] /\ i + k \in 1 .. Len(w) /\ w[i + k].cmd <= Len(sent)
        BY <1>3, <1>5, <4>1
      <4>2. ASSUME NEW i \in 1 .. Len(v), NEW j \in 1 .. Len(v), i < j,
                   v[j].half = "head"
            PROVE  v[i].cmd < v[j].cmd
        <5>1. w[i + k].cmd < w[j + k].cmd
          BY <1>3, <3>1, <4>1, <4>2
        <5> QED
          BY <4>1, <5>1
      <4> QED
        BY <4>1, <4>2
    <3>3. wire'[r] = v
      BY <1>2, <2>2
    <3> QED
      BY <1>7, <3>2, <3>3 DEF WireOrdered
  <2> QED
    BY <2>1, <2>2
<1>8. ASSUME NEW r \in Socket, wire[r] = <<>>
      PROVE  wire'[r] = <<>>
  <2>1. r # sock
    BY <1>1, <1>4, <1>8 DEF w
  <2> QED
    BY <1>2, <1>8, <2>1
<1> QED
  BY <1>1, <1>2, <1>5, <1>6, <1>7, <1>8 DEF w

\* What is handed over keeps the order if it is younger than what was.
LEMMA Handed ==
  ASSUME ServerLinkTypeOK, InSequence, NEW b \in Piece \X Piece, Deliver(b),
         executed' = executed, b[1].half = "head" => Ahead(b[1].cmd)
  PROVE  /\ Ordered'
         /\ \A c \in Nat :
              Ahead(c) /\ (b[1].half # "head" \/ b[1].cmd < c) => Ahead(c)'
<1>1. b[1] \in Piece /\ b[1].cmd \in Nat
  BY OrderTypes
<1>2. CASE queue' = queue
  BY <1>2 DEF InSequence, Ordered, Ahead
<1>3. CASE b[1].half = "head" /\ queue' = Append(queue, b)
  BY <1>1, <1>3, Queued DEF InSequence
<1> QED
  BY <1>2, <1>3, DeliverType DEF ServerLinkTypeOK

\* A read: command b is handed over if it is complete, and what remains on the
\* connection is younger than it.
LEMMA ReadStep ==
  ASSUME LinkTypeInv, InSequence, ReadRest \/ \E k \in {1, 2} : ReadFirst(k)
  PROVE  InSequence'
<1>0. ServerLinkTypeOK
  BY DEF LinkTypeInv
<1>1. \A c \in Nat : Ahead(c) /\ UNCHANGED <<queue, executed>> => Ahead(c)'
  BY DEF Ahead
<1>3. CASE ReadRest
  <2>1. /\ sock # 0 /\ already = 1 /\ already' = 0 /\ wire[sock] # <<>>
        /\ wire' = [wire EXCEPT ![sock] = Tail(@)] /\ Deliver(buf)
        /\ UNCHANGED <<sock, executed, buf, peer, sent>>
    BY <1>3 DEF ReadRest, Reading
  <2>2. /\ 1 \in 1 .. Len(wire[sock])
        /\ Tail(wire[sock]) = SubSeq(wire[sock], 1 + 1, Len(wire[sock]))
        /\ wire' = [wire EXCEPT ![sock] = Tail(wire[sock])]
    <3> DEFINE w == wire[sock]
    <3>1. w \in Seq(Piece) /\ w # <<>>
      BY <1>0, <2>1, OrderTypes
    <3> HIDE DEF w
    <3>2. Tail(w) = SubSeq(w, 2, Len(w)) /\ 1 \in 1 .. Len(w)
      BY <3>1, TailIsSubSeq
    <3>3. Tail(w) = SubSeq(w, 1 + 1, Len(w))
      BY <3>2
    <3> QED
      BY <2>1, <3>2, <3>3 DEF w
  <2>3. /\ \A i \in 1 .. Len(wire'[sock]) :
             i + 1 \in 1 .. Len(wire[sock]) /\ wire'[sock][i] = wire[sock][i + 1]
        /\ \A r \in Socket : WireOrdered(r)'
        /\ \A r \in Socket : wire[r] = <<>> => wire'[r] = <<>>
    BY <1>0, <2>1, <2>2, Reads
  <2>4. /\ Ordered'
        /\ \A c \in Nat : Ahead(c) /\ (buf[1].half # "head" \/ buf[1].cmd < c)
                         => Ahead(c)'
    <3>1. PICK b \in Piece \X Piece : b = buf
      BY <1>0, OrderTypes
    <3>2. Deliver(b)
      BY <2>1, <3>1 DEF Deliver, Addressed, Pushed
    <3>3. b[1].half = "head" => Ahead(b[1].cmd)
      <4>1. b[1].cmd \in Nat
        BY <1>0, <3>1, OrderTypes
      <4> QED
        BY <2>1, <3>1, <4>1 DEF InSequence, Coming
    <3>4. /\ Ordered'
          /\ \A c \in Nat :
               Ahead(c) /\ (b[1].half # "head" \/ b[1].cmd < c) => Ahead(c)'
      BY <1>0, <2>1, <3>1, <3>2, <3>3, Handed
    <3> QED
      BY <3>1, <3>4
  <2>5. Coming'
    BY <2>1, <2>3, <2>4 DEF InSequence, Coming
  <2>6. \A c \in Nat : c > Len(sent') => Ahead(c)'
    BY <1>0, <2>1, <2>4, OrderTypes DEF InSequence
  <2> QED
    BY <2>1, <2>3, <2>4, <2>5, <2>6 DEF InSequence
<1>4. ASSUME NEW k \in {1, 2}, ReadFirst(k)
      PROVE  InSequence'
  <2>1. /\ sock # 0 /\ k \in 1 .. Len(wire[sock]) /\ sock \in Socket
        /\ wire' = [wire EXCEPT ![sock] = SubSeq(wire[sock], k + 1, Len(wire[sock]))]
        /\ UNCHANGED <<sock, executed, peer, sent>>
    BY <1>0, <1>4, OrderTypes DEF ReadFirst, Reading
  <2>2. /\ wire[sock] \in Seq(Piece)
        /\ \A i \in 1 .. Len(wire'[sock]) :
             /\ i + k \in 1 .. Len(wire[sock]) /\ wire'[sock][i] = wire[sock][i + k]
             /\ wire'[sock][i].half = "head" =>
                  \A j \in 1 .. k : wire[sock][j].cmd < wire'[sock][i].cmd
        /\ \A r \in Socket : WireOrdered(r)'
        /\ \A r \in Socket : wire[r] = <<>> => wire'[r] = <<>>
    BY <1>0, <2>1, Reads
  <2> DEFINE h == wire[sock][1]
  <2>3. /\ h \in Piece /\ h.cmd \in Nat /\ h.cmd <= Len(sent)
        /\ h.half = "head" => Ahead(h.cmd)
        /\ buf'[1] = h /\ buf' \in Piece \X Piece
        /\ \A i \in 1 .. Len(wire'[sock]) :
             wire'[sock][i].half = "head" => h.cmd < wire'[sock][i].cmd
    <3>1. 1 \in 1 .. Len(wire[sock]) /\ 1 \in 1 .. k /\ h \in Piece
      BY <2>1, <2>2
    <3>2. buf'[1] = h /\ buf' \in Piece \X Piece
      BY <1>0, <1>4, <2>1, <2>2, OrderTypes DEF ReadFirst
    <3>3. h.cmd \in Nat /\ h.cmd <= Len(sent)
      BY <1>0, <2>1, <3>1, OrderTypes DEF InSequence, WireOrdered
    <3> QED
      BY <2>1, <2>2, <3>1, <3>2, <3>3 DEF InSequence, Coming
  <2> HIDE DEF h
  <2>4. CASE k = 2
    <3>1. Deliver(buf') /\ already' = 0
      BY <1>4, <2>4 DEF ReadFirst
    <3>2. /\ Ordered'
          /\ \A c \in Nat : Ahead(c) /\ (h.half # "head" \/ h.cmd < c) => Ahead(c)'
      <4>1. PICK b \in Piece \X Piece : b = buf'
        BY <2>3
      <4>2. Deliver(b) /\ b[1] = h
        BY <2>3, <3>1, <4>1 DEF Deliver, Addressed, Pushed
      <4>3. b[1].half = "head" => Ahead(b[1].cmd)
        BY <2>3, <4>2
      <4>4. /\ Ordered'
            /\ \A c \in Nat :
                 Ahead(c) /\ (b[1].half # "head" \/ b[1].cmd < c) => Ahead(c)'
        BY <1>0, <2>1, <4>1, <4>2, <4>3, Handed
      <4> QED
        BY <4>2, <4>4
    <3>3. Coming'
      <4>1. ASSUME NEW c \in Nat, NEW i \in 1 .. Len(wire'[sock]),
                   wire'[sock][i].half = "head", wire'[sock][i].cmd = c
            PROVE  Ahead(c)'
        <5>1. Ahead(c) /\ h.cmd < c
          BY <2>1, <2>2, <2>3, <4>1 DEF InSequence, Coming
        <5> QED
          BY <3>2, <5>1
      <4> QED
        BY <2>1, <2>2, <3>1, <4>1 DEF InSequence, Coming
    <3>4. \A c \in Nat : c > Len(sent') => Ahead(c)'
      <4> SUFFICES ASSUME NEW c \in Nat, c > Len(sent)
                   PROVE  Ahead(c)'
        BY <2>1
      <4>1. h.cmd < c /\ Ahead(c)
        BY <1>0, <2>3, OrderTypes DEF InSequence
      <4> QED
        BY <3>2, <4>1
    <3> QED
      BY <2>1, <2>2, <2>3, <3>2, <3>3, <3>4 DEF InSequence
  <2>5. CASE k = 1
    <3>1. UNCHANGED queue /\ already' = 1
      BY <1>4, <2>5 DEF ReadFirst
    <3>2. Ordered' /\ \A c \in Nat : Ahead(c) => Ahead(c)'
      BY <1>1, <2>1, <3>1 DEF InSequence, Ordered
    <3>3. Coming'
      <4>1. ASSUME NEW c \in Nat, NEW i \in 1 .. Len(wire'[sock]),
                   wire'[sock][i].half = "head", wire'[sock][i].cmd = c
            PROVE  Ahead(c)' /\ h.cmd < c
        <5>1. Ahead(c) /\ h.cmd < c
          BY <2>1, <2>2, <2>3, <4>1 DEF InSequence, Coming
        <5> QED
          BY <3>2, <5>1
      <4>2. h.half = "head" => \A c \in Nat : h.cmd = c => Ahead(c)'
        BY <2>3, <3>2
      <4> QED
        BY <2>1, <2>2, <2>3, <3>1, <4>1, <4>2 DEF InSequence, Coming
    <3> QED
      BY <2>1, <2>2, <2>3, <3>2, <3>3 DEF InSequence
  <2> QED
    BY <2>4, <2>5
<1> QED
  BY <1>3, <1>4

LEMMA OrderStep == LinkTypeInv /\ OrderInv /\ [Next]_vars => OrderInv'
<1>1. ASSUME LinkTypeInv, InSequence, Next, ~Disturbed'
      PROVE  InSequence'
  <2>0. ServerLinkTypeOK /\ sock \in Socket \cup {0}
    BY <1>1, OrderTypes DEF LinkTypeInv
  <2>1. CASE \E s \in Socket, a \in Addr : ServerSend(s, a)
    BY <1>1, <2>0, <2>1, SendStep
  <2>2. CASE \/ MeshDown \/ MeshUp \/ RootGotIp \/ TcpLeave \/ TcpClose \/ TcpClear
             \/ MeshLeave \/ MeshLoop \/ ConnectFails \/ Register
    <3>1. /\ UNCHANGED <<queue, executed, wire, sent, buf, peer>>
          /\ already' \in {already, 0} /\ sock' \in {sock, 0}
      BY <2>2 DEF MeshDown, MeshUp, RootGotIp, TcpLeave, TcpClose, TcpClear,
                  MeshLeave, MeshLoop, ConnectFails, Register, tcpVars, envVars,
                  linkVars, Cleared
    <3> QED
      BY <1>1, <3>1, StillStep
  <2>3. CASE ReadRest \/ \E k \in {1, 2} : (k = 2 \/ Segmented) /\ ReadFirst(k)
    BY <1>1, <2>3, ReadStep
  <2>4. CASE ReadEof \/ ReadError
    <3>1. sock \in Socket /\ peer[sock] \in {"closed", "reset"}
      BY <2>0, <2>4 DEF ReadEof, ReadError, Reading
    <3> QED
      BY <1>1, <3>1 DEF InSequence, Coming
  <2>5. ASSUME NEW s \in Socket, Connected(s)
        PROVE  InSequence'
    <3>1. /\ UNCHANGED <<queue, executed, wire, sent, buf, already>>
          /\ sock' = s /\ wire[s] = <<>>
          /\ \A r \in Socket : peer'[r] = peer[r] \/ peer'[r] = "ok"
      BY <1>1, <2>0, <2>5, OrderTypes DEF Connected, tcpVars, InSequence, Coming
    <3>2. /\ Ordered' /\ \A c \in Nat : Ahead(c) => Ahead(c)'
          /\ \A r \in Socket : WireOrdered(r)'
      BY <1>1, <3>1 DEF InSequence, Ordered, Ahead, WireOrdered
    <3>3. Coming'
      BY <1>1, <3>1, <3>2 DEF InSequence, Coming
    <3> QED
      BY <1>1, <3>1, <3>2, <3>3 DEF InSequence
  <2>6. CASE Serve
    <3>1. UNCHANGED <<wire, sent, buf, peer, already, sock>>
      BY <2>6 DEF Serve, tcpVars, envVars, linkVars
    <3>2. CASE queue = <<>>
      BY <1>1, <2>6, <3>1, <3>2, StillStep DEF Serve
    <3>3. CASE queue # <<>>
      <4>1. Ordered' /\ \A c \in Nat : Ahead(c) => Ahead(c)'
        BY <1>1, <2>0, <2>6, <3>3, Served DEF Serve, InSequence
      <4>2. Coming' /\ \A r \in Socket : WireOrdered(r)'
        BY <1>1, <3>1, <4>1 DEF InSequence, Coming, WireOrdered
      <4> QED
        BY <1>1, <3>1, <4>1, <4>2 DEF InSequence
    <3> QED
      BY <3>2, <3>3
  <2> QED
    BY <1>1, <2>1, <2>2, <2>3, <2>4, <2>5, <2>6, Undisturbed DEF Next
<1>2. ASSUME InSequence, UNCHANGED vars
      PROVE  InSequence'
  BY <1>2, StillStep DEF vars, tcpVars, envVars, linkVars
<1>3. UNCHANGED vars => Disturbed' = Disturbed
  BY DEF vars, envVars, Disturbed
<1> QED
  BY <1>1, <1>2, <1>3, Undisturbed DEF OrderInv

LEMMA OrderInit == Init => OrderInv
<1> SUFFICES ASSUME Init PROVE InSequence
  BY DEF OrderInv
<1>1. /\ sock = 0 /\ already = 0 /\ queue = <<>> /\ executed = <<>> /\ sent = <<>>
      /\ \A s \in Socket : wire[s] = <<>> /\ peer[s] = "none"
      /\ buf[1].cmd = 0
  BY DEF Init, Nothing
<1> HIDE DEF Init
<1> QED
  BY <1>1 DEF InSequence, Ordered, Coming, WireOrdered, Ahead

\* As long as no connection is closed by the server or reset, commands are
\* executed in the order in which the server sent them, none of them twice,
\* over however many connections and losses of the mesh, whatever is dropped
\* by a full queue (tcp_client_read_task, root_mesh_read_task).
THEOREM CommandsInOrder == Spec => []InOrder
<1>1. OrderInv => InOrder
  <2> SUFFICES ASSUME InSequence
               PROVE  \A i, j \in DOMAIN executed :
                        i < j => executed[i][1].cmd < executed[j][1].cmd
    BY DEF OrderInv, InOrder
  <2> QED
    BY DEF InSequence, Ordered
<1> QED
  BY <1>1, OrderInit, OrderStep, LinkTypeInit, LinkTypeStep,
     PTL DEF Spec
=============================================================================
