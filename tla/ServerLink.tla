----------------------------- MODULE ServerLink -----------------------------
(***************************************************************************)
(* The root's connection to the TCP server (main/router.c): the socket     *)
(* g_sockfd, the task that reads commands from it (tcp_client_read_task),  *)
(* the part of root_mesh_read_task that connects, registers and takes      *)
(* commands, and ServerQueue between the two.                              *)
(*                                                                         *)
(*   up          mwifi_is_connected() and layer = MESH_ROOT                *)
(*   ip          MDF_EVENT_MWIFI_ROOT_GOT_IP is on its way                 *)
(*   sock        g_sockfd; 0 stands for -1                                 *)
(*   open        sockets of the program that are open                      *)
(*   tcp, mesh   where the two tasks are; "none" = the handle is NULL      *)
(*   buf         *pSCmd, in two pieces                                     *)
(*   already     alreadReadNumber, in pieces                               *)
(*   eof         socket_maybe_close                                        *)
(*   queue       ServerQueue                                               *)
(* External: wire[s], peer[s], registered[s], the connection as the server *)
(* left it; sent, the addresses of the commands it sent; executed, what    *)
(* root_mesh_read_task took off the queue.                                 *)
(*                                                                         *)
(* A command is cut into two pieces, its header and its payload, which     *)
(* arrive in one read or in two.                                           *)
(***************************************************************************)
EXTENDS Integers, Sequences, FiniteSets, Functions

CONSTANTS
  Root,        \* g_self_mac
  Listed,      \* the devices in the node list
  Addr,        \* addresses the server sends commands to
  Socket,      \* sockets that can be opened, 1 .. n
  QueueLen,    \* length of ServerQueue
  EofReads,    \* empty reads before the socket is closed (20)
  Segmented,   \* TRUE: a command may arrive in two reads
  Limit,       \* how often the environment acts in each of its ways
  Acts         \* and how often altogether

ASSUME LinkAssumption ==
  /\ Socket \subseteq Nat \ {0}
  /\ {"cmd", "close", "reset", "refuse", "down"} \subseteq DOMAIN Limit
  /\ Limit \in [DOMAIN Limit -> Nat]
  /\ QueueLen \in Nat /\ EofReads \in Nat

VARIABLES up, ip, sock, open, tcp, mesh, buf, already, eof, queue,
          wire, peer, registered, sent, executed, spent

linkVars == <<wire, peer, registered>>
envVars  == <<linkVars, sent, spent>>
tcpVars  == <<tcp, buf, already, eof>>
vars     == <<up, ip, sock, open, mesh, queue, executed, tcpVars, envVars>>

Nothing == [cmd |-> 0, half |-> "tail"]

Piece == [cmd : 0 .. Limit.cmd, half : {"head", "tail"}]

ServerLinkTypeOK ==
  /\ up \in BOOLEAN /\ ip \in BOOLEAN
  /\ sock \in Socket \cup {0}
  /\ open \subseteq Socket
  /\ tcp \in {"none", "read", "close", "clear"}
  /\ mesh \in {"none", "loop", "connect", "register", "serve"}
  /\ buf \in Piece \X Piece
  /\ already \in {0, 1}
  /\ eof \in 0 .. EofReads
  /\ queue \in Seq(Piece \X Piece) /\ Len(queue) <= QueueLen
  /\ wire \in [Socket -> Seq(Piece)]
  /\ peer \in [Socket -> {"none", "ok", "closed", "reset"}]
  /\ registered \in [Socket -> BOOLEAN]
  /\ sent \in Seq(Addr) /\ Len(sent) <= Limit.cmd
  /\ executed \in Seq(Piece \X Piece)
  /\ \A k \in DOMAIN spent : spent[k] \in 0 .. Limit[k]

Init ==
  /\ up = TRUE /\ ip = TRUE
  /\ sock = 0 /\ open = {}
  /\ tcp = "none" /\ mesh = "none"
  /\ buf = <<Nothing, Nothing>> /\ already = 0 /\ eof = 0
  /\ queue = <<>>
  /\ wire = [s \in Socket |-> <<>>]
  /\ peer = [s \in Socket |-> "none"]
  /\ registered = [s \in Socket |-> FALSE]
  /\ sent = <<>> /\ executed = <<>>
  /\ spent = [k \in DOMAIN Limit |-> 0]

TimesSpent == FoldFunction(+, 0, spent)

Spend(what) ==
  /\ spent[what] < Limit[what] /\ TimesSpent < Acts
  /\ spent' = [spent EXCEPT ![what] = @ + 1]

----------------------------------------------------------------------------
(* The server and the network. *)

\* The server sends a command over a connection on which the root registered.
ServerSend(s, a) ==
  /\ peer[s] = "ok" /\ registered[s]
  /\ Spend("cmd")
  /\ sent' = Append(sent, a)
  /\ wire' = [wire EXCEPT ![s] = @ \o << [cmd |-> Len(sent'), half |-> "head"],
                                         [cmd |-> Len(sent'), half |-> "tail"] >>]
  /\ UNCHANGED <<up, ip, sock, open, mesh, queue, executed, tcpVars, peer, registered>>

\* The server closes the connection, or the network resets it.
ServerClose(s) ==
  /\ peer[s] = "ok"
  /\ Spend("close")
  /\ peer' = [peer EXCEPT ![s] = "closed"]
  /\ UNCHANGED <<up, ip, sock, open, mesh, queue, executed, tcpVars, wire,
                 registered, sent>>

ConnectionReset(s) ==
  /\ peer[s] \in {"ok", "closed"}
  /\ Spend("reset")
  /\ peer' = [peer EXCEPT ![s] = "reset"]
  /\ wire' = [wire EXCEPT ![s] = <<>>]
  /\ UNCHANGED <<up, ip, sock, open, mesh, queue, executed, tcpVars, registered, sent>>

\* The mesh is lost or another device becomes root; and back.
MeshDown ==
  /\ up /\ Spend("down")
  /\ up' = FALSE /\ ip' = FALSE
  /\ UNCHANGED <<sock, open, mesh, queue, executed, tcpVars, linkVars, sent>>

MeshUp ==
  /\ ~up
  /\ up' = TRUE /\ ip' = TRUE
  /\ UNCHANGED <<sock, open, mesh, queue, executed, tcpVars, envVars>>

\* MDF_EVENT_MWIFI_ROOT_GOT_IP: each task is created unless it has a handle,
\* even one of a task about to end.
RootGotIp ==
  /\ up /\ ip
  /\ ip' = FALSE
  /\ IF tcp = "none"
       THEN /\ tcp' = "read"
            /\ already' = 0 /\ eof' = 0
       ELSE UNCHANGED <<tcp, already, eof>>
  /\ mesh' = IF mesh = "none" THEN "loop" ELSE mesh
  /\ UNCHANGED <<up, sock, open, queue, executed, buf, envVars>>

----------------------------------------------------------------------------
(* tcp_client_read_task *)

\* Mutant: only commands to listed devices pass.
ListedOnly(b) == b[1].half = "head" /\ sent[b[1].cmd] \in Listed

\* The address in the buffer is the root's or that of a listed device.
Addressed(b) ==
  b[1].half = "head" /\ sent[b[1].cmd] \in Listed \cup {Root}

\* Mutant: xQueueSendToFront.
PushedFirst(q, b) == IF Len(q) < QueueLen THEN <<b>> \o q ELSE q

\* xQueueSend without waiting: a full queue drops the command.
Pushed(q, b) == IF Len(q) < QueueLen THEN Append(q, b) ELSE q

\* Mutant: close() forgotten.
LeftOpen(s) == open

Closed(s) == open \ {s}

\* Mutant: g_sockfd keeps the number of the socket that was closed.
Kept(s) == s

Cleared(s) == 0

Deliver(b) == queue' = IF Addressed(b) THEN Pushed(queue, b) ELSE queue

Reading == up /\ tcp = "read" /\ sock # 0

\* A read while the buffer is empty: the header alone, or a whole command.
ReadFirst(k) ==
  /\ Reading /\ already = 0
  /\ k <= Len(wire[sock])
  /\ wire' = [wire EXCEPT ![sock] = SubSeq(@, k + 1, Len(@))]
  /\ buf' = IF k = 2 THEN <<wire[sock][1], wire[sock][2]>>
                     ELSE <<wire[sock][1], buf[2]>>
  /\ IF k = 2 THEN Deliver(buf') /\ already' = 0
              ELSE UNCHANGED queue /\ already' = 1
  /\ eof' = 0
  /\ UNCHANGED <<up, ip, sock, open, mesh, executed, tcp, peer, registered, sent, spent>>

\* The read that completes a command.  pSCmd + alreadReadNumber counts in
\* commands, not in bytes: the piece does not land in the buffer.
ReadRest ==
  /\ Reading /\ already = 1
  /\ wire[sock] # <<>>
  /\ wire' = [wire EXCEPT ![sock] = Tail(@)]
  /\ Deliver(buf)
  /\ already' = 0 /\ eof' = 0
  /\ UNCHANGED <<up, ip, sock, open, mesh, executed, tcp, buf, peer, registered, sent, spent>>

\* read() = 0: after some of them the socket is closed; every one of them
\* hands over what is in the buffer.
ReadEof ==
  /\ Reading /\ peer[sock] = "closed" /\ wire[sock] = <<>>
  /\ IF eof + 1 > EofReads
       THEN eof' = 0 /\ open' = Closed(sock) /\ sock' = Cleared(sock)
       ELSE eof' = eof + 1 /\ UNCHANGED <<open, sock>>
  /\ Deliver(buf)
  /\ UNCHANGED <<up, ip, mesh, executed, tcp, buf, already, envVars>>

\* read() < 0: the socket is closed, and what is in the buffer handed over.
ReadError ==
  /\ Reading /\ peer[sock] = "reset"
  /\ open' = Closed(sock) /\ sock' = Cleared(sock)
  /\ eof' = 0
  /\ Deliver(buf)
  /\ UNCHANGED <<up, ip, mesh, executed, tcp, buf, already, envVars>>

\* select() fails: the socket is closed and nothing handed over.
SelectFails ==
  /\ Reading /\ Spend("reset")
  /\ open' = Closed(sock) /\ sock' = Cleared(sock)
  /\ UNCHANGED <<up, ip, mesh, queue, executed, tcpVars, linkVars, sent>>

\* The loop ends with the mesh: the task closes the socket, clears it and goes.
TcpLeave ==
  /\ tcp = "read" /\ ~up
  /\ tcp' = "close"
  /\ UNCHANGED <<up, ip, sock, open, mesh, queue, executed, buf, already, eof, envVars>>

TcpClose ==
  /\ tcp = "close"
  /\ open' = Closed(sock)
  /\ tcp' = "clear"
  /\ UNCHANGED <<up, ip, sock, mesh, queue, executed, buf, already, eof, envVars>>

TcpClear ==
  /\ tcp = "clear"
  /\ sock' = Cleared(sock)
  /\ tcp' = "none"
  /\ UNCHANGED <<up, ip, open, mesh, queue, executed, buf, already, eof, envVars>>

TcpTask == \/ \E k \in {1, 2} : (k = 2 \/ Segmented) /\ ReadFirst(k)
           \/ ReadRest \/ ReadEof \/ ReadError
           \/ TcpLeave \/ TcpClose \/ TcpClear

----------------------------------------------------------------------------
(* root_mesh_read_task, as far as the server is concerned *)

MeshLeave ==
  /\ mesh = "loop" /\ ~up
  /\ mesh' = "none"
  /\ UNCHANGED <<up, ip, sock, open, queue, executed, tcpVars, envVars>>

MeshLoop ==
  /\ mesh = "loop" /\ up
  /\ mesh' = IF sock = 0 THEN "connect" ELSE "serve"
  /\ UNCHANGED <<up, ip, sock, open, queue, executed, tcpVars, envVars>>

\* socket_tcp_client_create.
ConnectFails ==
  /\ mesh = "connect" /\ Spend("refuse")
  /\ mesh' = "loop"
  /\ UNCHANGED <<up, ip, sock, open, queue, executed, tcpVars, linkVars, sent>>

Connected(s) ==
  /\ mesh = "connect"
  /\ peer[s] = "none" /\ \A r \in Socket : peer[r] = "none" => s <= r
  /\ sock' = s /\ open' = open \cup {s}
  /\ peer' = [peer EXCEPT ![s] = "ok"]
  /\ mesh' = "register"
  /\ UNCHANGED <<up, ip, queue, executed, tcpVars, wire, registered, sent, spent>>

\* root_send_register, on the socket as it is now.  A failed send leaves the
\* socket in place and the root unregistered.
Register ==
  /\ mesh = "register"
  /\ IF sock # 0 /\ sock \in open /\ peer[sock] = "ok"
       THEN registered' = [registered EXCEPT ![sock] = TRUE] /\ mesh' = "serve"
       ELSE UNCHANGED registered /\ mesh' = "loop"
  /\ UNCHANGED <<up, ip, sock, open, queue, executed, tcpVars, wire, peer, sent, spent>>

\* One command from the queue, if there is one, and round again.
Serve ==
  /\ mesh = "serve"
  /\ mesh' = "loop"
  /\ IF queue = <<>>
       THEN UNCHANGED <<queue, executed>>
       ELSE executed' = Append(executed, Head(queue)) /\ queue' = Tail(queue)
  /\ UNCHANGED <<up, ip, sock, open, tcpVars, envVars>>

MeshTask == MeshLeave \/ MeshLoop \/ (\E s \in Socket : Connected(s))
            \/ Register \/ Serve

Next ==
  \/ \E s \in Socket, a \in Addr : ServerSend(s, a)
  \/ \E s \in Socket : ServerClose(s)
  \/ \E s \in Socket : ConnectionReset(s)
  \/ MeshDown \/ MeshUp \/ RootGotIp
  \/ \E k \in {1, 2} : (k = 2 \/ Segmented) /\ ReadFirst(k)
  \/ ReadRest \/ ReadEof \/ ReadError \/ SelectFails
  \/ TcpLeave \/ TcpClose \/ TcpClear
  \/ MeshLeave \/ MeshLoop \/ ConnectFails
  \/ \E s \in Socket : Connected(s)
  \/ Register \/ Serve

Spec == Init /\ [][Next]_vars

\* Both tasks run again and again, and a root that is connected gets its
\* address.
FairSpec == Spec /\ WF_vars(TcpTask) /\ WF_vars(MeshTask) /\ WF_vars(RootGotIp)

----------------------------------------------------------------------------
\* A connection was closed or reset.
Disturbed == spent.close + spent.reset > 0

(***************************************************************************)
(* While connections stay up, the root executes the commands of the server *)
(* in the order they were sent and none of them twice, over connections    *)
(* made anew when the mesh is lost (tcp_client_read_task).                 *)
(***************************************************************************)
InOrder ==
  ~Disturbed =>
    \A i, j \in DOMAIN executed : i < j => executed[i][1].cmd < executed[j][1].cmd

(***************************************************************************)
(* No command is executed twice, also when the server closes the           *)
(* connection or the network resets it.                                    *)
(***************************************************************************)
ExecutedOnce ==
  \A i, j \in DOMAIN executed : i # j => executed[i][1].cmd # executed[j][1].cmd

\* Header and payload of a command the root executes are of one command.
CommandsWhole ==
  \A i \in DOMAIN executed : executed[i][1].cmd = executed[i][2].cmd

(***************************************************************************)
(* The tasks that share g_sockfd without a lock lose track of at most one  *)
(* open socket each time the mesh is lost, and of none otherwise.          *)
(***************************************************************************)
SocketsBounded == Cardinality(open) <= 1 + spent.down

Executed(c) == \E i \in DOMAIN executed : executed[i][1].cmd = c

\* Every command for an address of the mesh is executed, if no more are sent
\* than the queue holds and neither the connection nor the mesh is lost.
CommandsServed ==
  \A c \in 1 .. Limit.cmd :
    Len(sent) >= c ~> Executed(c) \/ Disturbed \/ spent.down > 0

(***************************************************************************)
(* Closed, reset and refused connections notwithstanding, the root ends up *)
(* connected and registered, and stays so, unless it loses the mesh.       *)
(***************************************************************************)
StaysRegistered ==
  <>[](spent.down > 0 \/ (sock # 0 /\ peer[sock] = "ok" /\ registered[sock]))
=============================================================================
