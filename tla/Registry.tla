------------------------------ MODULE Registry ------------------------------
(***************************************************************************)
(* Which devices the root and the server know of: the node list            *)
(* (main/node_dev_list.c), the events of the routing table, the root's     *)
(* ping and the registration and unregistration of devices                 *)
(* (main/router.c), a device's answer to a ping (main/node_task.c).        *)
(*                                                                         *)
(*   table     the devices in the mesh's routing table (external)          *)
(*   list      the node list, in the order of its links                    *)
(*   adds      QUEUE_NODE_ADD events in MeshQueue                          *)
(*   removes   QUEUE_NODE_REMOVE events in tcpQueue                        *)
(*   mesh      the next thing root_mesh_read_task does                     *)
(*   link      the connection to the server: "down" is g_sockfd = -1,      *)
(*             "broken" one that fails and that nobody has noticed         *)
(*   server    the devices registered over that connection                 *)
(*   air[d]    pings on their way to d                                     *)
(*   inbox     registrations on their way to the root                      *)
(*   rootOf[d] g_root_mac of d is the root's address                       *)
(***************************************************************************)
EXTENDS Integers, SequencesExt

CONSTANTS
  Device,
  EventLen,   \* length of MeshQueue and tcpQueue (3)
  Prompt,     \* TRUE: registrations of a device that leaves are lost with it
  Limit,      \* how often the environment acts in each of its ways
  Acts        \* and how often altogether

ASSUME RegistryAssumption ==
  /\ EventLen \in Nat \ {0} /\ Prompt \in BOOLEAN /\ Acts \in Nat
  /\ {"join", "leave", "lose", "unread", "refuse", "break"} \subseteq DOMAIN Limit
  /\ Limit \in [DOMAIN Limit -> Nat]

VARIABLES table, list, adds, removes, mesh, link, server, air, inbox, rootOf,
          spent

rootVars == <<list, adds, removes, mesh, link, server>>
vars     == <<table, rootVars, air, inbox, rootOf, spent>>

Listed == ToSet(list)

\* What u8Force says: "add", or whatever the stack held.
Forces == {"add", "ping", "other"}

Ping == [force : Forces, macs : SUBSET Device, seen : SUBSET Device]

RegistryTypeOK ==
  /\ table \subseteq Device
  /\ list \in Seq(Device)
  /\ adds \in 0 .. EventLen /\ removes \in 0 .. EventLen
  /\ mesh \in {"ping", "link", "offline", "read"}
  /\ link \in {"down", "up", "broken"}
  /\ server \subseteq Device
  /\ air \in [Device -> Seq(Ping)]
  /\ inbox \in Seq(Device)
  /\ rootOf \in [Device -> BOOLEAN]

Init ==
  /\ table = {} /\ list = <<>>
  /\ adds = 0 /\ removes = 0
  /\ mesh = "ping"
  /\ link = "down" /\ server = {}
  /\ air = [d \in Device |-> <<>>] /\ inbox = <<>>
  /\ rootOf = [d \in Device |-> FALSE]
  /\ spent = [k \in DOMAIN Limit |-> 0]

TimesSpent == FoldFunction(+, 0, spent)

Spend(what) ==
  /\ spent[what] < Limit[what] /\ TimesSpent < Acts
  /\ spent' = [spent EXCEPT ![what] = @ + 1]

----------------------------------------------------------------------------
(* The node list: the address is added at the end unless it is there. *)

\* Mutant: the list is not searched.
AddedAgain(l, d) == Append(l, d)

Added(l, d) == IF d \in ToSet(l) THEN l ELSE Append(l, d)

\* Mutant: one device for every event.
FirstGone(l, keep) ==
  IF \E i \in DOMAIN l : l[i] \notin keep
    THEN LET i == CHOOSE i \in DOMAIN l : l[i] \notin keep /\
                    \A j \in 1 .. (i - 1) : l[j] \in keep
         IN RemoveAt(l, i)
    ELSE l

\* The list after every device that is not in keep has been deleted: kept[n]
\* is what is left of its first n elements.
Kept(l, keep) ==
  LET kept[n \in 0 .. Len(l)] ==
        IF n = 0 THEN <<>>
        ELSE IF l[n] \in keep THEN Append(kept[n - 1], l[n])
        ELSE kept[n - 1]
  IN kept[Len(l)]

----------------------------------------------------------------------------
(* The mesh: events of the routing table, and the connection to the server *)

\* xQueueSend without waiting.
Posted(n) == IF n < EventLen THEN n + 1 ELSE n

\* A device joins; it may have been reset since it last did.
Join(d) ==
  /\ d \notin table /\ Spend("join")
  /\ table' = table \cup {d}
  /\ adds' = Posted(adds)
  /\ \E known \in {FALSE, rootOf[d]} : rootOf' = [rootOf EXCEPT ![d] = known]
  /\ UNCHANGED <<list, removes, mesh, link, server, air, inbox>>

Leave(d) ==
  /\ d \in table /\ Spend("leave")
  /\ table' = table \ {d}
  /\ removes' = Posted(removes)
  /\ air' = [air EXCEPT ![d] = <<>>]
  /\ inbox' = IF Prompt THEN Kept(inbox, Device \ {d}) ELSE inbox
  /\ UNCHANGED <<list, adds, mesh, link, server, rootOf>>

LinkBreaks ==
  /\ link = "up" /\ Spend("break")
  /\ link' = "broken"
  /\ UNCHANGED <<table, list, adds, removes, mesh, server, air, inbox, rootOf>>

\* tcp_client_read_task closes the socket.
LinkClosed ==
  /\ link = "broken"
  /\ link' = "down"
  /\ UNCHANGED <<table, list, adds, removes, mesh, server, air, inbox, rootOf, spent>>

----------------------------------------------------------------------------
(* One round of root_mesh_read_task, in its order *)

(***************************************************************************)
(* root_send_ping.  u8Force is the event, or, when the interval has        *)
(* passed, an uninitialized byte; u8NodeCount is never set, so a device    *)
(* compares itself with the first few of the addresses or with what        *)
(* follows them in the buffer too.                                         *)
(***************************************************************************)
SeenBy(l) ==
  { ToSet(SubSeq(l, 1, k)) : k \in 0 .. Len(l) }
    \cup { S \in SUBSET Device : ToSet(l) \subseteq S }

SendPing(force, seen) ==
  \E lost \in SUBSET table :
    /\ IF lost = {} THEN UNCHANGED spent ELSE Spend("lose")
    /\ air' = [d \in Device |->
         IF d \in table \ lost
           THEN Append(air[d], [force |-> force, macs |-> Listed, seen |-> seen])
           ELSE air[d]]

PingAdded ==
  /\ mesh = "ping" /\ table # {} /\ adds > 0
  /\ adds' = adds - 1
  /\ \E seen \in SeenBy(list) : SendPing("add", seen)
  /\ mesh' = "link"
  /\ UNCHANGED <<table, list, removes, link, server, inbox, rootOf>>

\* Bound: the interval is longer than a ping and its answers take.
Quiet == inbox = <<>> /\ \A d \in Device : air[d] = <<>>

PingTimed ==
  /\ mesh = "ping" /\ table # {} /\ adds = 0
  /\ Quiet
  /\ \E force \in Forces, seen \in SeenBy(list) : SendPing(force, seen)
  /\ mesh' = "link"
  /\ UNCHANGED <<table, list, adds, removes, link, server, inbox, rootOf>>

\* No device, or no event and the interval has not passed.
PingNone ==
  /\ mesh = "ping" /\ (table = {} \/ adds = 0)
  /\ mesh' = "link"
  /\ UNCHANGED <<table, list, adds, removes, link, server, air, inbox, rootOf, spent>>

(***************************************************************************)
(* The registration names every listed device, but u8RegPayload + offset   *)
(* counts rows and not bytes: only the first address is where the server   *)
(* looks for it (common.h:83).                                             *)
(***************************************************************************)
Registered(l) == IF l = <<>> THEN {} ELSE {Head(l)}

\* Connect and register the root and the listed devices.
Connect ==
  /\ mesh = "link" /\ link = "down"
  /\ link' = "up" /\ server' = Registered(list)
  /\ mesh' = "offline"
  /\ UNCHANGED <<table, list, adds, removes, air, inbox, rootOf, spent>>

\* The connection is refused, or fails before the registration is sent.
ConnectFails ==
  /\ mesh = "link" /\ link = "down" /\ Spend("refuse")
  /\ link' \in {"down", "broken"}
  /\ mesh' = "ping"
  /\ UNCHANGED <<table, list, adds, removes, server, air, inbox, rootOf>>

HasLink ==
  /\ mesh = "link" /\ link # "down"
  /\ mesh' = "offline"
  /\ UNCHANGED <<table, list, adds, removes, link, server, air, inbox, rootOf, spent>>

(***************************************************************************)
(* root_do_child_offline: delete the listed devices that are not in the    *)
(* routing table and unregister them; nothing when the table cannot be     *)
(* read.                                                                   *)
(***************************************************************************)
ChildOffline ==
  /\ mesh = "offline" /\ removes > 0
  /\ removes' = removes - 1
  /\ list' = Kept(list, table)
  /\ server' = IF link = "up" THEN server \ (Listed \ table) ELSE server
  /\ mesh' = "read"
  /\ UNCHANGED <<table, adds, link, air, inbox, rootOf, spent>>

TableUnread ==
  /\ mesh = "offline" /\ removes > 0 /\ Spend("unread")
  /\ removes' = removes - 1
  /\ mesh' = "read"
  /\ UNCHANGED <<table, list, adds, link, server, air, inbox, rootOf>>

NoneOffline ==
  /\ mesh = "offline" /\ removes = 0
  /\ mesh' = "read"
  /\ UNCHANGED <<table, list, adds, removes, link, server, air, inbox, rootOf, spent>>

\* root_do_process_register.
ReadRegistration ==
  /\ mesh = "read" /\ inbox # <<>>
  /\ inbox' = Tail(inbox)
  /\ list' = Added(list, Head(inbox))
  /\ server' = IF link = "up" THEN server \cup {Head(inbox)} ELSE server
  /\ mesh' = "ping"
  /\ UNCHANGED <<table, adds, removes, link, air, rootOf, spent>>

ReadNothing ==
  /\ mesh = "read" /\ inbox = <<>>
  /\ mesh' = "ping"
  /\ UNCHANGED <<table, list, adds, removes, link, server, air, inbox, rootOf, spent>>

RootTask == PingAdded \/ PingTimed \/ PingNone \/ Connect \/ HasLink
            \/ ChildOffline \/ NoneOffline \/ ReadRegistration \/ ReadNothing

----------------------------------------------------------------------------
(* node_handle_ping_from_root *)

\* The ping comes from another root than the one the device knows.
NewRoot(d) == ~rootOf[d]

Msg(d) == Head(air[d])

\* Mutant: only the addresses in the ping are looked at.
RegistersAbsent(d) == Msg(d).force \in {"add", "ping"} /\ d \notin Msg(d).seen

Registers(d) ==
  Msg(d).force \in {"add", "ping"} /\ (NewRoot(d) \/ d \notin Msg(d).seen)

\* A registration, sent or lost.
AnswerPing(d) ==
  /\ air[d] # <<>> /\ Registers(d)
  /\ air' = [air EXCEPT ![d] = Tail(@)]
  /\ rootOf' = [rootOf EXCEPT ![d] = TRUE]
  /\ \/ inbox' = Append(inbox, d) /\ UNCHANGED spent
     \/ UNCHANGED inbox /\ Spend("lose")
  /\ UNCHANGED <<table, rootVars>>

IgnorePing(d) ==
  /\ air[d] # <<>> /\ ~Registers(d)
  /\ air' = [air EXCEPT ![d] = Tail(@)]
  /\ UNCHANGED <<table, rootVars, inbox, rootOf, spent>>

Next ==
  \/ \E d \in Device : Join(d)
  \/ \E d \in Device : Leave(d)
  \/ LinkBreaks \/ LinkClosed
  \/ PingAdded \/ PingTimed \/ PingNone
  \/ Connect \/ ConnectFails \/ HasLink
  \/ ChildOffline \/ TableUnread \/ NoneOffline
  \/ ReadRegistration \/ ReadNothing
  \/ \E d \in Device : AnswerPing(d)
  \/ \E d \in Device : IgnorePing(d)

Spec == Init /\ [][Next]_vars

\* The root's tasks and the devices' run again and again.
FairSpec ==
  /\ Spec
  /\ WF_vars(RootTask) /\ WF_vars(LinkClosed)
  /\ \A d \in Device : WF_vars(AnswerPing(d) \/ IgnorePing(d))

----------------------------------------------------------------------------
(***************************************************************************)
(* While the first connection works, the server has registered exactly the *)
(* devices the root lists, whatever joined and left before                 *)
(* (root_send_register, root_do_process_register, root_do_child_offline).  *)
(***************************************************************************)
ServerKnowsList ==
  link = "up" /\ spent.break + spent.refuse = 0 => server = Listed

\* No device is listed twice, so deleting it once deletes it.
ListedOnce == IsInjective(list)

(***************************************************************************)
(* A listed device that is no longer in the mesh will be found: an event   *)
(* waits that makes the root compare its list with the routing table, also *)
(* when events were dropped because the queue was full, as long as the     *)
(* routing table can be read.                                              *)
(***************************************************************************)
GhostsPending == spent.unread = 0 => Listed \subseteq table \/ removes > 0

(***************************************************************************)
(* A device that has not met the root yet is listed in the end, or leaves, *)
(* as long as no ping and no registration is lost.                         *)
(***************************************************************************)
NewcomersListed ==
  \A d \in Device :
    (d \in table /\ NewRoot(d)) ~>
      (d \in Listed \/ d \notin table \/ spent.lose > 0)

\* A device whose address is in the ping of a root it knows does not register
\* again.
RegistersOnlyUnlisted ==
  [][\A d \in Device :
       inbox' = Append(inbox, d) /\ rootOf[d] => d \notin Msg(d).macs]_vars

\* A device of the mesh that is not listed is listed in the end, or leaves.
MembersListed ==
  \A d \in Device : d \in table ~> (d \in Listed \/ d \notin table)
=============================================================================
