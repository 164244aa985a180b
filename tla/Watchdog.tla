------------------------------ MODULE Watchdog ------------------------------
(***************************************************************************)
(* The external watchdog of the root and of the other devices: what feeds  *)
(* it in time, and the two pulses close together that a restart is made of *)
(* (feed_dog, period_feed_dog_in_second and system_reboot of main/router.c,*)
(* the loops of tcp_client_read_task, root_mesh_read_task and node_task).  *)
(* Time passes in units of two seconds; a pulse is given within one.       *)
(*                                                                         *)
(*   age[d]   time since the last pulse, or since d started: both the time *)
(*            of the chip and that since u32LastTimeStamp                  *)
(*   state[d] "up"; "expired", reset by a chip that was not fed; or        *)
(*            "pulsed", reset by two pulses                                *)
(*   inbox[d] messages on their way to d                                   *)
(*   doing[d] a restart or a photo that keeps a task of d, else "idle"     *)
(*   left[d]  how long it still does                                       *)
(*   ping     time since the root's last ping                              *)
(*   wake     until the root's mesh task goes on                           *)
(*   mesh     whether that task is in a round or serves a restart command  *)
(*   link     the connection to the server                                 *)
(*   adds     events of devices that join, in MeshQueue                    *)
(***************************************************************************)
EXTENDS Integers, Sequences, FiniteSetsExt, Functions

CONSTANTS
  Node,       \* the devices other than the root
  Root,
  Interval,   \* ROOT_SEND_PING_INTERVAL (8 s)
  Period,     \* of period_feed_dog_in_second (10 s)
  Expiry,     \* "hardware watchdog 30s reset"
  Reboot,     \* the delay before the two pulses (3 s)
  Block,      \* a connection attempt that fails, and the 5 s after it
  Photo,      \* how long taking and sending a photo may take
  Limit,      \* how often the environment acts in each of its ways
  Acts        \* and how often altogether, but for restarts

VARIABLES age, state, inbox, doing, left, ping, wake, mesh, link, adds, spent

rootVars == <<ping, wake, mesh, link, adds>>
watchdogVars == <<age, state, inbox, doing, left, rootVars, spent>>

Device == Node \cup {Root}

WatchdogInit ==
  /\ age = [d \in Device |-> 1]      \* the start takes a unit at least
  /\ state = [d \in Device |-> "up"]
  /\ inbox = [d \in Node |-> <<>>]
  /\ doing = [d \in Device |-> "idle"] /\ left = [d \in Device |-> 0]
  /\ ping = Interval /\ wake = 0 /\ mesh = "round" /\ link = "up" /\ adds = 0
  /\ spent = [k \in DOMAIN Limit |-> 0]

Spend(what) ==
  /\ spent[what] < Limit[what]
  /\ what = "restart" \/ spent.lose + spent.block + spent.join + spent.command < Acts
  /\ spent' = [spent EXCEPT ![what] = @ + 1]

Less(n) == IF n > 0 THEN n - 1 ELSE 0
More(n, limit) == IF n < limit THEN n + 1 ELSE n

Up(d) == state[d] = "up"

Free(d) == Up(d) /\ doing[d] = "idle"

----------------------------------------------------------------------------
(* The pulses *)

\* feed_dog, n times: a pulse in the unit of another resets the device.
FeedDog(d, n) ==
  /\ age' = [age EXCEPT ![d] = 0]
  /\ state' = [state EXCEPT ![d] = IF n > 1 \/ age[d] = 0 THEN "pulsed" ELSE @]

\* Mutant: a call in the unit of the last pulse looks like a counter that
\* has come round.
DueAgain(d) == age[d] >= Period \/ age[d] = 0

\* Mutant: the period is that of the chip.
DueLate(d) == age[d] >= Expiry - Period

Due(d) == age[d] >= Period

\* period_feed_dog_in_second(10)
PeriodFeed(d) == IF Due(d) THEN FeedDog(d, 1) ELSE UNCHANGED <<age, state>>

----------------------------------------------------------------------------
(* The root *)

\* tcp_client_read_task, at least once in half a second
RootFeeds ==
  /\ Up(Root) /\ Due(Root)
  /\ PeriodFeed(Root)
  /\ UNCHANGED <<inbox, doing, left, rootVars, spent>>

\* The devices that get what the root sends, apart from those it is lost for.
Sent(to, what) ==
  inbox' = [d \in Node |-> IF d \in to /\ Up(d) THEN Append(inbox[d], what) ELSE inbox[d]]

\* root_send_ping: at once when a device has joined, else in its interval.
PingDue == adds > 0 \/ ping >= Interval

SendPing(to) ==
  IF PingDue
    THEN ping' = 0 /\ adds' = Less(adds) /\ Sent(to, "ping")
    ELSE UNCHANGED <<ping, adds, inbox>>

\* The task is between two rounds; a round in which a device has joined does
\* not wait.
Between ==
  /\ Free(Root) /\ mesh = "round"
  /\ wake = 0 \/ (wake = 1 /\ link = "up" /\ adds > 0)

\* A round with a connection, or in which one is made. While an upgrade runs,
\* a round is no more than this either.
Round ==
  /\ Between
  /\ \/ SendPing(Node) /\ UNCHANGED spent
     \/ PingDue /\ SendPing({}) /\ Spend("lose")
  /\ link' = "up" /\ wake' = 1
  /\ UNCHANGED <<age, state, doing, left, mesh>>

\* The connection is lost, the server does not answer, and the task waits.
ConnectFails ==
  /\ Free(Root) /\ mesh = "round" /\ wake = 0
  /\ SendPing(Node)
  /\ link' = "down" /\ Spend("block")
  /\ wake' \in 1 .. Block
  /\ UNCHANGED <<age, state, doing, left, mesh>>

\* root_do_restart begins; what it does is in RestartCommand.
TakeCommand ==
  /\ Free(Root) /\ mesh = "round" /\ wake <= 1 /\ link = "up" /\ ~PingDue
  /\ Spend("restart")
  /\ mesh' = "restart"
  /\ UNCHANGED <<age, state, inbox, doing, left, ping, wake, link, adds>>

\* It is over; self: with system_reboot.
CommandDone(self) ==
  /\ mesh = "restart"
  /\ mesh' = "round" /\ wake' = 1
  /\ IF self
       THEN /\ doing' = [doing EXCEPT ![Root] = "restart"]
            /\ left' = [left EXCEPT ![Root] = Reboot]
       ELSE UNCHANGED <<doing, left>>
  /\ UNCHANGED <<age, state, inbox, ping, link, adds, spent>>

\* A restart that is sent to one device, or to all.
Tells(to) ==
  /\ Sent(to, "restart")
  /\ UNCHANGED <<age, state, doing, left, rootVars, spent>>

Joins ==
  /\ Up(Root) /\ Spend("join") /\ adds' = adds + 1
  /\ UNCHANGED <<age, state, inbox, doing, left, ping, wake, mesh, link>>

\* A command of the server that keeps no state, or one for a photo.
Commanded(d) ==
  /\ mesh = "round" /\ Free(Root) /\ link = "up" /\ wake <= 1
  /\ Spend("command")
  /\ \E what \in {"led", "photo"} : Sent({d}, what)
  /\ UNCHANGED <<age, state, doing, left, rootVars>>

----------------------------------------------------------------------------
(* node_task, for the message it reads next *)

Reads(d, what) ==
  /\ Free(d) /\ inbox[d] # <<>> /\ Head(inbox[d]) \in what
  /\ inbox' = [inbox EXCEPT ![d] = Tail(@)]
  /\ UNCHANGED <<rootVars, spent>>

\* A ping of the root or of the server, a light, a mode
NodeHandles(d) ==
  /\ Reads(d, {"ping", "led"})
  /\ PeriodFeed(d)
  /\ UNCHANGED <<doing, left>>

\* node_send_pic
NodePhoto(d) ==
  /\ Reads(d, {"photo"})
  /\ PeriodFeed(d)
  /\ doing' = [doing EXCEPT ![d] = "photo"]
  /\ \E t \in 0 .. Photo : left' = [left EXCEPT ![d] = t]

NodeRestarts(d) ==
  /\ Reads(d, {"restart"})
  /\ doing' = [doing EXCEPT ![d] = "restart"]
  /\ left' = [left EXCEPT ![d] = Reboot]
  /\ UNCHANGED <<age, state>>

PhotoSent(d) ==
  /\ Up(d) /\ doing[d] = "photo" /\ left[d] = 0
  /\ doing' = [doing EXCEPT ![d] = "idle"]
  /\ PeriodFeed(d)
  /\ UNCHANGED <<inbox, left, rootVars, spent>>

\* Mutant: period_feed_dog_in_second(10) twice.
PulsesByPeriod(d) == IF Due(d) THEN 1 ELSE 0

\* period_feed_dog_in_second(0) twice, or the two of system_reboot
Pulses(d) == 2

Restart(d) ==
  /\ Up(d) /\ doing[d] = "restart" /\ left[d] = 0
  /\ IF Pulses(d) > 0 THEN FeedDog(d, Pulses(d)) ELSE UNCHANGED <<age, state>>
  /\ doing' = [doing EXCEPT ![d] = "idle"]
  /\ UNCHANGED <<inbox, left, rootVars, spent>>

----------------------------------------------------------------------------
\* What a task does takes no time but the delays above.
Settled ==
  /\ Up(Root) => ~Due(Root) /\ mesh = "round" /\ (doing[Root] = "restart" \/ (wake > 0 /\ adds = 0))
  /\ \A d \in Device : Up(d) /\ doing[d] # "idle" => left[d] > 0
  /\ \A d \in Node : Free(d) => inbox[d] = <<>>

\* A unit passes; a chip that has not been fed resets its device. Without the
\* root the devices look for another one, which is not followed.
Tick ==
  /\ Up(Root) /\ Settled
  /\ age' = [d \in Device |-> More(age[d], Expiry)]
  /\ state' = [d \in Device |-> IF Up(d) /\ age'[d] = Expiry THEN "expired" ELSE state[d]]
  /\ left' = [d \in Device |-> Less(left[d])]
  /\ ping' = More(ping, Interval) /\ wake' = Less(wake)
  /\ UNCHANGED <<inbox, doing, mesh, link, adds, spent>>

WatchdogNext ==
  \/ RootFeeds \/ Round \/ ConnectFails
  \/ Joins
  \/ \E d \in Node : Commanded(d)
  \/ \E d \in Node : NodeHandles(d)
  \/ \E d \in Node : NodePhoto(d)
  \/ \E d \in Node : NodeRestarts(d)
  \/ \E d \in Node : PhotoSent(d)
  \/ \E d \in Device : Restart(d)
  \/ Tick
=============================================================================
