---------------------------- MODULE RestartMesh ----------------------------
(***************************************************************************)
(* A restart from the command of the server to the reset: root_do_restart  *)
(* (RestartCommand) in a round of the root's mesh task, and the watchdogs  *)
(* of the root and the devices (Watchdog), which must be fed until then.   *)
(***************************************************************************)
EXTENDS RestartCommand

CONSTANTS
  Present,    \* addresses of devices in the mesh
  Interval, Period, Expiry, Reboot, Block, Photo, Limit, Acts

ASSUME MeshAssumption ==
  /\ {Interval, Period, Expiry, Reboot, Block, Photo} \subseteq Nat \ {0} /\ Acts \in Nat
  /\ {"lose", "block", "join", "command", "restart"} = DOMAIN Limit
  /\ Present \subseteq Mac \ {Self}

VARIABLES age, state, inbox, doing, left, ping, wake, mesh, link, adds, spent

W == INSTANCE Watchdog WITH Node <- Present, Root <- Self

watchVars == <<age, state, inbox, doing, left, ping, wake, mesh, link, adds, spent>>
meshVars  == <<vars, watchVars>>

\* root_do_restart is called for a command that names the addresses s; with
\* none, nothing of it is left between two commands.
Called(s) ==
  /\ IsInjective(s) /\ named' = s /\ buf' = Layout(s)
  /\ num' = 0 /\ i' = 1 /\ failed' = 0 /\ self' = FALSE /\ pc' = "read"
  /\ told' = <<>> /\ refused' = <<>> /\ report' = <<>> /\ UNCHANGED sockUp

MeshInit == Init /\ named = <<>> /\ sockUp /\ W!WatchdogInit

Serving == mesh = "restart"

\* What it sends to a device of the mesh arrives; a restart of the whole mesh
\* is multicast.
Command ==
  \/ ReadNumber /\ W!Tells(IF num' = 0 THEN Present ELSE {})
  \/ NamesSelf /\ UNCHANGED watchVars
  \/ Tell /\ W!Tells({Addr})
  \/ TellFails /\ UNCHANGED watchVars
  \/ Report /\ UNCHANGED watchVars
  \/ End /\ W!CommandDone(self)

Returned == pc = "done" /\ Called(<<>>) /\ UNCHANGED watchVars

\* The devices do not depend on how far root_do_restart is: their steps wait
\* for its end.
MeshNext ==
  \/ ~Serving /\ pc # "done" /\ W!TakeCommand
     /\ \E s \in BoundedSeq(Mac, MaxNamed) : Called(s)
  \/ Serving /\ Command
  \/ Returned
  \/ ~Serving /\ pc # "done" /\ W!WatchdogNext /\ UNCHANGED vars

MeshSpec == MeshInit /\ [][MeshNext]_meshVars

\* The tasks of the program run, and time passes.
MeshFairSpec ==
  /\ MeshSpec
  /\ WF_meshVars((Serving /\ Command) \/ Returned)
  /\ WF_meshVars((W!RootFeeds \/ W!Round) /\ UNCHANGED vars)
  /\ WF_meshVars(W!Tick /\ UNCHANGED vars)
  /\ \A d \in Present :
       WF_meshVars((W!NodeHandles(d) \/ W!NodePhoto(d) \/ W!NodeRestarts(d) \/ W!PhotoSent(d))
                   /\ UNCHANGED vars)
  /\ \A d \in Present \cup {Self} : WF_meshVars(W!Restart(d) /\ UNCHANGED vars)

----------------------------------------------------------------------------
(***************************************************************************)
(* No watchdog expires while the root works: pings come every eight        *)
(* seconds at best and feed only every second time, and still the mesh may *)
(* lose one, or a photo or a server that does not answer may hold a task   *)
(* back (root_mesh_read_task, "this will feed the dog on child node").     *)
(* Bound: Block, fourteen seconds; with sixteen a device is reset.         *)
(***************************************************************************)
Fed == \A d \in Present \cup {Self} : state[d] # "expired"

(***************************************************************************)
(* Two pulses come close together only for a restart: pings sent at once   *)
(* for devices that join, commands and photos never add up to one.         *)
(***************************************************************************)
ResetOnlyTold ==
  [][\A d \in Present \cup {Self} :
       state[d] # "pulsed" /\ state'[d] = "pulsed" => doing[d] = "restart"]_meshVars

(***************************************************************************)
(* A device that is told to restart, and a root that is named, restarts.   *)
(* When the root goes first the rest is up to the next one.                *)
(***************************************************************************)
ToldRestart ==
  \A d \in Present \cup {Self} :
    (d \in ToSet(told) \/ (pc = "done" /\ self /\ d = Self))
      ~> (state[d] = "pulsed" \/ state[Self] = "pulsed")
=============================================================================
