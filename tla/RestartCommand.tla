--------------------------- MODULE RestartCommand ---------------------------
(***************************************************************************)
(* root_do_restart (main/router.c): the root passes a restart on to the    *)
(* devices a command names, in the buffer the command came in.  The report *)
(* on devices that cannot be reached (resp_restart_t) is built in the same *)
(* bytes as the addresses still to be read (device_restart_t).             *)
(*                                                                         *)
(*   buf    the bytes behind u8Type and u8Cmd                              *)
(*   num    u8Number of the command                                        *)
(*   i      the loop's index                                               *)
(*   failed send_data_error_num                                            *)
(*   self   restart_self_flag                                              *)
(*   pc     where root_do_restart is                                       *)
(* External: told, the addresses the mesh accepted a restart for; refused, *)
(* those it did not, in order; sockUp, g_sockfd # -1; report, what the     *)
(* server is sent.                                                         *)
(***************************************************************************)
EXTENDS Integers, Sequences, FiniteSets, SequencesExt

CONSTANTS
  MacLen,     \* MWIFI_ADDR_LEN (6)
  Mac,        \* addresses, sequences of MacLen bytes
  Self,       \* g_self_mac, one of them
  MaxNamed,   \* addresses a command holds (10)
  Broken      \* writes to the mesh that may fail

ASSUME MacAssumption ==
  /\ MacLen \in Nat \ {0}
  /\ Mac \subseteq [1 .. MacLen -> 0 .. 255]
  /\ Self \in Mac
  /\ MaxNamed \in 1 .. 255 /\ Broken \in Nat

VARIABLES named, buf, num, i, failed, self, pc, told, refused, sockUp, report

vars == <<named, buf, num, i, failed, self, pc, told, refused, sockUp, report>>

\* Mutant: the index is not reduced by one.
ResponseAfter(k) == 3 + MacLen * k

\* Where the two layouts keep their i-th address: behind u8Number, and behind
\* u8Response and u8Number.
CommandAt(k)  == 2 + MacLen * (k - 1)
ResponseAt(k) == 3 + MacLen * (k - 1)

Bytes == 1 .. CommandAt(MaxNamed + 2)

Get(b, at) == [k \in 1 .. MacLen |-> b[at + k - 1]]

\* Mutant: the last byte is left out.
PutShort(b, at, mac) ==
  [k \in DOMAIN b |-> IF k \in at .. (at + MacLen - 2) THEN mac[k - at + 1] ELSE b[k]]

Put(b, at, mac) ==
  [k \in DOMAIN b |-> IF k \in at .. (at + MacLen - 1) THEN mac[k - at + 1] ELSE b[k]]

\* A command that names the addresses s.
Layout(s) ==
  [k \in Bytes |->
     IF k = 1 THEN Len(s)
     ELSE IF k < CommandAt(Len(s) + 1)
            THEN s[(k - 2) \div MacLen + 1][((k - 2) % MacLen) + 1]
            ELSE 0]

RestartTypeOK ==
  /\ named \in BoundedSeq(Mac, MaxNamed)
  /\ buf \in [Bytes -> 0 .. 255]
  /\ num \in 0 .. MaxNamed
  /\ i \in 1 .. MaxNamed + 1
  /\ failed \in 0 .. num
  /\ self \in BOOLEAN /\ sockUp \in BOOLEAN
  /\ pc \in {"read", "loop", "report", "reboot", "done"}
  /\ told \in Seq([1 .. MacLen -> 0 .. 255])
  /\ refused \in Seq([1 .. MacLen -> 0 .. 255])
  /\ report \in Seq([1 .. MacLen -> 0 .. 255])

Init ==
  /\ named \in BoundedSeq(Mac, MaxNamed)
  /\ IsInjective(named)
  /\ buf = Layout(named)
  /\ num = 0 /\ i = 1 /\ failed = 0 /\ self = FALSE
  /\ pc = "read"
  /\ told = <<>> /\ refused = <<>> /\ report = <<>>
  /\ sockUp \in BOOLEAN

ReadNumber ==
  /\ pc = "read"
  /\ num' = buf[1]
  /\ pc' = IF num' = 0 THEN "reboot" ELSE "loop"
  /\ self' = (num' = 0)                   \* the whole mesh restarts
  /\ UNCHANGED <<named, buf, i, failed, told, refused, sockUp, report>>

Addr == Get(buf, CommandAt(i))

Loops == i <= num

NamesSelf ==
  /\ pc = "loop" /\ Loops /\ Addr = Self
  /\ self' = TRUE
  /\ i' = i + 1
  /\ UNCHANGED <<named, buf, num, failed, pc, told, refused, sockUp, report>>

Tell ==
  /\ pc = "loop" /\ Loops /\ Addr # Self
  /\ told' = Append(told, Addr)
  /\ i' = i + 1
  /\ UNCHANGED <<named, buf, num, failed, self, pc, refused, sockUp, report>>

TellFails ==
  /\ pc = "loop" /\ Loops /\ Addr # Self
  /\ Len(refused) < Broken
  /\ failed' = failed + 1
  /\ buf' = Put(buf, ResponseAt(failed'), Addr)
  /\ refused' = Append(refused, Addr)
  /\ i' = i + 1
  /\ UNCHANGED <<named, num, self, pc, told, sockUp, report>>

Report ==
  /\ pc = "loop" /\ ~Loops
  /\ report' = IF failed >= 1 /\ sockUp
                 THEN [k \in 1 .. failed |-> Get(buf, ResponseAt(k))]
                 ELSE report
  /\ pc' = "reboot"
  /\ UNCHANGED <<named, buf, num, i, failed, self, told, refused, sockUp>>

\* system_reboot, when the root is among those that restart.
End ==
  /\ pc = "reboot"
  /\ pc' = "done"
  /\ UNCHANGED <<named, buf, num, i, failed, self, told, refused, sockUp, report>>

Next == ReadNumber \/ NamesSelf \/ Tell \/ TellFails \/ Report \/ End

Spec == Init /\ [][Next]_vars

----------------------------------------------------------------------------
\* The command named devices, and root_do_restart has returned.
Finished == pc = "done" /\ num > 0

(***************************************************************************)
(* The server is told exactly the addresses that could not be reached, in  *)
(* their order, although report and command share their bytes.             *)
(***************************************************************************)
ReportsRefused == Finished /\ sockUp => report = refused

(***************************************************************************)
(* When the first device of the command is reached, every device it names  *)
(* is told to restart or found unreachable, and no other: the report stays *)
(* behind the reading of the addresses.                                    *)
(***************************************************************************)
FirstReachedAllTold ==
  /\ Finished
  /\ refused = <<>> \/ refused[1] # named[1]
  => ToSet(told) \cup ToSet(refused) = ToSet(named) \ {Self}

\* Every device the command names is told to restart or found unreachable,
\* and the root restarts exactly if it is named.
AllTold ==
  Finished =>
    /\ ToSet(told) \cup ToSet(refused) = ToSet(named) \ {Self}
    /\ self = (Self \in ToSet(named))
=============================================================================
