---------------------------- MODULE MupgradeNode ----------------------------
(***************************************************************************)
(* A device that receives a firmware (components/mupgrade/mupgrade_node.c).*)
(*                                                                         *)
(* RAM:   cfg[n]       g_upgrade_config->status; fw = NoFw stands for the   *)
(*                     NULL pointer                                        *)
(*        finished[n]  g_upgrade_finished_flag                             *)
(*        nextPct[n]   s_next_written_percentage                           *)
(* Flash: nvs[n]       the copy under MUPGRADE_STORE_CONFIG_KEY            *)
(*        flash[n]     two OTA slots, one cell per packet                  *)
(*        boot[n]      the slot the bootloader was told to start           *)
(* running[n] is the slot the running program came from.                   *)
(*                                                                         *)
(* node_task calls mupgrade_handle from one task, so a handler is one      *)
(* action; a reset in the middle of a handler is an action of its own with *)
(* the flash writes the handler had made by then.                          *)
(***************************************************************************)
EXTENDS MupgradeNet

CONSTANTS
  Factory,        \* the image every device leaves the factory with
  Blank,          \* an erased cell
  Mixed,          \* a cell programmed with two different images
  ReportInterval  \* CONFIG_MUPGRADE_STATUS_REPORT_INTERVAL, in percent

ASSUME NodeAssumption ==
  /\ Factory \in Firmware
  /\ Blank \notin Firmware /\ Mixed \notin Firmware /\ Blank # Mixed
  /\ ReportInterval \in Nat \ {0}

VARIABLES cfg, finished, nextPct, nvs, flash, boot, running

ramVars  == <<cfg, finished, nextPct>>
nodeVars == <<ramVars, nvs, flash, boot, running>>

Slot == {0, 1}

Cell == Firmware \cup {Blank, Mixed}

Config == [fw : Firmware \cup {NoFw}, err : ErrorCode, written : Nat,
           bits : SUBSET AllSeq]

EmptyCfg == [fw |-> NoFw, err |-> "ok", written |-> 0, bits |-> {}]

\* Mutant: the slot after the one to boot, not after the one running.
TargetOfBoot(n) == 1 - boot[n]

\* esp_ota_get_next_update_partition: of two OTA slots, the other one.
Target(n) == 1 - running[n]

\* The verification of an image (esp_ota_set_boot_partition, bootloader).
IsImage(f, img) == \A s \in Packets(f) : img[s] = f

Valid(img) == \E f \in Firmware : IsImage(f, img)

\* NOR flash: programming only clears bits.
Program(cell, f) == IF cell \in {Blank, f} THEN f ELSE Mixed

Erased(img, f) == [s \in AllSeq |-> IF s \in Packets(f) THEN Blank ELSE img[s]]

NodeInit ==
  /\ cfg = [n \in Node |-> EmptyCfg]
  /\ finished = [n \in Node |-> FALSE]
  /\ nextPct = [n \in Node |-> ReportInterval]
  /\ nvs = [n \in Node |-> EmptyCfg]
  /\ flash = [n \in Node |-> [i \in Slot |-> [s \in AllSeq |->
                 IF i = 0 /\ s \in Packets(Factory) THEN Factory ELSE Blank]]]
  /\ boot = [n \in Node |-> 0]
  /\ running = [n \in Node |-> 0]

----------------------------------------------------------------------------
\* Mutant: mdf_info_erase forgotten.
NvsKept(n) == nvs

\* mdf_info_erase.
NvsErased(n) == [nvs EXCEPT ![n] = EmptyCfg]

\* The configuration a handler works on: RAM, else what NVS holds.
Loaded(n) == IF cfg[n].fw = NoFw THEN nvs[n] ELSE cfg[n]

Msg(n) == Head(downlink[n])

Receive(n, type) ==
  /\ downlink[n] # <<>>
  /\ Msg(n).type = type

Consume(n) == downlink' = [downlink EXCEPT ![n] = Tail(@)]

\* The answer made of configuration c; the progress array is attached only to
\* an upgrade that has begun and not ended.
AnswerOf(c) ==
  [err |-> c.err, written |-> c.written, total |-> TotalSize[c.fw],
   bits |-> IF c.written \in {0, TotalSize[c.fw]} THEN {} ELSE c.bits]

WithError(c, err) == IF c.err = "stop" THEN c ELSE [c EXCEPT !.err = err]

(***************************************************************************)
(* mupgrade_status, a request for the upgrade the device already knows:    *)
(* answer with the state of that upgrade.                                  *)
(***************************************************************************)
StatusKnown(n) ==
  LET c == WithError(Loaded(n), "ok") IN
  /\ Receive(n, "status")
  /\ Loaded(n).fw = Msg(n).fw
  /\ Consume(n)
  /\ cfg' = [cfg EXCEPT ![n] = c]
  /\ SendToRoot(n, AnswerOf(c))
  /\ UNCHANGED <<finished, nextPct, nvs, flash, boot, running, spent>>

NewCfg(f, err) == [fw |-> f, err |-> err, written |-> 0, bits |-> {}]

Outcome == {"done", "beginFails", "saveFails"}

(***************************************************************************)
(* mupgrade_status, a request for another upgrade: forget the one the      *)
(* device knew, erase the target slot, save the fresh configuration,       *)
(* answer.  esp_ota_begin and mdf_info_save may fail; the handler then     *)
(* skips what follows and answers with the error.                          *)
(***************************************************************************)
StatusNew(n, outcome) ==
  LET f    == Msg(n).fw
      c    == NewCfg(f, IF outcome = "done" THEN "ok" ELSE "fail")
      wipe == [flash EXCEPT ![n][Target(n)] = Erased(@, f)] IN
  /\ Receive(n, "status")
  /\ Loaded(n).fw # f
  /\ IF outcome = "done" THEN UNCHANGED spent ELSE Spend("fault")
  /\ Consume(n)
  /\ cfg' = [cfg EXCEPT ![n] = c]
  /\ finished' = [finished EXCEPT ![n] = FALSE]
  /\ flash' = IF outcome = "beginFails" THEN flash ELSE wipe
  /\ nvs' = IF outcome = "done" THEN [nvs EXCEPT ![n] = c] ELSE nvs
  /\ SendToRoot(n, AnswerOf(c))
  /\ UNCHANGED <<nextPct, boot, running>>

----------------------------------------------------------------------------
(* mupgrade_write.                                                         *)

\* A data packet for a device without a configuration is dropped.
DataNotInit(n) ==
  /\ Receive(n, "data")
  /\ Loaded(n).fw = NoFw
  /\ Consume(n)
  /\ UNCHANGED <<nodeVars, uplink, spent>>

\* A stopped upgrade answers every data packet with the stop.
DataStopped(n) ==
  LET c == [Loaded(n) EXCEPT !.written = 0, !.bits = {}] IN
  /\ Receive(n, "data")
  /\ Loaded(n).fw # NoFw
  /\ Loaded(n).err = "stop"
  /\ Consume(n)
  /\ cfg' = [cfg EXCEPT ![n] = c]
  /\ nvs' = NvsErased(n)
  /\ SendToRoot(n, AnswerOf(c))
  /\ UNCHANGED <<finished, nextPct, flash, boot, running, spent>>

\* Mutant: a duplicate is not told from a new packet.
AcceptsDuplicates(n) ==
  /\ Loaded(n).fw # NoFw
  /\ Loaded(n).err # "stop"
  /\ Msg(n).seq * PacketMaxSize <= TotalSize[Loaded(n).fw]

Accepts(n) ==
  /\ Loaded(n).fw # NoFw
  /\ Loaded(n).err # "stop"
  /\ Msg(n).seq * PacketMaxSize <= TotalSize[Loaded(n).fw]
  /\ Msg(n).seq \notin Loaded(n).bits

\* A sequence number out of the image, or a packet already written; or
\* esp_partition_write fails.  Only the load from NVS is kept.
DataIgnored(n) ==
  /\ Receive(n, "data")
  /\ Loaded(n).fw # NoFw
  /\ Loaded(n).err # "stop"
  /\ IF Accepts(n) THEN Spend("fault") ELSE UNCHANGED spent
  /\ Consume(n)
  /\ cfg' = [cfg EXCEPT ![n] = Loaded(n)]
  /\ UNCHANGED <<finished, nextPct, nvs, flash, boot, running, uplink>>

\* Mutant: the bit of the packet is not set.
RecordedUnmarked(n) == [Loaded(n) EXCEPT !.written = @ + Msg(n).size]

\* The configuration after the packet is recorded, and its percentage.
Recorded(n) ==
  [Loaded(n) EXCEPT !.bits = @ \cup {Msg(n).seq}, !.written = @ + Msg(n).size]

\* Mutant: the integer division comes first.
PercentTruncated(c) == (c.written \div TotalSize[c.fw]) * 100

Percent(c) == (c.written * 100) \div TotalSize[c.fw]

SavesNow(n) == Percent(Recorded(n)) = nextPct[n]

FlashWritten(n) ==
  [flash EXCEPT ![n][Target(n)][Msg(n).seq] = Program(@, Msg(n).payload)]

\* Mutant: the completed image is not verified.
Unverified(n) == TRUE

\* esp_ota_set_boot_partition verifies the slot it is given.
Verified(n) == Valid(FlashWritten(n)[n][Target(n)])

\* A packet that does not complete the image.
DataWrite(n) ==
  LET c == Recorded(n) IN
  /\ Receive(n, "data")
  /\ Accepts(n)
  /\ c.written # TotalSize[c.fw]
  /\ Consume(n)
  /\ flash' = FlashWritten(n)
  /\ cfg' = [cfg EXCEPT ![n] = c]
  /\ IF SavesNow(n)
       THEN /\ nextPct' = [nextPct EXCEPT ![n] = @ + ReportInterval]
            /\ nvs' = [nvs EXCEPT ![n] = c]
       ELSE UNCHANGED <<nextPct, nvs>>
  /\ UNCHANGED <<finished, boot, running, uplink, spent>>

\* The packet that completes the image: the saved configuration is erased and
\* the image verified.  Only a verified image is made the next to boot and
\* answered for; the error is kept in the configuration otherwise.
DataComplete(n) ==
  LET c  == Recorded(n)
      ok == Verified(n) IN
  /\ Receive(n, "data")
  /\ Accepts(n)
  /\ c.written = TotalSize[c.fw]
  /\ Consume(n)
  /\ flash' = FlashWritten(n)
  /\ cfg' = [cfg EXCEPT ![n] = [c EXCEPT !.err = IF ok THEN "ok" ELSE "fail"]]
  /\ nextPct' = IF SavesNow(n) THEN [nextPct EXCEPT ![n] = @ + ReportInterval]
                               ELSE nextPct
  /\ nvs' = NvsErased(n)
  /\ IF ok
       THEN /\ boot' = [boot EXCEPT ![n] = Target(n)]
            /\ finished' = [finished EXCEPT ![n] = TRUE]
            /\ SendToRoot(n, AnswerOf([c EXCEPT !.err = "ok"]))
       ELSE UNCHANGED <<boot, finished, uplink>>
  /\ UNCHANGED <<running, spent>>

----------------------------------------------------------------------------
\* mupgrade_stop, called by the application of the device.
NodeStop(n) ==
  LET c == [cfg[n] EXCEPT !.err = "stop", !.written = 0, !.bits = {}] IN
  /\ cfg[n].fw # NoFw
  /\ Spend("nodeStop")
  /\ boot' = IF finished[n] THEN [boot EXCEPT ![n] = running[n]] ELSE boot
  /\ cfg' = [cfg EXCEPT ![n] = c]
  /\ nvs' = NvsErased(n)
  /\ SendToRoot(n, AnswerOf(c))
  /\ UNCHANGED <<finished, nextPct, flash, running, downlink>>

(***************************************************************************)
(* Resets: the event handler's feed_dog after the 100% event, the restart  *)
(* command, the hardware watchdog, a power cut.  RAM and undelivered       *)
(* messages go; the bootloader starts the boot slot, or the other one when *)
(* the boot slot holds no valid image.                                     *)
(***************************************************************************)
PowerCycle(n) ==
  /\ Spend("reboot")
  /\ downlink' = [downlink EXCEPT ![n] = <<>>]
  /\ cfg' = [cfg EXCEPT ![n] = EmptyCfg]
  /\ finished' = [finished EXCEPT ![n] = FALSE]
  /\ nextPct' = [nextPct EXCEPT ![n] = ReportInterval]
  /\ running' = [running EXCEPT ![n] =
                   IF Valid(flash'[n][boot[n]]) THEN boot[n] ELSE 1 - boot[n]]
  /\ UNCHANGED <<boot, uplink>>

Reboot(n) ==
  /\ flash' = flash
  /\ nvs' = nvs
  /\ PowerCycle(n)

\* Reset in mupgrade_status after esp_ota_begin, before mdf_info_save.
CrashInStatus(n) ==
  /\ Receive(n, "status")
  /\ Loaded(n).fw # Msg(n).fw
  /\ flash' = [flash EXCEPT ![n][Target(n)] = Erased(@, Msg(n).fw)]
  /\ nvs' = nvs
  /\ PowerCycle(n)

Moment == {"programmed", "saved", "nvsErased"}

\* Reset in mupgrade_write once the packet is in flash: before the status is
\* saved, after it, or after NVS is erased and before the boot slot is set.
CrashInWrite(n, at) ==
  LET c == Recorded(n) IN
  /\ Receive(n, "data")
  /\ Accepts(n)
  /\ at = "saved" => SavesNow(n)
  /\ at = "nvsErased" => c.written = TotalSize[c.fw]
  /\ flash' = FlashWritten(n)
  /\ nvs' = CASE at = "programmed" -> nvs
              [] at = "saved"      -> [nvs EXCEPT ![n] = c]
              [] at = "nvsErased"  -> NvsErased(n)
  /\ PowerCycle(n)

----------------------------------------------------------------------------
\* mupgrade_handle on the oldest message of n.
NodeHandle(n) ==
  \/ StatusKnown(n)
  \/ \E o \in Outcome : StatusNew(n, o)
  \/ DataNotInit(n)
  \/ DataStopped(n)
  \/ DataIgnored(n)
  \/ DataWrite(n)
  \/ DataComplete(n)

NodeTypeOK ==
  /\ cfg \in [Node -> Config]
  /\ finished \in [Node -> BOOLEAN]
  /\ nextPct \in [Node -> Nat]
  /\ nvs \in [Node -> Config]
  /\ flash \in [Node -> [Slot -> [AllSeq -> Cell]]]
  /\ boot \in [Node -> Slot]
  /\ running \in [Node -> Slot]
=============================================================================
