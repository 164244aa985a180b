----------------------------- MODULE BootProofs -----------------------------
(***************************************************************************)
(* A device from one reset to the next (DeviceBoot), for any configuration *)
(* file, any limit of restarts, and any number of resets, failures and     *)
(* upgrades.                                                               *)
(***************************************************************************)
EXTENDS DeviceBoot, TLAPS

----------------------------------------------------------------------------
(* The version fallback.  Quick(n): the starts in a row, counted up to     *)
(* RestartCount, are as many as n.                                         *)

Quick(n) == quick >= n \/ quick >= RestartCount

FallbackType ==
  /\ at \in {"count", "test", "fall", "over", "restart"}
  /\ reason \in {"power", "soft"}
  /\ count \in Nat /\ quick \in Nat

\* What is counted, or will be, has been quick starts in a row.
CountEarned ==
  ~missed =>
    /\ at = "count" => IF reason = "power" THEN quick >= 1 ELSE Quick(count + 1)
    /\ at \in {"test", "over"} => Quick(count)
    /\ at \in {"fall", "restart"} => count = 0 /\ quick >= RestartCount
    /\ at = "over" => timer \/ count = 0

FallbackInv == FallbackType /\ CountEarned

LEMMA CountStep ==
  ASSUME FallbackInv, F!Counted
  PROVE  FallbackInv'
BY RestartAssumption
   DEF FallbackInv, FallbackType, CountEarned, Quick, F!Counted, F!First, F!slots

LEMMA TestStep ==
  ASSUME FallbackInv, F!Tested
  PROVE  FallbackInv'
BY RestartAssumption
   DEF FallbackInv, FallbackType, CountEarned, Quick, F!Tested, F!Erased, F!slots

LEMMA FallStep ==
  ASSUME FallbackInv, F!Fallback
  PROVE  FallbackInv'
BY RestartAssumption
   DEF FallbackInv, FallbackType, CountEarned, Quick, F!Fallback

LEMMA SettleStep ==
  ASSUME FallbackInv, F!Settles
  PROVE  FallbackInv'
BY RestartAssumption
   DEF FallbackInv, FallbackType, CountEarned, Quick, F!Settles, F!slots

\* A start by power begins a new row; another one is one more in it.
LEMMA StartStep ==
  ASSUME FallbackInv, NEW kind \in {"power", "soft"}, F!Starts(kind)
  PROVE  FallbackInv'
<1>1. /\ at' = "count" /\ reason' = kind /\ count' = count
      /\ missed' = (missed \/ (at = "count" /\ reason = "power"))
      /\ quick' = IF kind = "power" THEN 1
                  ELSE IF quick < RestartCount THEN quick + 1 ELSE quick
  BY DEF F!Starts
<1>2. FallbackType'
  BY <1>1 DEF FallbackInv, FallbackType
<1>3. ASSUME ~missed', kind = "soft"
      PROVE  Quick(count + 1)'
  <2>1. ~missed /\ ~(at = "count" /\ reason = "power")
    BY <1>1, <1>3
  <2>2. Quick(count)
    BY <2>1, RestartAssumption DEF FallbackInv, FallbackType, CountEarned, Quick
  <2> QED
    BY <1>1, <1>3, <2>2, RestartAssumption DEF FallbackInv, FallbackType, Quick
<1>4. CountEarned'
  BY <1>1, <1>3 DEF CountEarned
<1> QED
  BY <1>2, <1>4 DEF FallbackInv

LEMMA UpgradeStep ==
  ASSUME FallbackInv, F!Erases \/ \E new \in {"good", "bad"} : F!Upgrades(new)
  PROVE  FallbackInv'
BY DEF FallbackInv, FallbackType, CountEarned, Quick, F!Erases, F!Upgrades

LEMMA FallbackStep ==
  ASSUME FallbackInv, [BootNext]_bootVars
  PROVE  FallbackInv'
<1>1. CASE UNCHANGED fallbackVars
  BY <1>1 DEF fallbackVars, FallbackInv, FallbackType, CountEarned, Quick
<1>2. CASE Task
  BY <1>2, CountStep, TestStep, FallStep, SettleStep DEF Task
<1>3. CASE NotSaved
  BY <1>3 DEF NotSaved, F!NotSaved, F!slots, FallbackInv, FallbackType, CountEarned
<1>4. CASE PowerReset \/ Panic \/ FallbackRestart
  BY <1>4, StartStep DEF PowerReset, Panic, FallbackRestart
<1>5. CASE Upgrade
  BY <1>5, UpgradeStep DEF Upgrade
<1> QED
  BY <1>1, <1>2, <1>3, <1>4, <1>5 DEF BootNext, bootVars

LEMMA FallbackInvInit ==
  ASSUME BootInit
  PROVE  FallbackInv
BY DEF BootInit, F!FallbackInit, FallbackInv, FallbackType, CountEarned

\* Only RestartCount quick starts in a row make mupgrade_version_fallback
\* leave an image, whatever resets strike the task that counts them.
THEOREM FallbackAlwaysEarned == BootSpec => FallbackEarned
<1>1. BootInit => FallbackInv
  BY FallbackInvInit
<1>2. FallbackInv /\ [BootNext]_bootVars => FallbackInv'
  BY FallbackStep
<1>3. FallbackInv /\ [BootNext]_bootVars
        => [at = "fall" /\ boot' # boot /\ ~missed => quick >= RestartCount]_bootVars
  BY DEF FallbackInv, CountEarned
<1> QED
  BY <1>1, <1>2, <1>3, PTL DEF BootSpec, FallbackEarned

----------------------------------------------------------------------------
(* The configuration file: a line for every item, in their order.          *)

FileOf(values) ==
  [k \in DOMAIN Items |-> [item |-> Items[k], value |-> values[Items[k]]]]

Updated == [saved EXCEPT ![job.item] = job.value]

FileType ==
  /\ saved \in [Item -> Value]
  /\ job \in [item : Item, value : Value]

\* Whole files: config.txt, or replace.tmp with the new value.
FilesWhole ==
  ~hit =>
    /\ config # Missing /\ pc # "create" => config = FileOf(saved)
    /\ config = Missing /\ replace # Missing => replace = FileOf(Updated)
    /\ (config = Missing /\ replace = Missing) \/ pc = "create" => saved = Default
    /\ pc = "create" => replace = Missing
    /\ pc \in {"copy", "copied"} => config # Missing
    /\ pc \in {"copied", "unlinked"} => replace = FileOf(Updated)
    /\ pc = "unlinked" => config = Missing

FileInv == FileType /\ FilesWhole

LEMMA FileOfType ==
  ASSUME NEW values \in [Item -> Value]
  PROVE  /\ FileOf(values) \in Seq(Line) /\ FileOf(values) # Missing
         /\ Len(FileOf(values)) = Len(Items) /\ FileOf(values) # <<>>
<1>1. Items \in Seq(Item) /\ DOMAIN Items = 1 .. Len(Items) /\ Len(Items) \in Nat
  BY ConfigAssumption
<1>2. ASSUME NEW k \in 1 .. Len(Items)
      PROVE  [item |-> Items[k], value |-> values[Items[k]]] \in Line
  BY <1>1, <1>2 DEF Line
<1>3. FileOf(values) \in [1 .. Len(Items) -> Line]
  BY <1>1, <1>2 DEF FileOf
<1>4. FileOf(values) \in Seq(Line) /\ Len(FileOf(values)) = Len(Items)
  BY <1>1, <1>3
<1>5. Len(Items) # 0
  BY <1>1, ConfigAssumption DEF Item, ToSet
<1> QED
  BY <1>4, <1>5, ConfigAssumption

LEMMA PlaceOf ==
  ASSUME NEW i \in Item
  PROVE  \E k \in DOMAIN Items : Items[k] = i /\ \A j \in DOMAIN Items : Items[j] = i => j = k
BY ConfigAssumption DEF Item, ToSet, IsInjective

\* What get_system_config reads from a whole file.
LEMMA WholeParsed ==
  ASSUME NEW values \in [Item -> Value]
  PROVE  Parsed(FileOf(values)) = Fitted(values)
<1> DEFINE file == FileOf(values)
<1>1. /\ file # Missing /\ DOMAIN file = DOMAIN Items
      /\ \A k \in DOMAIN file : file[k] = [item |-> Items[k], value |-> values[Items[k]]]
  BY FileOfType DEF FileOf
<1>2. \A k \in DOMAIN Items : Items[k] \in Item /\ Items[k] # NoItem
  BY ConfigAssumption
<1>3. \A k \in DOMAIN file : file[k] # Junk
  BY <1>1, <1>2 DEF Junk
<1>4. Readable(file) = file
  BY <1>1, <1>3 DEF Readable
<1>5. ASSUME NEW i \in Item
      PROVE  LET at1 == {k \in DOMAIN file : file[k].item = i}
             IN at1 # {} /\ file[CHOOSE k \in at1 : \A j \in at1 : j <= k].value = values[i]
  <2>1. PICK k \in DOMAIN Items :
          Items[k] = i /\ \A j \in DOMAIN Items : Items[j] = i => j = k
    BY PlaceOf
  <2> DEFINE at1 == {n \in DOMAIN file : file[n].item = i}
  <2>2. at1 = {k} /\ k \in Int
    BY <1>1, <2>1, ConfigAssumption
  <2> HIDE DEF at1
  <2>3. (CHOOSE n \in at1 : \A j \in at1 : j <= n) = k
    BY <2>2
  <2> QED
    BY <1>1, <2>1, <2>2, <2>3 DEF at1
<1> HIDE DEF file
<1> DEFINE places(i) == {k \in DOMAIN file : file[k].item = i}
<1>6. Parsed(file) =
        [i \in Item |->
           IF places(i) = {} THEN <<>>
           ELSE Cut(i, file[CHOOSE k \in places(i) : \A j \in places(i) : j <= k].value)]
  BY <1>4 DEF Parsed
<1>7. ASSUME NEW i \in Item
      PROVE  places(i) # {}
             /\ file[CHOOSE k \in places(i) : \A j \in places(i) : j <= k].value = values[i]
  BY <1>5
<1> HIDE DEF places
<1>8. Parsed(file) = [i \in Item |-> Cut(i, values[i])]
  BY <1>6, <1>7
<1> QED
  BY <1>8 DEF Fitted, file

LEMMA UpdatedType ==
  ASSUME FileType
  PROVE  Updated \in [Item -> Value]
BY DEF FileType, Updated

\* A copy of a whole file is whole, with the new value.
LEMMA WholeCopied ==
  ASSUME FileType, config = FileOf(saved), NEW stack
  PROVE  CopyOf(stack) = FileOf(Updated)
<1>1. config # <<>> /\ Len(config) = Len(Items)
  BY FileOfType DEF FileType
<1>2. ASSUME NEW k \in DOMAIN Items
      PROVE  Replaced(config[IF k <= Len(config) THEN k ELSE Len(config)])
               = [item |-> Items[k], value |-> Updated[Items[k]]]
  <2>1. k <= Len(config) /\ Items[k] \in Item
    BY <1>1, ConfigAssumption
  <2>2. config[k] = [item |-> Items[k], value |-> saved[Items[k]]]
    BY DEF FileOf
  <2> QED
    BY <2>1, <2>2 DEF Replaced, Updated, FileType
<1> QED
  BY <1>1, <1>2 DEF CopyOf, FileOf

----------------------------------------------------------------------------
(* One lemma for each part of the program. *)

LEMMA BootFileStep ==
  ASSUME FileInv, FileFound \/ FileOpened \/ FileCreated \/ CreateFails \/ ReadAtBoot
  PROVE  FileInv'
<1>1. UNCHANGED <<saved, job>> /\ FileType' /\ Updated' = Updated
  BY DEF FileInv, FileType, Updated, FileFound, FileOpened, FileCreated, CreateFails,
         ReadAtBoot, ghosts
<1>2. CASE FileFound \/ CreateFails \/ ReadAtBoot
  BY <1>1, <1>2 DEF FileInv, FilesWhole, FileFound, CreateFails, ReadAtBoot, ghosts
<1>3. CASE FileOpened
  BY <1>1, <1>3 DEF FileInv, FilesWhole, FileOpened
<1>4. CASE FileCreated
  <2>1. Defaults = FileOf(Default) /\ Defaults # Missing
    <3>1. Defaults = FileOf(Default)
      BY DEF Defaults, FileOf
    <3> QED
      BY <3>1, ConfigAssumption, FileOfType
  <2> QED
    BY <1>1, <1>4, <2>1 DEF FileInv, FilesWhole, FileCreated, ghosts
<1> QED
  BY <1>2, <1>3, <1>4

LEMMA BeginStep ==
  ASSUME FileInv, NEW i \in Item,
         UpdateFails(i) \/ \E v \in Text : UpdateBegins(i, v)
  PROVE  FileInv'
<1>1. CASE UpdateFails(i)
  BY <1>1 DEF FileInv, FileType, FilesWhole, UpdateFails, Updated
<1>2. CASE \E v \in Text : UpdateBegins(i, v)
  <2>1. /\ UNCHANGED <<config, saved, hit>> /\ pc = "run" /\ pc' = "copy" /\ config # Missing
        /\ job' \in [item : Item, value : Value]
    BY <1>2 DEF UpdateBegins, Opens, ghosts, Value
  <2> QED
    BY <2>1 DEF FileInv, FileType, FilesWhole
<1> QED
  BY <1>1, <1>2

LEMMA UpdateStep ==
  ASSUME FileInv, Copied \/ Unlinked \/ Renamed \/ RenameFails
  PROVE  FileInv'
<1>1. CASE Copied
  <2>1. /\ UNCHANGED <<config, saved, job, hit>> /\ pc = "copy" /\ pc' = "copied"
        /\ \E stack \in Line : replace' = CopyOf(stack)
    BY <1>1 DEF Copied, ghosts
  <2>2. ~hit => replace' = FileOf(Updated)
    BY <2>1, WholeCopied DEF FileInv, FilesWhole
  <2> QED
    BY <2>1, <2>2 DEF FileInv, FileType, FilesWhole, Updated
<1>2. CASE Unlinked
  <2>1. FileOf(Updated) # Missing
    BY UpdatedType, FileOfType DEF FileInv
  <2> QED
    BY <1>2, <2>1 DEF Unlinked, ghosts, FileInv, FileType, FilesWhole, Updated
<1>3. CASE Renamed
  <2>1. FileOf(Updated) # Missing /\ Updated \in [Item -> Value]
    BY UpdatedType, FileOfType DEF FileInv
  <2>2. saved' = Updated /\ config' = replace /\ pc' = "run" /\ UNCHANGED <<job, hit>>
        /\ pc = "unlinked"
    BY <1>3 DEF Renamed, Updated
  <2> QED
    BY <2>1, <2>2 DEF FileInv, FileType, FilesWhole
<1>4. CASE RenameFails
  BY <1>4 DEF RenameFails, ghosts, FileInv, FileType, FilesWhole, Updated
<1> QED
  BY <1>1, <1>2, <1>3, <1>4

LEMMA InterruptedStep ==
  ASSUME FileInv, Interrupted
  PROVE  FileInv'
<1>1. /\ UNCHANGED <<saved, job>> /\ pc' = "init"
      /\ hit' = (hit \/ pc = "create")
      /\ pc # "create" => config' = config
      /\ pc # "copy" => replace' = replace
  BY DEF Interrupted
<1>2. FileType' /\ Updated' = Updated
  BY <1>1 DEF FileInv, FileType, Updated
<1>3. FilesWhole'
  BY <1>1, <1>2 DEF FileInv, FilesWhole
<1> QED
  BY <1>2, <1>3 DEF FileInv

LEMMA FileStep ==
  ASSUME FileInv, [BootNext]_bootVars
  PROVE  FileInv'
<1>1. CASE ConfigNext
  BY <1>1, BootFileStep, BeginStep, UpdateStep DEF ConfigNext
<1>2. CASE PowerReset \/ Panic \/ FallbackRestart
  BY <1>2, InterruptedStep DEF PowerReset, Panic, FallbackRestart
<1>3. CASE Task \/ NotSaved \/ Upgrade \/ UNCHANGED bootVars
  <2>1. UNCHANGED <<config, replace, pc, job, saved, hit>>
    BY <1>3 DEF Task, NotSaved, Upgrade, bootVars, vars, ghosts
  <2> QED
    BY <2>1 DEF FileInv, FileType, FilesWhole, Updated
<1> QED
  BY <1>1, <1>2, <1>3 DEF BootNext

LEMMA FileInvInit ==
  ASSUME BootInit
  PROVE  FileInv
BY ConfigAssumption DEF BootInit, Init, FileInv, FileType, FilesWhole, Value

\* Whatever resets and failures strike while config.txt is created or replaced,
\* the settings are in it, or in replace.tmp (update_system_config).
THEOREM SettingsAlwaysKept == BootSpec => []SettingsKept
<1>1. BootInit => FileInv
  BY FileInvInit
<1>2. FileInv /\ [BootNext]_bootVars => FileInv'
  BY FileStep
<1>3. ASSUME FileInv
      PROVE  SettingsKept
  BY <1>3, WholeParsed, UpdatedType DEF FileInv, FileType, FilesWhole, SettingsKept, Updated
<1> QED
  BY <1>1, <1>2, <1>3, PTL DEF BootSpec
=============================================================================
