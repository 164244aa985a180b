---------------------------- MODULE SystemConfig ----------------------------
(***************************************************************************)
(* The configuration file (main/app_spiffs.c): how it is created, read and *)
(* updated, step by step, with resets in between; who may update it        *)
(* (main/router.c, main/node_task.c, main/app_httpd.c).                    *)
(*                                                                         *)
(*   config, replace  config.txt and replace.tmp: their lines, or Missing  *)
(*   pc         where the program is: "init", "create" and "read" at boot, *)
(*              then "run", or inside an update                            *)
(*   settings   what get_system_config read at boot                        *)
(*   job        the variable and value of the update                       *)
(*   handles    files open that nobody will close                          *)
(* For the properties: saved, the settings after the last update that      *)
(* returned 0; hit, that a fault has cost settings: a reset while the file *)
(* was created, a boot that found only the copy, or an update that emptied *)
(* the copy.                                                               *)
(*                                                                         *)
(* Texts are sequences of characters; resets and failures are bounded.     *)
(***************************************************************************)
EXTENDS Integers, Sequences, FiniteSets, SequencesExt

CONSTANTS
  Items,      \* config_items, in their order
  Default,    \* config_values
  Size,       \* of the fields of system_config_t, with the final 0
  Text,       \* values a user may set
  ModeItem,   \* "run_mode"
  WebMode,    \* the text "1"
  MaxFiles,   \* files that can be open (5)
  Missing,    \* no such file
  Limit,      \* how often the environment acts in each of its ways
  Acts        \* and how often altogether

Item == ToSet(Items)
Value == Text \cup {Default[i] : i \in Item}

VARIABLES config, replace, pc, settings, job, handles, saved, hit, spent

ghosts == <<saved, hit>>
vars   == <<config, replace, pc, settings, job, handles, ghosts, spent>>

\* A line, or one of unknown content without "=".
NoItem == "none"
Junk   == [item |-> NoItem, value |-> <<>>]
Line   == [item : Item, value : Value] \cup {Junk}

ASSUME ConfigAssumption ==
  /\ Items \in Seq(Item) /\ IsInjective(Items)
  /\ ModeItem \in Item /\ NoItem \notin Item
  /\ WebMode \in Value /\ Default \in [Item -> Value]
  /\ Size \in [Item -> Nat \ {0}]
  /\ Missing \notin Seq(Line)

ConfigTypeOK ==
  /\ config = Missing \/ (Len(config) <= Len(Items) /\ ToSet(config) \subseteq Line)
  /\ replace = Missing \/ (Len(replace) <= Len(Items) /\ ToSet(replace) \subseteq Line)
  /\ pc \in {"init", "create", "read", "run", "copy", "copied", "unlinked"}
  /\ DOMAIN settings = Item
  /\ \A i \in Item : Len(settings[i]) < Size[i]
  /\ job \in [item : Item, value : Value]
  /\ handles \in 0 .. MaxFiles
  /\ saved \in [Item -> Value] /\ hit \in BOOLEAN

Defaults == [k \in DOMAIN Items |-> [item |-> Items[k], value |-> Default[Items[k]]]]

Blank == [i \in Item |-> <<>>]

Init ==
  /\ config = Missing /\ replace = Missing
  /\ pc = "init" /\ settings = Blank
  /\ job = [item |-> ModeItem, value |-> WebMode]
  /\ handles = 0
  /\ saved = Default /\ hit = FALSE
  /\ spent = [k \in DOMAIN Limit |-> 0]

Spend(what) ==
  /\ spent[what] < Limit[what] /\ FoldFunction(+, 0, spent) < Acts
  /\ spent' = [spent EXCEPT ![what] = @ + 1]

----------------------------------------------------------------------------
(* system_config_init and get_system_config, at boot *)

FileFound ==
  /\ pc = "init" /\ config # Missing
  /\ pc' = "read"
  /\ UNCHANGED <<config, replace, settings, job, handles, ghosts, spent>>

FileOpened ==
  /\ pc = "init" /\ config = Missing
  /\ config' = <<>>
  /\ pc' = "create"
  /\ hit' = (hit \/ replace # Missing)
  /\ UNCHANGED <<replace, settings, job, handles, saved, spent>>

FileCreated ==
  /\ pc = "create"
  /\ config' = Defaults
  /\ pc' = "read"
  /\ UNCHANGED <<replace, settings, job, handles, ghosts, spent>>

\* app_main goes on without a file.
CreateFails ==
  /\ pc = "init" /\ config = Missing /\ Spend("fail")
  /\ pc' = "read"
  /\ UNCHANGED <<config, replace, settings, job, handles, ghosts>>

Cut(i, v) == IF Len(v) < Size[i] THEN v ELSE SubSeq(v, 1, Size[i] - 1)

\* The lines up to the first that has no "=".
Readable(file) ==
  IF file = Missing THEN <<>>
  ELSE IF \E k \in DOMAIN file : file[k] = Junk
    THEN SubSeq(file, 1, (CHOOSE k \in DOMAIN file : file[k] = Junk /\
                            \A j \in 1 .. k - 1 : file[j] # Junk) - 1)
    ELSE file

\* The last line of an item counts; an item without one stays empty.
Parsed(file) ==
  LET lines == Readable(file)
      at(i) == {k \in DOMAIN lines : lines[k].item = i}
  IN [i \in Item |->
        IF at(i) = {} THEN <<>>
        ELSE Cut(i, lines[CHOOSE k \in at(i) : \A j \in at(i) : j <= k].value)]

ReadAtBoot ==
  /\ pc = "read"
  /\ settings' = Parsed(config)
  /\ pc' = "run"
  /\ UNCHANGED <<config, replace, job, handles, ghosts, spent>>

----------------------------------------------------------------------------
(* update_system_config *)

\* The web page sets any variable; a device in the mesh only its mode.
MayUpdate(i) == settings[ModeItem] = WebMode \/ i = ModeItem

Opens == config # Missing /\ handles + 2 <= MaxFiles

UpdateBegins(i, v) ==
  /\ pc = "run" /\ MayUpdate(i) /\ Opens
  /\ Spend("update")
  /\ replace' = <<>>
  /\ job' = [item |-> i, value |-> v]
  /\ pc' = "copy"
  /\ UNCHANGED <<config, settings, handles, ghosts>>

\* One of the files cannot be opened; the other is left open.
UpdateFails(i) ==
  /\ pc = "run" /\ MayUpdate(i) /\ ~Opens
  /\ Spend("update")
  /\ IF config = Missing
       THEN IF handles < MaxFiles
              THEN replace' = <<>> /\ handles' = handles + 1
              ELSE UNCHANGED <<replace, handles>>
       ELSE /\ handles' = IF handles < MaxFiles THEN handles + 1 ELSE handles
            /\ UNCHANGED replace
  /\ hit' = (hit \/ replace' # replace)
  /\ UNCHANGED <<config, pc, settings, job, saved>>

\* Mutant: the line is matched by its value.
ReplacedByValue(line) ==
  IF line.value = saved[job.item] THEN [item |-> job.item, value |-> job.value] ELSE line

Replaced(line) ==
  IF line.item = job.item THEN [item |-> job.item, value |-> job.value] ELSE line

(***************************************************************************)
(* As many lines as there are items are written.  Past the end of the file *)
(* the buffer keeps its last line, or what was on the stack.               *)
(***************************************************************************)
CopyOf(stack) ==
  [k \in DOMAIN Items |->
     Replaced(IF config = <<>> THEN stack
              ELSE config[IF k <= Len(config) THEN k ELSE Len(config)])]

Copied ==
  /\ pc = "copy"
  /\ \E stack \in Line : replace' = CopyOf(stack)
  /\ pc' = "copied"
  /\ UNCHANGED <<config, settings, job, handles, ghosts, spent>>

Unlinked ==
  /\ pc = "copied"
  /\ config' = Missing
  /\ pc' = "unlinked"
  /\ UNCHANGED <<replace, settings, job, handles, ghosts, spent>>

\* update_system_config returns 0.
Renamed ==
  /\ pc = "unlinked"
  /\ config' = replace /\ replace' = Missing
  /\ saved' = [saved EXCEPT ![job.item] = job.value]
  /\ pc' = "run"
  /\ UNCHANGED <<settings, job, handles, hit, spent>>

RenameFails ==
  /\ pc = "unlinked" /\ Spend("fail")
  /\ pc' = "run"
  /\ UNCHANGED <<config, replace, settings, job, handles, ghosts>>

----------------------------------------------------------------------------
(***************************************************************************)
(* The device is reset.  A file being written keeps some of its first      *)
(* lines.                                                                  *)
(***************************************************************************)
Interrupted ==
  /\ pc' = "init"
  /\ settings' = Blank /\ handles' = 0
  /\ IF pc = "create"
       THEN \E n \in 0 .. Len(Items) : config' = SubSeq(Defaults, 1, n)
       ELSE UNCHANGED config
  /\ IF pc = "copy"
       THEN \E stack \in Line : \E n \in 0 .. Len(CopyOf(stack)) :
              replace' = SubSeq(CopyOf(stack), 1, n)
       ELSE UNCHANGED replace
  /\ hit' = (hit \/ pc = "create")
  /\ UNCHANGED <<job, saved>>

ConfigNext ==
  \/ FileFound \/ FileOpened \/ FileCreated \/ CreateFails \/ ReadAtBoot
  \/ \E i \in Item, v \in Text : UpdateBegins(i, v)
  \/ \E i \in Item : UpdateFails(i)
  \/ Copied \/ Unlinked \/ Renamed \/ RenameFails

----------------------------------------------------------------------------
Fitted(values) == [i \in Item |-> Cut(i, values[i])]

(***************************************************************************)
(* Unless a fault has cost settings, config.txt, where it exists, holds    *)
(* what the updates that returned 0 left, each value cut to its field: a   *)
(* reset inside an update loses at most that update. While config.txt is   *)
(* away, because it is being replaced, because of a reset at that moment   *)
(* or because the renaming failed, replace.tmp holds all settings with the *)
(* new value: they could be recovered from it.                             *)
(***************************************************************************)
SettingsKept ==
  ~hit =>
    /\ config # Missing /\ pc # "create" => Parsed(config) = Fitted(saved)
    /\ config = Missing /\ replace # Missing =>
         Parsed(replace) = Fitted([saved EXCEPT ![job.item] = job.value])

\* An update that returns 0 has put its value into the file.
UpdateTakes ==
  [][pc = "unlinked" /\ pc' = "run" /\ config' # Missing
       => Parsed(config')[job.item] = Cut(job.item, job.value)]_vars

\* No call leaves a file open.
FilesClosed == handles = 0
=============================================================================
