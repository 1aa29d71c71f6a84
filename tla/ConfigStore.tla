---------------------------- MODULE ConfigStore ----------------------------
(***************************************************************************)
(* The configuration file of the toolbox and the workload ID in it         *)
(* (toolbox/src/runtime_config.cpp, SaveRuntimeConfig, and the two callers *)
(* of SaveConfiguration in app_ui.cpp).                                    *)
(*                                                                         *)
(* A save writes config.ini.tmp, moves config.ini to config.ini.bak, moves *)
(* the new file into place and removes the backup; each step may fail, and *)
(* power may be cut between any two.  Starting a run reserves an ID: it    *)
(* advances the next one and saves before the worker starts.               *)
(*                                                                         *)
(* A configuration is its next_workload_id; the file system is external,   *)
(* with a rename that happens or does not.                                 *)
(***************************************************************************)
EXTENDS Naturals

CONSTANTS
  MaxId,           \* bound: UINT32_MAX, the ID that cannot be reserved
  None, Torn,      \* no such file; a file that holds a part of what was written
  Faults           \* beyond calls that report an error: "power cut", "read error"
                   \* at a start, "early write" that stdio makes within fprintf

ASSUME IdAssumption ==
  /\ MaxId \in Nat \ {0, 1}
  /\ None # Torn /\ {None, Torn} \cap Nat = {}
  /\ Faults \subseteq {"power cut", "read error", "early write"}

Id == 1..MaxId
DefaultId == 1   \* config::WgnxTunnelWorkloadId

VARIABLES
  pc,       \* "off", "idle", or the next step of a save
  purpose,  \* who saves: "run" or "settings"
  next_id,  \* model->config.next_workload_id
  previous, \* previous_config of StartRun
  moved,    \* moved_previous_configuration
  path, tmp, bak,  \* external: the three files
  started,  \* history: the IDs of the runs started since the user last chose the next
  lost,     \* history: a start found no readable file though one had been saved
  before,   \* history: path when the save began
  saved,    \* history: a save has succeeded
  unnoticed \* history: an early write has failed

files == <<path, tmp, bak>>
vars == <<pc, purpose, next_id, previous, moved, files, started, lost, before, saved, unnoticed>>

Steps == {"open", "write", "clear backup", "back up", "replace", "restore", "remove backup"}

Init ==
  /\ pc = "off" /\ purpose = "settings" /\ next_id = DefaultId /\ previous = DefaultId
  /\ moved = FALSE /\ path = None /\ tmp = None /\ bak = None
  /\ started = {} /\ lost = FALSE /\ before = None /\ saved = FALSE
  /\ unnoticed = FALSE

\* LoadRuntimeConfig looks at config.ini alone; the compiled defaults stand in
\* for a file that is not there, cannot be opened or makes no valid configuration.
Load ==
  /\ pc = "off" /\ pc' = "idle"
  /\ \/ path \in Id /\ next_id' = path /\ UNCHANGED lost
     \/ /\ path \notin Id \/ "read error" \in Faults
        /\ next_id' = DefaultId /\ lost' = (lost \/ saved)
  /\ UNCHANGED <<purpose, previous, moved, files, started, before, saved, unnoticed>>

\* The user chooses the next ID: the settings field, or the reset to defaults.
ChooseId ==
  /\ pc = "idle"
  /\ next_id' \in Id
  /\ started' = {} /\ lost' = FALSE
  /\ UNCHANGED <<pc, purpose, previous, moved, files, before, saved, unnoticed>>

Begin(who) == pc' = "open" /\ purpose' = who /\ before' = path

SaveSettings ==
  /\ pc = "idle" /\ Begin("settings")
  /\ UNCHANGED <<next_id, previous, moved, files, started, lost, saved, unnoticed>>

Exhausted == next_id = MaxId

\* StartRun up to the save.
\* Faulty variant: the ID is reserved after the save.
ReservedNot == next_id
Reserved == next_id + 1

StartRun ==
  /\ pc = "idle" /\ ~Exhausted
  /\ previous' = next_id /\ next_id' = Reserved
  /\ Begin("run")
  /\ UNCHANGED <<moved, files, started, lost, saved, unnoticed>>

\* The end of a save that failed: a run is not started and its ID given back.
GivenBack == IF purpose = "run" THEN previous ELSE next_id

Fail == pc' = "idle" /\ next_id' = GivenBack

\* std::remove of the temporary file; its result is not looked at.
RemoveTemporary == tmp' \in {None, tmp}

\* fopen truncates; the directories were made at start.
Open ==
  /\ pc = "open" /\ moved' = FALSE
  /\ \/ tmp' = Torn /\ pc' = "write" /\ UNCHANGED next_id
     \/ Fail /\ UNCHANGED tmp
  /\ UNCHANGED <<purpose, previous, path, bak, started, lost, before, saved, unnoticed>>

AfterWriteFailed(keep) == keep /\ Fail

\* The fprintf calls, fflush and fclose.  Only the last two are looked at: a
\* write that stdio had to make earlier may fail unnoticed.
Write ==
  /\ pc = "write"
  /\ \/ tmp' = next_id /\ pc' = "clear backup" /\ UNCHANGED <<next_id, unnoticed>>
     \/ "early write" \in Faults /\ pc' = "clear backup" /\ unnoticed' = TRUE /\ UNCHANGED <<tmp, next_id>>
     \/ AfterWriteFailed(RemoveTemporary) /\ UNCHANGED unnoticed
  /\ UNCHANGED <<purpose, previous, moved, path, bak, started, lost, before, saved>>

ClearBackup ==
  /\ pc = "clear backup"
  /\ \/ bak' = None /\ pc' = "back up" /\ UNCHANGED <<tmp, next_id>>
     \/ RemoveTemporary /\ Fail /\ UNCHANGED bak
  /\ UNCHANGED <<purpose, previous, moved, path, started, lost, before, saved, unnoticed>>

Kept == path

\* The rename fails with ENOENT where there is no file yet.
BackUp ==
  /\ pc = "back up"
  /\ \/ /\ path # None /\ bak' = Kept /\ path' = None /\ moved' = TRUE
        /\ pc' = "replace" /\ UNCHANGED <<tmp, next_id>>
     \/ path = None /\ pc' = "replace" /\ UNCHANGED <<files, moved, next_id>>
     \/ path # None /\ RemoveTemporary /\ Fail /\ UNCHANGED <<path, bak, moved>>
  /\ UNCHANGED <<purpose, previous, started, lost, before, saved, unnoticed>>

Replace ==
  /\ pc = "replace"
  /\ \/ path' = tmp /\ tmp' = None /\ pc' = "remove backup"
     \/ pc' = "restore" /\ UNCHANGED <<path, tmp>>
  /\ UNCHANGED <<purpose, next_id, previous, moved, bak, started, lost, before, saved, unnoticed>>

Restored == IF moved THEN bak ELSE path

Restore ==
  /\ pc = "restore"
  /\ \/ path' = Restored /\ bak' = IF path' = path THEN bak ELSE None
     \/ moved /\ UNCHANGED <<path, bak>>
  /\ RemoveTemporary /\ Fail
  /\ UNCHANGED <<purpose, previous, moved, started, lost, before, saved, unnoticed>>

\* The save has succeeded; removing the backup may fail unnoticed.  A run's
\* worker starts with the ID that was reserved.
Finish ==
  /\ pc = "remove backup" /\ pc' = "idle" /\ saved' = TRUE
  /\ bak' \in IF moved THEN {None, bak} ELSE {bak}
  /\ started' = IF purpose = "run" THEN started \cup {previous} ELSE started
  /\ UNCHANGED <<purpose, next_id, previous, moved, path, tmp, lost, before, unnoticed>>

\* The toolbox is left, or the power goes at any point.
Leave == pc = "idle" /\ pc' = "off" /\ UNCHANGED <<purpose, next_id, previous, moved, files, started, lost, before, saved, unnoticed>>
PowerCut ==
  /\ "power cut" \in Faults /\ pc \in Steps /\ pc' = "off"
  /\ UNCHANGED <<purpose, next_id, previous, moved, files, started, lost, before, saved, unnoticed>>

Save == Open \/ Write \/ ClearBackup \/ BackUp \/ Replace \/ Restore \/ Finish

Next == Load \/ ChooseId \/ SaveSettings \/ StartRun \/ Save \/ Leave \/ PowerCut

Spec == Init /\ [][Next]_vars

-----------------------------------------------------------------------------
Contents == Id \cup {None, Torn}

TypeOK ==
  /\ pc \in Steps \cup {"off", "idle"} /\ purpose \in {"run", "settings"}
  /\ next_id \in Id /\ previous \in Id /\ moved \in BOOLEAN
  /\ path \in Contents /\ tmp \in Contents /\ bak \in Contents /\ before \in Contents
  /\ started \subseteq Id /\ {lost, saved, unnoticed} \subseteq BOOLEAN

\* config.ini and its backup hold a whole configuration or are not there.
NeverTorn == path # Torn /\ bak # Torn

\* A file that was there when a save began is never lost: a whole copy is in one
\* of the three places.
CopySurvives == before \in Id => {path, bak, tmp} \cap Id # {}

\* While the file has been found at every start, the ID it holds is beyond every
\* ID a run was started with.
ReservedOnDisk == ~lost /\ path \in Id => \A id \in started : id < path

\* What a save leaves on disk, whichever of its steps fails and wherever the power
\* goes.  A start does not use an ID twice ("reserves the current
\* run.next_workload_id, increments it, and persists the increment before the
\* worker starts", toolbox/README.md:121), and unless a write failed unnoticed
\* the previous or the new configuration is there in whole, never in part.
FilesSurvive == ReservedOnDisk /\ (~unnoticed => NeverTorn /\ CopySurvives)

RunRefused == pc \in Steps \ {"remove backup"} /\ pc' = "idle" /\ purpose = "run"
FileKept == path' = before \/ (path' = None /\ bak' = before)
FailureKept == RunRefused => next_id' = previous /\ FileKept

\* A run that is not started leaves its ID available and the previous file in
\* place or, when that failed too, in the backup ("If that persistence fails, the
\* run does not start and the ID remains available", toolbox/README.md:123).
FailureKeepsId == [][FailureKept]_vars

RunStarts == pc = "remove backup" /\ pc' = "idle" /\ purpose = "run"

\* No run is started with an ID that an earlier one had, unless the user chose it
\* (toolbox/README.md:121).
NoIdTwice == [][RunStarts => previous \notin started]_vars
=============================================================================
