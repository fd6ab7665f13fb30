------------------------------- MODULE ConfigFile -------------------------------
(***************************************************************************)
(* The tray's settings file, one file-system call per step: the tray loads *)
(* it, looks for hand edits, saves and resets it, while a person edits or  *)
(* deletes it, an editor or antivirus holds it, and the tray or the power  *)
(* goes away between any two calls.                                        *)
(*                                                                         *)
(* A version of the file is known by a number, which is also its stamp     *)
(* (length and modification time); of its text only what decides a branch  *)
(* is kept, and "base", the last hand edit whose settings it holds.  0 is  *)
(* no file, and no stamp.                                                  *)
(***************************************************************************)
EXTENDS Integers

CONSTANTS
  MaxEdits, MaxPicks, MaxCrashes, MaxLocks,   \* bounds on what the world does
  MaxLoads       \* loads tried at startup (main.rs: 1 and 10 more)

ASSUME ConfigAssumption ==
  /\ MaxEdits \in Nat /\ MaxPicks \in Nat /\ MaxCrashes \in Nat /\ MaxLocks \in Nat
  /\ MaxLoads \in Nat \ {0}

Version == [n : Nat, kind : {"none", "good", "bad", "torn"}, base : Nat, synced : BOOLEAN]
NoFile == [n |-> 0, kind |-> "none", base |-> 0, synced |-> TRUE]

VARIABLES
  \* the file system
  file,      \* what a reader of the path finds
  disk,      \* what a power loss would leave there
  tmp,       \* the sibling temporary file
  locked,    \* whether reading the file is refused
  copies,    \* versions kept beside the file
  \* the tray
  pc, op, loads, first_run,
  seen,      \* the stamp an operation took before reading
  stamp, persist_blocked, corrupt,
  memory,    \* the last hand edit that the settings in memory hold
  \* bookkeeping
  left,      \* what is left of each bound
  last,      \* the last version number given
  began,     \* the version in place when the operation began
  absorbed   \* a hand edit that store took the stamp of for its own file's

files == <<file, disk, tmp, locked, copies>>
config_file == <<stamp, persist_blocked, corrupt>>
tray == <<pc, op, loads, first_run, seen, config_file, memory>>
vars == <<files, tray, left, last, began, absorbed>>

Bounds == [edits |-> MaxEdits, picks |-> MaxPicks, crashes |-> MaxCrashes, locks |-> MaxLocks]

TypeOK ==
  /\ file \in Version /\ disk \in Version /\ tmp \in Version
  /\ locked \in BOOLEAN
  /\ copies \subseteq Nat
  /\ pc \in {"off", "load", "load_read", "salvage", "idle", "check", "exists", "restamp",
             "read", "reset", "store", "create", "write", "sync", "rename", "stamp"}
  /\ op \in {"load", "poll", "save", "reset"}
  /\ loads \in 0 .. MaxLoads
  /\ first_run \in BOOLEAN
  /\ seen \in Nat /\ stamp \in Nat /\ memory \in Nat
  /\ persist_blocked \in BOOLEAN /\ corrupt \in BOOLEAN
  /\ left \in [DOMAIN Bounds -> Nat]
  /\ last \in Nat /\ began \in Nat /\ absorbed \in Nat

Init ==
  /\ file \in {NoFile, [n |-> 1, kind |-> "good", base |-> 1, synced |-> TRUE],
               [n |-> 1, kind |-> "bad", base |-> 1, synced |-> TRUE]}
  /\ disk = file /\ tmp = NoFile /\ locked = FALSE /\ copies = {}
  /\ pc = "off" /\ op = "load" /\ loads = 0 /\ first_run = FALSE /\ seen = 0
  /\ stamp = 0 /\ persist_blocked = FALSE /\ corrupt = FALSE /\ memory = 0
  /\ left = Bounds /\ last = 1 /\ began = 0 /\ absorbed = 0

Missing == file.kind = "none"
Readable == ~Missing /\ ~locked
Parses == file.kind = "good"

Spend(what) ==
  /\ left[what] > 0
  /\ left' = [left EXCEPT ![what] = @ - 1]

-----------------------------------------------------------------------------
(* Loading, at startup.                                                     *)

Start ==
  /\ pc = "off"
  /\ pc' = "load" /\ op' = "load" /\ loads' = 0 /\ first_run' = Missing
  /\ seen' = 0 /\ stamp' = 0 /\ persist_blocked' = FALSE /\ corrupt' = FALSE
  /\ memory' = 0 /\ absorbed' = 0
  /\ UNCHANGED <<files, left, last, began>>

\* The file of a first run is created by an ordinary save.
Loaded ==
  /\ began' = file.n
  /\ IF first_run THEN pc' = "check" /\ op' = "save" ELSE pc' = "idle" /\ op' = op

\* Stamp BEFORE reading.
LoadStamps ==
  /\ pc = "load"
  /\ pc' = "load_read" /\ seen' = file.n /\ loads' = loads + 1
  /\ UNCHANGED <<files, op, first_run, config_file, memory, left, last, began, absorbed>>

LoadFindsNone ==
  /\ pc = "load_read" /\ Missing
  /\ stamp' = 0 /\ persist_blocked' = FALSE /\ corrupt' = FALSE /\ memory' = 0
  /\ Loaded
  /\ UNCHANGED <<files, loads, first_run, seen, left, last, absorbed>>

\* Mutant: one load more than the bound.
LoadRefusedOnceMore ==
  /\ pc = "load_read" /\ ~Missing /\ locked
  /\ persist_blocked' = TRUE /\ memory' = 0
  /\ IF loads <= MaxLoads
     THEN pc' = "load" /\ UNCHANGED <<op, began>>
     ELSE Loaded
  /\ UNCHANGED <<files, loads, first_run, seen, stamp, corrupt, left, last, absorbed>>

\* All four reads of load refused; main loads again, so many times.
LoadRefused ==
  /\ pc = "load_read" /\ ~Missing /\ locked
  /\ persist_blocked' = TRUE /\ memory' = 0
  /\ IF loads < MaxLoads /\ ~corrupt
     THEN pc' = "load" /\ UNCHANGED <<op, began>>
     ELSE Loaded
  /\ UNCHANGED <<files, loads, first_run, seen, stamp, corrupt, left, last, absorbed>>

LoadParses ==
  /\ pc = "load_read" /\ Readable /\ Parses
  /\ stamp' = seen /\ persist_blocked' = FALSE /\ corrupt' = FALSE /\ memory' = file.base
  /\ Loaded
  /\ UNCHANGED <<files, loads, first_run, seen, left, last, absorbed>>

LoadFails ==
  /\ pc = "load_read" /\ Readable /\ ~Parses
  /\ stamp' = seen /\ memory' = 0 /\ corrupt' = TRUE
  /\ pc' = "salvage"
  /\ UNCHANGED <<files, op, loads, first_run, seen, persist_blocked, left, last, began,
                 absorbed>>

\* Copies whatever the path holds by then, for load or for reset.
Salvages ==
  /\ pc = "salvage" /\ Readable
  /\ copies' = copies \cup {file.n}
  /\ persist_blocked' = FALSE
  /\ IF op = "load" THEN Loaded /\ UNCHANGED corrupt
     ELSE pc' = "create" /\ corrupt' = FALSE /\ UNCHANGED <<op, began>>
  /\ UNCHANGED <<file, disk, tmp, locked, loads, first_run, seen, stamp, memory, left, last,
                 absorbed>>

\* Refused, or no room for the copy.
SalvageFails ==
  /\ pc = "salvage"
  /\ persist_blocked' = TRUE
  /\ IF op = "load" THEN Loaded ELSE pc' = "idle" /\ UNCHANGED <<op, began>>
  /\ UNCHANGED <<files, loads, first_run, seen, stamp, corrupt, memory, left, last, absorbed>>

-----------------------------------------------------------------------------
(* Looking for hand edits.                                                  *)

\* The five-second timer's reload, a save, or the menu's reset, which reloads first.
Begins(what) ==
  /\ pc = "idle"
  /\ pc' = "check" /\ op' = what /\ began' = file.n
  /\ UNCHANGED <<files, loads, first_run, seen, config_file, memory, last, absorbed>>

Poll == Begins("poll") /\ UNCHANGED left
Pick(what) == Begins(what) /\ Spend("picks")

Unchanged ==
  pc' = CASE op = "poll" -> "idle" [] op = "save" -> "store" [] op = "reset" -> "reset"

CheckStamp ==
  /\ pc = "check"
  /\ IF stamp = file.n THEN Unchanged ELSE pc' = "exists"
  /\ UNCHANGED <<files, op, loads, first_run, seen, config_file, memory, left, last, began,
                 absorbed>>

\* Deleted while the tray runs: nothing to adopt or protect.
CheckExists ==
  /\ pc = "exists"
  /\ IF Missing THEN stamp' = 0 /\ Unchanged ELSE stamp' = stamp /\ pc' = "restamp"
  /\ UNCHANGED <<files, op, loads, first_run, seen, persist_blocked, corrupt, memory, left,
                 last, began, absorbed>>

CheckRestamps ==
  /\ pc = "restamp"
  /\ pc' = "read" /\ seen' = file.n
  /\ UNCHANGED <<files, op, loads, first_run, config_file, memory, left, last, began, absorbed>>

AfterRead == pc' = IF op = "reset" THEN "reset" ELSE "idle"

\* Mutant: the block of an unreadable file outlives it.
AdoptsStillBlocked ==
  /\ pc = "read" /\ Readable /\ Parses
  /\ stamp' = seen /\ corrupt' = FALSE /\ memory' = file.base
  /\ absorbed' = 0
  /\ AfterRead
  /\ UNCHANGED <<files, op, loads, first_run, seen, persist_blocked, left, last, began>>

\* An edit that parses is adopted, and a save skipped.
Adopts ==
  /\ pc = "read" /\ Readable /\ Parses
  /\ stamp' = seen /\ persist_blocked' = FALSE /\ corrupt' = FALSE /\ memory' = file.base
  /\ absorbed' = 0
  /\ AfterRead
  /\ UNCHANGED <<files, op, loads, first_run, seen, left, last, began>>

\* Mutant: the stamp is advanced past an edit nobody adopted.
FindsInvalidOnce ==
  /\ pc = "read" /\ ~(Readable /\ Parses)
  /\ stamp' = seen
  /\ AfterRead
  /\ UNCHANGED <<files, op, loads, first_run, seen, persist_blocked, corrupt, memory, left,
                 last, began, absorbed>>

\* One that does not, or cannot be read, fails a save; the stamp is not advanced.
FindsInvalid ==
  /\ pc = "read" /\ ~(Readable /\ Parses)
  /\ AfterRead
  /\ UNCHANGED <<files, op, loads, first_run, seen, config_file, memory, left, last, began,
                 absorbed>>

-----------------------------------------------------------------------------
(* Resetting and saving.                                                    *)

\* Mutant: the copy that failed at load is not tried again.
ResetsUncopied ==
  /\ pc = "reset"
  /\ pc' = IF corrupt THEN "create" ELSE "idle"
  /\ corrupt' = FALSE /\ persist_blocked' = FALSE
  /\ UNCHANGED <<files, op, loads, first_run, seen, stamp, memory, left, last, began, absorbed>>

Resets ==
  /\ pc = "reset"
  /\ pc' = CASE ~corrupt -> "idle" [] corrupt /\ persist_blocked -> "salvage"
             [] OTHER -> "create"
  /\ corrupt' = (corrupt /\ persist_blocked)
  /\ UNCHANGED <<files, op, loads, first_run, seen, stamp, persist_blocked, memory, left, last,
                 began, absorbed>>

StoreRefuses ==
  /\ pc = "store" /\ (corrupt \/ persist_blocked)
  /\ pc' = "idle"
  /\ UNCHANGED <<files, op, loads, first_run, seen, config_file, memory, left, last, began,
                 absorbed>>

StoreStarts ==
  /\ pc = "store" /\ ~corrupt /\ ~persist_blocked
  /\ pc' = "create"
  /\ UNCHANGED <<files, op, loads, first_run, seen, config_file, memory, left, last, began,
                 absorbed>>

\* The settings written: those in memory, or a new install's.
Saved == IF op = "reset" THEN 0 ELSE memory

CreatesTmp ==
  /\ pc = "create"
  /\ pc' = "write" /\ last' = last + 1
  /\ tmp' = [n |-> last + 1, kind |-> "torn", base |-> Saved, synced |-> FALSE]
  /\ UNCHANGED <<file, disk, locked, copies, op, loads, first_run, seen, config_file, memory,
                 left, began, absorbed>>

WritesTmp ==
  /\ pc = "write"
  /\ pc' = "sync" /\ tmp' = [tmp EXCEPT !.kind = "good"]
  /\ UNCHANGED <<file, disk, locked, copies, op, loads, first_run, seen, config_file, memory,
                 left, last, began, absorbed>>

\* Mutant: the data is left to the operating system to write.
SyncsNothing ==
  /\ pc = "sync"
  /\ pc' = "rename"
  /\ UNCHANGED <<files, op, loads, first_run, seen, config_file, memory, left, last, began,
                 absorbed>>

SyncsTmp ==
  /\ pc = "sync"
  /\ pc' = "rename" /\ tmp' = [tmp EXCEPT !.synced = TRUE]
  /\ UNCHANGED <<file, disk, locked, copies, op, loads, first_run, seen, config_file, memory,
                 left, last, began, absorbed>>

\* The new name is not flushed: disk follows when the file system gets to it.
Renames ==
  /\ pc = "rename"
  /\ pc' = "stamp" /\ file' = tmp /\ tmp' = NoFile /\ locked' = FALSE
  /\ UNCHANGED <<disk, copies, op, loads, first_run, seen, config_file, memory, left, last,
                 began, absorbed>>

\* Any of the four may fail; a reset then leaves the file marked as it was.
StoreFails ==
  /\ pc \in {"create", "write", "sync", "rename"}
  /\ pc' = "idle" /\ corrupt' = (op = "reset")
  /\ UNCHANGED <<files, op, loads, first_run, seen, stamp, persist_blocked, memory, left, last,
                 began, absorbed>>

\* The stamp of whatever the path holds by then; a hand edit's base is itself.
StoreStamps ==
  /\ pc = "stamp"
  /\ pc' = "idle" /\ stamp' = file.n
  /\ memory' = Saved
  /\ absorbed' = IF file.n = file.base THEN file.n ELSE absorbed
  /\ UNCHANGED <<files, op, loads, first_run, seen, persist_blocked, corrupt, left, last, began>>

-----------------------------------------------------------------------------
(* The world.                                                               *)

\* Hand edits are whole and durable once made; one half done is one that does not parse.
Edits(kind) ==
  /\ Spend("edits")
  /\ last' = last + 1
  /\ file' = [n |-> last + 1, kind |-> kind, base |-> last + 1, synced |-> TRUE]
  /\ disk' = file'
  /\ UNCHANGED <<tmp, locked, copies, tray, began, absorbed>>

Deletes ==
  /\ Spend("edits") /\ ~Missing
  /\ file' = NoFile /\ disk' = NoFile /\ locked' = FALSE
  /\ UNCHANGED <<tmp, copies, tray, last, began, absorbed>>

Locks ==
  /\ Spend("locks") /\ ~Missing /\ ~locked
  /\ locked' = TRUE
  /\ UNCHANGED <<file, disk, tmp, copies, tray, last, began, absorbed>>

Unlocks ==
  /\ locked
  /\ locked' = FALSE
  /\ UNCHANGED <<file, disk, tmp, copies, tray, left, last, began, absorbed>>

\* The name may reach the disk before data that was not synced.
Flushes ==
  /\ disk # file
  /\ \/ disk' = file
     \/ ~file.synced /\ disk' = [file EXCEPT !.kind = "torn"]
  /\ UNCHANGED <<file, tmp, locked, copies, tray, left, last, began, absorbed>>

TrayEnds ==
  /\ Spend("crashes") /\ pc # "off"
  /\ pc' = "off"
  /\ UNCHANGED <<files, op, loads, first_run, seen, config_file, memory, last, began, absorbed>>

PowerLoss ==
  /\ Spend("crashes")
  /\ pc' = "off" /\ file' = disk /\ locked' = FALSE
  /\ UNCHANGED <<disk, tmp, copies, op, loads, first_run, seen, config_file, memory, last,
                 began, absorbed>>

-----------------------------------------------------------------------------
Load == LoadStamps \/ LoadFindsNone \/ LoadRefused \/ LoadParses \/ LoadFails
Check == CheckStamp \/ CheckExists \/ CheckRestamps \/ Adopts \/ FindsInvalid
Store == StoreRefuses \/ StoreStarts \/ CreatesTmp \/ WritesTmp \/ SyncsTmp \/ Renames
         \/ StoreStamps

Works == Load \/ Salvages \/ Check \/ Resets \/ Store
Fails == SalvageFails \/ StoreFails
World == (\E kind \in {"good", "bad"} : Edits(kind)) \/ Deletes \/ Locks \/ Unlocks \/ Flushes
         \/ TrayEnds \/ PowerLoss

Next == Start \/ Works \/ Fails \/ Poll \/ (\E what \in {"save", "reset"} : Pick(what)) \/ World

Spec == Init /\ [][Next]_vars

\* The event loop passes at least once a second and compares the check's deadline; a lock
\* by an editor or antivirus is gone in well under a second.
Fairness == WF_vars(Works \/ Poll) /\ WF_vars(Unlocks)
FairSpec == Spec /\ Fairness

-----------------------------------------------------------------------------
(* Properties.                                                              *)

Replaces(what) == op = what /\ pc = "rename" /\ pc' = "stamp"

\* What a reader of a version finds in it.
Content(version) == [kind |-> version.kind, base |-> version.base]

Settings == INSTANCE SettingsFile WITH path <- Content(file), lasting <- Content(disk)

\* The file is one value, replaced at once: a crash or power loss at any point leaves the old
\* file or the new one, never a part of one; a save puts there what memory holds and changes
\* nothing else, and memory holds what was read in one piece (store: temporary file, sync_all,
\* rename; load, check_disk).
OneValue == Settings!Spec

\* A save never takes the file back behind a hand edit: what stood at the path when the
\* save began, and still does, parsed, and its settings are in what replaces it.  Two
\* windows are left: an edit made after the save began, and one made between an earlier
\* save's rename and its stamp_of (check_disk, persist, store).
SavesKeepEdits ==
  [][Replaces("save") /\ file.n = began /\ file.n # absorbed
       => Missing \/ (Parses /\ tmp.base = file.base)]_vars

\* The file that did not parse at load is only reset away once a copy of it was kept, even
\* when the copy failed at load (salvage, reset).
ResetsWhatWasCopied ==
  [][Replaces("reset") /\ file.kind = "bad" /\ file.n = stamp /\ file.n # absorbed
       => file.n \in copies]_vars

\* Once the person, the locks and the crashes are done, a tray that runs holds the hand
\* edits of a file that parses, and may save again: neither an earlier bad file nor one
\* that could not be read blocks it for good (load, check_disk).
FinallyAdopted ==
  <>[](pc # "off" /\ Parses /\ file.n # absorbed
         => memory = file.base /\ ~corrupt /\ ~persist_blocked)

\* "Deleted while we run: nothing to adopt or protect, so the next save recreates it"
\* (config.rs, check_disk): a save whose check found no file is not refused.
NextSaveRecreates == pc = "store" /\ stamp = 0 => ~corrupt /\ ~persist_blocked
================================================================================
