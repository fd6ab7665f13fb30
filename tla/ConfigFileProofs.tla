--------------------------- MODULE ConfigFileProofs ---------------------------
(***************************************************************************)
(* Proofs about ConfigFile: its type, that it is one value as SettingsFile *)
(* has it, that a save keeps the hand edits it found, and that a reset     *)
(* replaces only what was copied.                                          *)
(***************************************************************************)
EXTENDS ConfigFile, TLAPS

Writing == pc \in {"create", "write", "sync", "rename"}

\* Which operation may be where; that a load is left to try, and a copy to make.
OpSound ==
  /\ pc \in {"load", "load_read"} => op = "load"
  /\ pc = "load" => loads < MaxLoads
  /\ pc \in {"check", "exists", "restamp", "read"} => op \in {"poll", "save", "reset"}
  /\ pc = "store" => op = "save"
  /\ pc = "reset" => op = "reset"
  /\ pc = "salvage" => op \in {"load", "reset"} /\ corrupt = TRUE

\* Version numbers given so far: a new one is none of those held.
Numbered ==
  /\ file.n <= last /\ disk.n <= last /\ tmp.n <= last
  /\ stamp <= last /\ seen <= last /\ began <= last

\* A hand edit's number is given when it is made.
Based ==
  file.base <= last /\ disk.base <= last /\ tmp.base <= last /\ memory <= last

\* Only whole, synced files get the name.
Whole ==
  /\ file.kind # "torn" /\ file.synced = TRUE
  /\ disk.kind # "torn" /\ disk.synced = TRUE
  /\ pc \in {"sync", "rename"} => tmp.kind = "good"
  /\ pc = "rename" => tmp.synced = TRUE

\* What is being written is what was to be saved.
Saving ==
  /\ Writing => corrupt = FALSE /\ persist_blocked = FALSE
  /\ pc \in {"write", "sync", "rename"} => tmp.base = Saved
  /\ pc = "stamp" => Missing \/ file.base = file.n \/ (Parses /\ file.base = Saved)

\* A file whose stamp is the one held is held in memory, or the tray knows it is not.
Known ==
  /\ pc \notin {"off", "load", "load_read", "stamp"}
  /\ ~(op = "reset" /\ Writing)
  /\ file.n = stamp
  /\ file.n # absorbed
  => Missing \/ corrupt = TRUE \/ persist_blocked = TRUE \/ (Parses /\ memory = file.base)

\* A save past its check has seen what was there when it began.
Checked ==
  (pc = "store" \/ Writing) /\ op = "save" /\ file.n = began => Missing \/ file.n = stamp

\* A broken file whose stamp is held was copied, or it is known that it was not.
Copied ==
  /\ pc \notin {"off", "load", "load_read", "salvage", "stamp"}
  /\ persist_blocked = FALSE
  /\ file.kind = "bad"
  /\ file.n = stamp
  /\ file.n # absorbed
  => file.n \in copies

IInv == /\ TypeOK /\ OpSound /\ Numbered /\ Based
        /\ Whole /\ Saving /\ Known /\ Checked /\ Copied

-----------------------------------------------------------------------------
\* A step keeps the types, and what each operation may be doing.
LEMMA TypedStep ==
  TypeOK /\ OpSound /\ [Next]_vars => TypeOK' /\ OpSound'
<1> SUFFICES ASSUME TypeOK /\ OpSound, [Next]_vars PROVE TypeOK' /\ OpSound'
  OBVIOUS
<1> USE DEF files, config_file, tray
<1>1. CASE Start
  <2>1. first_run' \in BOOLEAN /\ 0 \in 0 .. MaxLoads
    BY <1>1, ConfigAssumption DEF Start, Missing
  <2>2. TypeOK'
    BY <1>1, <2>1 DEF TypeOK, Start
  <2>3. OpSound'
    BY <1>1, ConfigAssumption DEF OpSound, Start
  <2> QED  BY <1>1, <2>1, <2>2, <2>3 DEF TypeOK, OpSound, Version, Bounds, Start, Missing
<1>2. CASE LoadStamps
  <2>1. loads' \in 0 .. MaxLoads
    BY <1>2, ConfigAssumption DEF TypeOK, OpSound, LoadStamps
  <2>2. seen' \in Nat
    BY <1>2 DEF TypeOK, Version, LoadStamps
  <2> QED  BY <1>2, <2>1, <2>2 DEF TypeOK, OpSound, Version, Bounds, LoadStamps
<1>3. CASE LoadFindsNone
  BY <1>3 DEF TypeOK, OpSound, Version, Bounds, LoadFindsNone, Missing, Loaded
<1>4. CASE LoadRefused
  BY <1>4 DEF TypeOK, OpSound, Version, Bounds, LoadRefused, Loaded
<1>5. CASE LoadParses
  BY <1>5 DEF TypeOK, OpSound, Version, Bounds, LoadParses, Loaded, Parses, Readable, Missing
<1>6. CASE LoadFails
  BY <1>6 DEF TypeOK, OpSound, Version, Bounds, LoadFails
<1>7. CASE Salvages
  <2>1. copies' \subseteq Nat
    BY <1>7 DEF TypeOK, Version, Salvages
  <2>2. corrupt' \in BOOLEAN /\ persist_blocked' \in BOOLEAN
    BY <1>7 DEF TypeOK, Salvages
  <2>3. pc' \in {"check", "idle", "create"} /\ op' \in {"save", op} /\ began' \in Nat
    BY <1>7 DEF TypeOK, Version, Salvages, Loaded
  <2>4. OpSound'
    BY <1>7 DEF OpSound, Salvages, Loaded
  <2> QED  BY <1>7, <2>1, <2>2, <2>3, <2>4 DEF TypeOK, OpSound, Version, Bounds, Salvages,
      Loaded, Readable, Missing
<1>8. CASE SalvageFails
  BY <1>8 DEF TypeOK, OpSound, Version, Bounds, SalvageFails, Loaded
<1>9. CASE Poll
  BY <1>9 DEF TypeOK, OpSound, Version, Bounds, Poll, Begins
<1>10. CASE \E what \in {"save", "reset"} : Pick(what)
  BY <1>10 DEF TypeOK, OpSound, Version, Bounds, Pick, Begins, Spend
<1>11. CASE CheckStamp
  BY <1>11 DEF TypeOK, OpSound, Version, Bounds, CheckStamp, Unchanged
<1>12. CASE CheckExists
  BY <1>12 DEF TypeOK, OpSound, Version, Bounds, CheckExists, Unchanged, Missing
<1>13. CASE CheckRestamps
  BY <1>13 DEF TypeOK, OpSound, Version, Bounds, CheckRestamps
<1>14. CASE Adopts
  BY <1>14 DEF TypeOK, OpSound, Version, Bounds, Adopts, AfterRead, Parses, Readable
<1>15. CASE FindsInvalid
  BY <1>15 DEF TypeOK, OpSound, Version, Bounds, FindsInvalid, AfterRead
<1>16. CASE Resets
  BY <1>16 DEF TypeOK, OpSound, Version, Bounds, Resets
<1>17. CASE StoreRefuses
  BY <1>17 DEF TypeOK, OpSound, Version, Bounds, StoreRefuses
<1>18. CASE StoreStarts
  BY <1>18 DEF TypeOK, OpSound, Version, Bounds, StoreStarts
<1>19. CASE CreatesTmp
  BY <1>19 DEF TypeOK, OpSound, Version, Bounds, CreatesTmp, Saved
<1>20. CASE WritesTmp
  BY <1>20 DEF TypeOK, OpSound, Version, Bounds, WritesTmp
<1>21. CASE SyncsTmp
  <2>1. tmp' \in Version
    BY <1>21 DEF TypeOK, Version, SyncsTmp
  <2> QED  BY <1>21, <2>1 DEF TypeOK, OpSound, Version, Bounds, SyncsTmp
<1>22. CASE Renames
  BY <1>22 DEF TypeOK, OpSound, Version, Bounds, Renames, NoFile
<1>23. CASE StoreFails
  BY <1>23 DEF TypeOK, OpSound, Version, Bounds, StoreFails
<1>24. CASE StoreStamps
  BY <1>24 DEF TypeOK, OpSound, Version, Bounds, StoreStamps, Saved
<1>25. CASE \E kind \in {"good", "bad"} : Edits(kind)
  BY <1>25 DEF TypeOK, OpSound, Version, Bounds, Edits, Spend
<1>26. CASE Deletes
  <2>1. left' \in [DOMAIN Bounds -> Nat]
    BY <1>26 DEF TypeOK, Bounds, Deletes, Spend
  <2>2. file' \in Version /\ disk' \in Version
    BY <1>26 DEF Version, NoFile, Deletes
  <2>3. locked' \in BOOLEAN
    BY <1>26 DEF Deletes
  <2> QED  BY <1>26, <2>1, <2>2, <2>3 DEF TypeOK, OpSound, Version, Bounds, Deletes, Spend,
      NoFile, Missing
<1>27. CASE Locks
  BY <1>27 DEF TypeOK, OpSound, Version, Bounds, Locks, Spend
<1>28. CASE Unlocks
  <2>1. locked' \in BOOLEAN
    BY <1>28 DEF Unlocks
  <2> QED  BY <1>28, <2>1 DEF TypeOK, OpSound, Version, Bounds, Unlocks
<1>29. CASE Flushes
  BY <1>29 DEF TypeOK, OpSound, Version, Bounds, Flushes
<1>30. CASE TrayEnds
  BY <1>30 DEF TypeOK, OpSound, Version, Bounds, TrayEnds, Spend
<1>31. CASE PowerLoss
  <2>1. left' \in [DOMAIN Bounds -> Nat]
    BY <1>31 DEF TypeOK, Bounds, PowerLoss, Spend
  <2>2. locked' \in BOOLEAN
    BY <1>31 DEF PowerLoss
  <2> QED  BY <1>31, <2>1, <2>2 DEF TypeOK, OpSound, Version, Bounds, PowerLoss, Spend
<1>32. CASE UNCHANGED vars
  BY <1>32 DEF TypeOK, OpSound, Version, Bounds, vars
<1> QED  BY <1>1, <1>2, <1>3, <1>4, <1>5, <1>6, <1>7, <1>8, <1>9, <1>10, <1>11, <1>12, <1>13,
    <1>14, <1>15, <1>16, <1>17, <1>18, <1>19, <1>20, <1>21, <1>22, <1>23, <1>24, <1>25,
    <1>26, <1>27, <1>28, <1>29, <1>30, <1>31, <1>32 DEF Next, Works, Fails, World, Load,
    Check, Store

\* A step gives no number twice.
LEMMA NumberedStep ==
  TypeOK /\ Numbered /\ [Next]_vars => Numbered'
<1> SUFFICES ASSUME TypeOK /\ Numbered, [Next]_vars PROVE Numbered'
  OBVIOUS
<1> USE DEF files, config_file, tray
<1>1. CASE CreatesTmp
  BY <1>1 DEF TypeOK, Numbered, Version, CreatesTmp, Saved
<1>2. CASE Renames
  BY <1>2 DEF TypeOK, Numbered, Version, Renames, NoFile
<1>3. CASE StoreStamps
  BY <1>3 DEF TypeOK, Numbered, Version, StoreStamps, Saved
<1>4. CASE \E kind \in {"good", "bad"} : Edits(kind)
  BY <1>4 DEF TypeOK, Numbered, Version, Edits, Spend
<1>5. CASE Deletes
  BY <1>5 DEF TypeOK, Numbered, Version, Deletes, Spend, NoFile, Missing
<1>6. CASE PowerLoss
  BY <1>6 DEF TypeOK, Numbered, Version, PowerLoss, Spend
<1>7. CASE Start \/ LoadStamps \/ LoadFindsNone \/ LoadRefused \/ LoadParses \/ LoadFails \/
          Salvages \/ SalvageFails \/ Poll \/ (\E what \in {"save", "reset"} : Pick(what)) \/
          CheckStamp \/ CheckExists \/ CheckRestamps \/ Adopts \/ FindsInvalid \/ Resets \/
          StoreRefuses \/ StoreStarts \/ WritesTmp \/ SyncsTmp \/ StoreFails \/ Locks \/
          Unlocks \/ Flushes \/ TrayEnds \/ UNCHANGED vars
  BY <1>7 DEF TypeOK, Numbered, Version, Start, Missing, LoadStamps, LoadFindsNone, Loaded,
    LoadRefused, LoadParses, Parses, Readable, LoadFails, Salvages, SalvageFails, Poll,
    Begins, Pick, Spend, CheckStamp, Unchanged, CheckExists, CheckRestamps, Adopts,
    AfterRead, FindsInvalid, Resets, StoreRefuses, StoreStarts, WritesTmp, SyncsTmp,
    StoreFails, Locks, Unlocks, Flushes, TrayEnds, vars
<1> QED  BY <1>1, <1>2, <1>3, <1>4, <1>5, <1>6, <1>7 DEF Next, Works, Fails, World, Load,
    Check, Store

\* A step makes no hand edit but a new one.
LEMMA BasedStep ==
  TypeOK /\ Based /\ [Next]_vars => Based'
<1> SUFFICES ASSUME TypeOK /\ Based, [Next]_vars PROVE Based'
  OBVIOUS
<1> USE DEF files, config_file, tray
<1>1. CASE CreatesTmp
  BY <1>1 DEF TypeOK, Based, Version, CreatesTmp, Saved
<1>2. CASE WritesTmp \/ SyncsTmp
  BY <1>2 DEF TypeOK, Based, Version, WritesTmp, SyncsTmp
<1>3. CASE Renames
  BY <1>3 DEF TypeOK, Based, Version, Renames, NoFile
<1>4. CASE StoreStamps
  BY <1>4 DEF TypeOK, Based, Version, StoreStamps, Saved
<1>5. CASE \E kind \in {"good", "bad"} : Edits(kind)
  BY <1>5 DEF TypeOK, Based, Version, Edits, Spend
<1>6. CASE Deletes
  BY <1>6 DEF TypeOK, Based, Version, Deletes, Spend, NoFile, Missing
<1>7. CASE Flushes
  BY <1>7 DEF TypeOK, Based, Version, Flushes
<1>8. CASE PowerLoss
  BY <1>8 DEF TypeOK, Based, Version, PowerLoss, Spend
<1>9. CASE Start \/ LoadStamps \/ LoadFindsNone \/ LoadRefused \/ LoadParses \/ LoadFails \/
          Salvages \/ SalvageFails \/ Poll \/ (\E what \in {"save", "reset"} : Pick(what)) \/
          CheckStamp \/ CheckExists \/ CheckRestamps \/ Adopts \/ FindsInvalid \/ Resets \/
          StoreRefuses \/ StoreStarts \/ StoreFails \/ Locks \/ Unlocks \/ TrayEnds \/
          UNCHANGED vars
  BY <1>9 DEF TypeOK, Based, Version, Start, Missing, LoadStamps, LoadFindsNone, Loaded,
    LoadRefused, LoadParses, Parses, Readable, LoadFails, Salvages, SalvageFails, Poll,
    Begins, Pick, Spend, CheckStamp, Unchanged, CheckExists, CheckRestamps, Adopts,
    AfterRead, FindsInvalid, Resets, StoreRefuses, StoreStarts, StoreFails, Locks, Unlocks,
    TrayEnds, vars
<1> QED  BY <1>1, <1>2, <1>3, <1>4, <1>5, <1>6, <1>7, <1>8, <1>9 DEF Next, Works, Fails,
    World, Load, Check, Store

\* A step gives the name to nothing but whole, synced files.
LEMMA WholeStep ==
  TypeOK /\ OpSound /\ Whole /\ [Next]_vars => Whole'
<1> SUFFICES ASSUME TypeOK /\ OpSound /\ Whole, [Next]_vars PROVE Whole'
  OBVIOUS
<1> USE DEF files, config_file, tray
<1>1. CASE CreatesTmp
  BY <1>1 DEF TypeOK, OpSound, Whole, Version, CreatesTmp, Saved
<1>2. CASE WritesTmp
  BY <1>2 DEF TypeOK, OpSound, Whole, Version, WritesTmp
<1>3. CASE SyncsTmp
  BY <1>3 DEF TypeOK, OpSound, Whole, Version, SyncsTmp
<1>4. CASE Renames
  BY <1>4 DEF TypeOK, OpSound, Whole, Version, Renames, NoFile
<1>5. CASE \E kind \in {"good", "bad"} : Edits(kind)
  BY <1>5 DEF TypeOK, OpSound, Whole, Version, Edits, Spend
<1>6. CASE Deletes
  BY <1>6 DEF TypeOK, OpSound, Whole, Version, Deletes, Spend, NoFile, Missing
<1>7. CASE Flushes
  BY <1>7 DEF TypeOK, OpSound, Whole, Version, Flushes
<1>8. CASE PowerLoss
  BY <1>8 DEF TypeOK, OpSound, Whole, Version, PowerLoss, Spend
<1>9. CASE Start \/ LoadStamps \/ LoadFindsNone \/ LoadRefused \/ LoadParses \/ LoadFails \/
          Salvages \/ SalvageFails \/ Poll \/ (\E what \in {"save", "reset"} : Pick(what)) \/
          CheckStamp \/ CheckExists \/ CheckRestamps \/ Adopts \/ FindsInvalid \/ Resets \/
          StoreRefuses \/ StoreStarts \/ StoreFails \/ StoreStamps \/ Locks \/ Unlocks \/
          TrayEnds \/ UNCHANGED vars
  BY <1>9 DEF TypeOK, OpSound, Whole, Version, Start, Missing, LoadStamps, LoadFindsNone,
    Loaded, LoadRefused, LoadParses, Parses, Readable, LoadFails, Salvages, SalvageFails,
    Poll, Begins, Pick, Spend, CheckStamp, Unchanged, CheckExists, CheckRestamps, Adopts,
    AfterRead, FindsInvalid, Resets, StoreRefuses, StoreStarts, StoreFails, StoreStamps,
    Saved, Locks, Unlocks, TrayEnds, vars
<1> QED  BY <1>1, <1>2, <1>3, <1>4, <1>5, <1>6, <1>7, <1>8, <1>9 DEF Next, Works, Fails,
    World, Load, Check, Store

\* A step writes what was to be saved.
LEMMA SavingStep ==
  TypeOK /\ OpSound /\ Whole /\ Saving /\ [Next]_vars => Saving'
<1> SUFFICES ASSUME TypeOK /\ OpSound /\ Whole /\ Saving, [Next]_vars PROVE Saving'
  OBVIOUS
<1> USE DEF files, config_file, tray
<1>1. CASE Salvages
  BY <1>1 DEF TypeOK, OpSound, Whole, Saving, Writing, Version, Missing, Parses, Saved,
    Salvages, Loaded, Readable
<1>2. CASE SalvageFails
  BY <1>2 DEF TypeOK, OpSound, Whole, Saving, Writing, Version, Missing, Parses, Saved,
    SalvageFails, Loaded
<1>3. CASE CheckStamp
  BY <1>3 DEF TypeOK, OpSound, Whole, Saving, Writing, Version, Missing, Parses, Saved,
    CheckStamp, Unchanged
<1>4. CASE CheckExists
  BY <1>4 DEF TypeOK, OpSound, Whole, Saving, Writing, Version, Missing, Parses, Saved,
    CheckExists, Unchanged
<1>5. CASE Resets
  BY <1>5 DEF TypeOK, OpSound, Whole, Saving, Writing, Version, Missing, Parses, Saved, Resets
<1>6. CASE StoreStarts
  BY <1>6 DEF TypeOK, OpSound, Whole, Saving, Writing, Version, Missing, Parses, Saved,
    StoreStarts
<1>7. CASE CreatesTmp
  BY <1>7 DEF TypeOK, OpSound, Whole, Saving, Writing, Version, Missing, Parses, Saved,
    CreatesTmp
<1>8. CASE WritesTmp
  BY <1>8 DEF TypeOK, OpSound, Whole, Saving, Writing, Version, Missing, Parses, Saved,
    WritesTmp
<1>9. CASE SyncsTmp
  BY <1>9 DEF TypeOK, OpSound, Whole, Saving, Writing, Version, Missing, Parses, Saved,
    SyncsTmp
<1>10. CASE Renames
  BY <1>10 DEF TypeOK, OpSound, Whole, Saving, Writing, Version, Missing, Parses, Saved,
    Renames, NoFile
<1>11. CASE StoreFails
  BY <1>11 DEF TypeOK, OpSound, Whole, Saving, Writing, Version, Missing, Parses, Saved,
    StoreFails
<1>12. CASE StoreStamps
  BY <1>12 DEF TypeOK, OpSound, Whole, Saving, Writing, Version, Missing, Parses, Saved,
    StoreStamps
<1>13. CASE \E kind \in {"good", "bad"} : Edits(kind)
  BY <1>13 DEF TypeOK, OpSound, Whole, Saving, Writing, Version, Missing, Parses, Saved,
    Edits, Spend
<1>14. CASE Deletes
  BY <1>14 DEF TypeOK, OpSound, Whole, Saving, Writing, Version, Missing, Parses, Saved,
    Deletes, Spend, NoFile
<1>15. CASE PowerLoss
  BY <1>15 DEF TypeOK, OpSound, Whole, Saving, Writing, Version, Missing, Parses, Saved,
    PowerLoss, Spend
<1>16. CASE Start \/ LoadStamps \/ LoadFindsNone \/ LoadRefused \/ LoadParses \/ LoadFails \/
          Poll \/ (\E what \in {"save", "reset"} : Pick(what)) \/ CheckRestamps \/ Adopts \/
          FindsInvalid \/ StoreRefuses \/ Locks \/ Unlocks \/ Flushes \/ TrayEnds \/
          UNCHANGED vars
  BY <1>16 DEF TypeOK, OpSound, Whole, Saving, Writing, Version, Missing, Parses, Saved,
    Start, LoadStamps, LoadFindsNone, Loaded, LoadRefused, LoadParses, Readable, LoadFails,
    Poll, Begins, Pick, Spend, CheckRestamps, Adopts, AfterRead, FindsInvalid, StoreRefuses,
    Locks, Unlocks, Flushes, TrayEnds, vars
<1> QED  BY <1>1, <1>2, <1>3, <1>4, <1>5, <1>6, <1>7, <1>8, <1>9, <1>10, <1>11, <1>12, <1>13,
    <1>14, <1>15, <1>16 DEF Next, Works, Fails, World, Load, Check, Store

\* A step leaves no file unknown whose stamp is held.
LEMMA KnownStep ==
  TypeOK /\ OpSound /\ Numbered /\ Saving /\ Known /\ [Next]_vars => Known'
<1> SUFFICES ASSUME TypeOK /\ OpSound /\ Numbered /\ Saving /\ Known, [Next]_vars PROVE Known'
  OBVIOUS
<1> USE DEF files, config_file, tray
<1>1. CASE LoadFindsNone
  BY <1>1 DEF TypeOK, OpSound, Numbered, Saving, Known, Writing, Version, Missing, Parses,
    Saved, LoadFindsNone, Loaded
<1>2. CASE LoadRefused
  BY <1>2 DEF TypeOK, OpSound, Numbered, Saving, Known, Writing, Version, Missing, Parses,
    Saved, LoadRefused, Loaded
<1>3. CASE LoadParses
  BY <1>3 DEF TypeOK, OpSound, Numbered, Saving, Known, Writing, Version, Missing, Parses,
    Saved, LoadParses, Loaded, Readable
<1>4. CASE LoadFails
  BY <1>4 DEF TypeOK, OpSound, Numbered, Saving, Known, Writing, Version, Missing, Parses,
    Saved, LoadFails
<1>5. CASE Salvages
  BY <1>5 DEF TypeOK, OpSound, Numbered, Saving, Known, Writing, Version, Missing, Parses,
    Saved, Salvages, Loaded, Readable
<1>6. CASE SalvageFails
  BY <1>6 DEF TypeOK, OpSound, Numbered, Saving, Known, Writing, Version, Missing, Parses,
    Saved, SalvageFails, Loaded
<1>7. CASE CheckExists
  BY <1>7 DEF TypeOK, OpSound, Numbered, Saving, Known, Writing, Version, Missing, Parses,
    Saved, CheckExists, Unchanged
<1>8. CASE Adopts
  BY <1>8 DEF TypeOK, OpSound, Numbered, Saving, Known, Writing, Version, Missing, Parses,
    Saved, Adopts, AfterRead, Readable
<1>9. CASE Resets
  BY <1>9 DEF TypeOK, OpSound, Numbered, Saving, Known, Writing, Version, Missing, Parses,
    Saved, Resets
<1>10. CASE StoreFails
  BY <1>10 DEF TypeOK, OpSound, Numbered, Saving, Known, Writing, Version, Missing, Parses,
    Saved, StoreFails
<1>11. CASE StoreStamps
  BY <1>11 DEF TypeOK, OpSound, Numbered, Saving, Known, Writing, Version, Missing, Parses,
    Saved, StoreStamps
<1>12. CASE \E kind \in {"good", "bad"} : Edits(kind)
  BY <1>12 DEF TypeOK, OpSound, Numbered, Saving, Known, Writing, Version, Missing, Parses,
    Saved, Edits, Spend
<1>13. CASE Deletes
  BY <1>13 DEF TypeOK, OpSound, Numbered, Saving, Known, Writing, Version, Missing, Parses,
    Saved, Deletes, Spend, NoFile
<1>14. CASE PowerLoss
  BY <1>14 DEF TypeOK, OpSound, Numbered, Saving, Known, Writing, Version, Missing, Parses,
    Saved, PowerLoss, Spend
<1>15. CASE Start \/ LoadStamps \/ Poll \/ (\E what \in {"save", "reset"} : Pick(what)) \/
          CheckStamp \/ CheckRestamps \/ FindsInvalid \/ StoreRefuses \/ StoreStarts \/
          CreatesTmp \/ WritesTmp \/ SyncsTmp \/ Renames \/ Locks \/ Unlocks \/ Flushes \/
          TrayEnds \/ UNCHANGED vars
  BY <1>15 DEF TypeOK, OpSound, Numbered, Saving, Known, Writing, Version, Missing, Parses,
    Saved, Start, LoadStamps, Poll, Begins, Pick, Spend, CheckStamp, Unchanged,
    CheckRestamps, FindsInvalid, AfterRead, StoreRefuses, StoreStarts, CreatesTmp, WritesTmp,
    SyncsTmp, Renames, NoFile, Locks, Unlocks, Flushes, TrayEnds, vars
<1> QED  BY <1>1, <1>2, <1>3, <1>4, <1>5, <1>6, <1>7, <1>8, <1>9, <1>10, <1>11, <1>12, <1>13,
    <1>14, <1>15 DEF Next, Works, Fails, World, Load, Check, Store

\* A step saves over nothing that was there when the save began, unless it was seen.
LEMMA CheckedStep ==
  TypeOK /\ OpSound /\ Numbered /\ Checked /\ [Next]_vars => Checked'
<1> SUFFICES ASSUME TypeOK /\ OpSound /\ Numbered /\ Checked, [Next]_vars PROVE Checked'
  OBVIOUS
<1> USE DEF files, config_file, tray
<1>1. CASE Salvages
  BY <1>1 DEF TypeOK, OpSound, Numbered, Checked, Writing, Version, Missing, Salvages,
    Loaded, Readable
<1>2. CASE CheckStamp
  BY <1>2 DEF TypeOK, OpSound, Numbered, Checked, Writing, Version, Missing, CheckStamp,
    Unchanged
<1>3. CASE CheckExists
  BY <1>3 DEF TypeOK, OpSound, Numbered, Checked, Writing, Version, Missing, CheckExists,
    Unchanged
<1>4. CASE Resets
  BY <1>4 DEF TypeOK, OpSound, Numbered, Checked, Writing, Version, Missing, Resets
<1>5. CASE StoreStarts
  BY <1>5 DEF TypeOK, OpSound, Numbered, Checked, Writing, Version, Missing, StoreStarts
<1>6. CASE Renames
  BY <1>6 DEF TypeOK, OpSound, Numbered, Checked, Writing, Version, Missing, Renames, NoFile
<1>7. CASE \E kind \in {"good", "bad"} : Edits(kind)
  BY <1>7 DEF TypeOK, OpSound, Numbered, Checked, Writing, Version, Missing, Edits, Spend
<1>8. CASE Deletes
  BY <1>8 DEF TypeOK, OpSound, Numbered, Checked, Writing, Version, Missing, Deletes, Spend,
    NoFile
<1>9. CASE PowerLoss
  BY <1>9 DEF TypeOK, OpSound, Numbered, Checked, Writing, Version, Missing, PowerLoss, Spend
<1>10. CASE Start \/ LoadStamps \/ LoadFindsNone \/ LoadRefused \/ LoadParses \/ LoadFails \/
          SalvageFails \/ Poll \/ (\E what \in {"save", "reset"} : Pick(what)) \/
          CheckRestamps \/ Adopts \/ FindsInvalid \/ StoreRefuses \/ CreatesTmp \/ WritesTmp
          \/ SyncsTmp \/ StoreFails \/ StoreStamps \/ Locks \/ Unlocks \/ Flushes \/ TrayEnds
          \/ UNCHANGED vars
  BY <1>10 DEF TypeOK, OpSound, Numbered, Checked, Writing, Version, Missing, Start,
    LoadStamps, LoadFindsNone, Loaded, LoadRefused, LoadParses, Parses, Readable, LoadFails,
    SalvageFails, Poll, Begins, Pick, Spend, CheckRestamps, Adopts, AfterRead, FindsInvalid,
    StoreRefuses, CreatesTmp, Saved, WritesTmp, SyncsTmp, StoreFails, StoreStamps, Locks,
    Unlocks, Flushes, TrayEnds, vars
<1> QED  BY <1>1, <1>2, <1>3, <1>4, <1>5, <1>6, <1>7, <1>8, <1>9, <1>10 DEF Next, Works,
    Fails, World, Load, Check, Store

\* A step leaves no broken file that is neither copied nor known not to be.
LEMMA CopiedStep ==
  TypeOK /\ OpSound /\ Numbered /\ Saving /\ Copied /\ [Next]_vars => Copied'
<1> SUFFICES ASSUME TypeOK /\ OpSound /\ Numbered /\ Saving /\ Copied, [Next]_vars PROVE Copied'
  OBVIOUS
<1> USE DEF files, config_file, tray
<1>1. CASE LoadFindsNone
  BY <1>1 DEF TypeOK, OpSound, Numbered, Saving, Copied, Writing, Version, Missing, Parses,
    Saved, LoadFindsNone, Loaded
<1>2. CASE LoadRefused
  BY <1>2 DEF TypeOK, OpSound, Numbered, Saving, Copied, Writing, Version, Missing, Parses,
    Saved, LoadRefused, Loaded
<1>3. CASE LoadParses
  BY <1>3 DEF TypeOK, OpSound, Numbered, Saving, Copied, Writing, Version, Missing, Parses,
    Saved, LoadParses, Loaded, Readable
<1>4. CASE LoadFails
  BY <1>4 DEF TypeOK, OpSound, Numbered, Saving, Copied, Writing, Version, Missing, Parses,
    Saved, LoadFails
<1>5. CASE Salvages
  BY <1>5 DEF TypeOK, OpSound, Numbered, Saving, Copied, Writing, Version, Missing, Parses,
    Saved, Salvages, Loaded, Readable
<1>6. CASE SalvageFails
  BY <1>6 DEF TypeOK, OpSound, Numbered, Saving, Copied, Writing, Version, Missing, Parses,
    Saved, SalvageFails, Loaded
<1>7. CASE CheckExists
  BY <1>7 DEF TypeOK, OpSound, Numbered, Saving, Copied, Writing, Version, Missing, Parses,
    Saved, CheckExists, Unchanged
<1>8. CASE Adopts
  BY <1>8 DEF TypeOK, OpSound, Numbered, Saving, Copied, Writing, Version, Missing, Parses,
    Saved, Adopts, AfterRead, Readable
<1>9. CASE Resets
  BY <1>9 DEF TypeOK, OpSound, Numbered, Saving, Copied, Writing, Version, Missing, Parses,
    Saved, Resets
<1>10. CASE StoreFails
  BY <1>10 DEF TypeOK, OpSound, Numbered, Saving, Copied, Writing, Version, Missing, Parses,
    Saved, StoreFails
<1>11. CASE StoreStamps
  BY <1>11 DEF TypeOK, OpSound, Numbered, Saving, Copied, Writing, Version, Missing, Parses,
    Saved, StoreStamps
<1>12. CASE \E kind \in {"good", "bad"} : Edits(kind)
  BY <1>12 DEF TypeOK, OpSound, Numbered, Saving, Copied, Writing, Version, Missing, Parses,
    Saved, Edits, Spend
<1>13. CASE Deletes
  BY <1>13 DEF TypeOK, OpSound, Numbered, Saving, Copied, Writing, Version, Missing, Parses,
    Saved, Deletes, Spend, NoFile
<1>14. CASE PowerLoss
  BY <1>14 DEF TypeOK, OpSound, Numbered, Saving, Copied, Writing, Version, Missing, Parses,
    Saved, PowerLoss, Spend
<1>15. CASE Start \/ LoadStamps \/ Poll \/ (\E what \in {"save", "reset"} : Pick(what)) \/
          CheckStamp \/ CheckRestamps \/ FindsInvalid \/ StoreRefuses \/ StoreStarts \/
          CreatesTmp \/ WritesTmp \/ SyncsTmp \/ Renames \/ Locks \/ Unlocks \/ Flushes \/
          TrayEnds \/ UNCHANGED vars
  BY <1>15 DEF TypeOK, OpSound, Numbered, Saving, Copied, Writing, Version, Missing, Parses,
    Saved, Start, LoadStamps, Poll, Begins, Pick, Spend, CheckStamp, Unchanged,
    CheckRestamps, FindsInvalid, AfterRead, StoreRefuses, StoreStarts, CreatesTmp, WritesTmp,
    SyncsTmp, Renames, NoFile, Locks, Unlocks, Flushes, TrayEnds, vars
<1> QED  BY <1>1, <1>2, <1>3, <1>4, <1>5, <1>6, <1>7, <1>8, <1>9, <1>10, <1>11, <1>12, <1>13,
    <1>14, <1>15 DEF Next, Works, Fails, World, Load, Check, Store

-----------------------------------------------------------------------------
\* The invariant all of them make up, and each needs of the others.
THEOREM Inductive == Spec => []IInv
<1>1. Init => IInv
  <2> SUFFICES ASSUME Init PROVE IInv
    OBVIOUS
  <2> PICK k \in {"none", "good", "bad"}, n \in {0, 1} :
        file = [n |-> n, kind |-> k, base |-> n, synced |-> TRUE]
    BY DEF Init, NoFile
  <2>1. file \in Version /\ file.synced = TRUE /\ file.n <= 1 /\ file.kind # "torn"
    BY DEF Version
  <2>2. tmp \in Version /\ tmp.n = 0
    BY DEF Init, Version, NoFile
  <2>3. left \in [DOMAIN Bounds -> Nat]
    BY ConfigAssumption DEF Init, Bounds
  <2>4. TypeOK
    <3>1. locked \in BOOLEAN /\ first_run \in BOOLEAN
      BY DEF Init
    <3>2. persist_blocked \in BOOLEAN /\ corrupt \in BOOLEAN
      BY DEF Init
    <3>3. loads \in 0 .. MaxLoads
      BY ConfigAssumption DEF Init
    <3> QED  BY <2>1, <2>2, <2>3, <3>1, <3>2, <3>3 DEF Init, TypeOK
  <2>5. Numbered /\ Whole /\ Based
    BY <2>1, <2>2 DEF Init, Numbered, Whole, Based, NoFile
  <2> QED
    BY <2>4, <2>5 DEF Init, IInv, OpSound, Saving, Known, Checked, Copied, Writing
<1>2. IInv /\ [Next]_vars => IInv'
  BY TypedStep, NumberedStep, BasedStep, WholeStep, SavingStep, KnownStep, CheckedStep, CopiedStep
     DEF IInv
<1> QED  BY <1>1, <1>2, PTL DEF Spec

\* Every variable keeps its type, for any number of edits, crashes and loads; no startup
\* loads more often than main allows.
THEOREM TypeCorrect == Spec => []TypeOK
<1>1. IInv => TypeOK
  BY DEF IInv
<1> QED  BY <1>1, Inductive, PTL

\* No save takes the file back behind a hand edit that it found.
THEOREM SavesKeepEditsHolds == Spec => SavesKeepEdits
<1>1. IInv /\ [Next]_vars
        => [Replaces("save") /\ file.n = began /\ file.n # absorbed
              => Missing \/ (Parses /\ tmp.base = file.base)]_vars
  <2> SUFFICES ASSUME IInv, Replaces("save"), file.n = began, file.n # absorbed
               PROVE Missing \/ (Parses /\ tmp.base = file.base)
    OBVIOUS
  <2>1. CASE Missing
    BY <2>1
  <2>2. CASE ~Missing
    <3>1. Writing /\ pc = "rename" /\ op = "save"
      BY DEF Replaces, Writing
    <3>2. file.n = stamp
      BY <2>2, <3>1 DEF IInv, Checked
    <3>3. Parses /\ memory = file.base
      BY <2>2, <3>1, <3>2 DEF IInv, Known, Saving
    <3>4. tmp.base = memory
      BY <3>1 DEF IInv, Saving, Saved
    <3> QED  BY <3>3, <3>4
  <2> QED  BY <2>1, <2>2
<1> QED  BY <1>1, Inductive, PTL DEF Spec, SavesKeepEdits

\* No reset replaces the broken file it knows without a copy.
THEOREM ResetsWhatWasCopiedHolds == Spec => ResetsWhatWasCopied
<1>1. IInv /\ [Next]_vars
        => [Replaces("reset") /\ file.kind = "bad" /\ file.n = stamp /\ file.n # absorbed
              => file.n \in copies]_vars
  <2> SUFFICES ASSUME IInv, Replaces("reset"), file.kind = "bad", file.n = stamp,
                      file.n # absorbed
               PROVE file.n \in copies
    OBVIOUS
  <2>1. pc = "rename" /\ persist_blocked = FALSE
    BY DEF Replaces, IInv, Saving, Writing
  <2> QED  BY <2>1 DEF IInv, Copied
<1> QED  BY <1>1, Inductive, PTL DEF Spec, ResetsWhatWasCopied

-----------------------------------------------------------------------------
(* ConfigFile implements SettingsFile: each file-system call is a step of the one value or  *)
(* changes nothing of it.                                                                   *)

SeesTheSame == UNCHANGED <<file, disk, memory>>

LEMMA Unseen ==
  ASSUME SeesTheSame
  PROVE  UNCHANGED Settings!vars
BY DEF SeesTheSame, Settings!vars, Content

\* A load: the defaults, or the whole file at the path.
LEMMA LoadReads ==
  ASSUME Start \/ Load
  PROVE  Settings!Reads \/ Settings!TakesDefaults \/ SeesTheSame
<1> USE DEF files, config_file, tray, SeesTheSame, Content
<1>1. CASE LoadParses
  BY <1>1 DEF LoadParses, Parses, Settings!Reads
<1>2. CASE Start \/ LoadFindsNone \/ LoadRefused \/ LoadFails
  BY <1>2 DEF Start, LoadFindsNone, LoadRefused, LoadFails, Settings!TakesDefaults
<1>3. CASE LoadStamps
  BY <1>3 DEF LoadStamps
<1> QED
  BY <1>1, <1>2, <1>3 DEF Load

\* A check for hand edits, a reset and whatever fails: an edit adopted, or nothing.
LEMMA CheckReads ==
  ASSUME Check \/ Salvages \/ Resets \/ Fails \/ Poll \/ \E what \in {"save", "reset"} : Pick(what)
  PROVE  Settings!Reads \/ SeesTheSame
<1> USE DEF files, config_file, tray, SeesTheSame, Content
<1>1. CASE Adopts
  BY <1>1 DEF Adopts, Parses, Settings!Reads
<1>2. CASE CheckStamp \/ CheckExists \/ CheckRestamps \/ FindsInvalid
  BY <1>2 DEF CheckStamp, CheckExists, CheckRestamps, FindsInvalid
<1>3. CASE Salvages \/ Resets \/ Fails
  BY <1>3 DEF Salvages, Resets, Fails, SalvageFails, StoreFails
<1>4. CASE Poll \/ \E what \in {"save", "reset"} : Pick(what)
  BY <1>4 DEF Poll, Pick, Begins
<1> QED
  BY <1>1, <1>2, <1>3, <1>4 DEF Check

\* A save is seen at its rename alone, and after a reset the tray holds the defaults.
LEMMA StoreSaves ==
  ASSUME IInv, Store
  PROVE  Settings!Saves \/ Settings!TakesDefaults \/ SeesTheSame
<1> USE DEF files, config_file, tray, SeesTheSame, Content
<1>1. CASE Renames
  <2>1. tmp.kind = "good" /\ tmp.base \in {memory, 0}
    BY <1>1 DEF Renames, IInv, Whole, Saving, Saved
  <2>2. file' = tmp /\ UNCHANGED <<disk, memory>>
    BY <1>1 DEF Renames
  <2> QED
    BY <2>1, <2>2 DEF Settings!Saves, Settings!Holding
<1>2. CASE StoreStamps
  <2>1. memory' \in {memory, 0} /\ UNCHANGED <<file, disk>>
    BY <1>2 DEF StoreStamps, Saved
  <2> QED
    BY <2>1 DEF Settings!TakesDefaults
<1>3. CASE StoreRefuses \/ StoreStarts \/ CreatesTmp \/ WritesTmp \/ SyncsTmp
  BY <1>3 DEF StoreRefuses, StoreStarts, CreatesTmp, WritesTmp, SyncsTmp
<1> QED
  BY <1>1, <1>2, <1>3 DEF Store

\* A hand edit is whole and news; what a power loss brings back was whole when it was flushed.
LEMMA WorldMoves ==
  ASSUME IInv, World
  PROVE  \/ Settings!Edits \/ Settings!Deletes \/ Settings!BecomesLasting
         \/ Settings!PowerFails \/ SeesTheSame
<1> USE DEF files, config_file, tray, SeesTheSame, Content
<1>1. ASSUME NEW kind \in {"good", "bad"}, Edits(kind)
      PROVE  Settings!Edits
  <2>1. last + 1 \in Nat /\ last + 1 # 0 /\ last + 1 # memory
    BY DEF IInv, TypeOK, Based
  <2>2. /\ file' = [n |-> last + 1, kind |-> kind, base |-> last + 1, synced |-> TRUE]
        /\ disk' = file' /\ memory' = memory
    BY <1>1 DEF Edits
  <2> QED
    BY <2>1, <2>2 DEF Settings!Edits, Settings!Content
<1>2. CASE Deletes
  BY <1>2 DEF Deletes, NoFile, Settings!Deletes, Settings!NoFile
<1>3. CASE Flushes
  BY <1>3 DEF Flushes, IInv, Whole, Settings!BecomesLasting
<1>4. CASE PowerLoss
  BY <1>4 DEF PowerLoss, Settings!PowerFails
<1>5. CASE Locks \/ Unlocks \/ TrayEnds
  BY <1>5 DEF Locks, Unlocks, TrayEnds
<1> QED
  BY <1>1, <1>2, <1>3, <1>4, <1>5 DEF World

\* Whatever crashes, fails or is edited between two file-system calls, the settings file is
\* one value: replaced at once by what memory holds or by the defaults, never seen or left by
\* a power loss in part, and read in one piece.
THEOREM OneValueHolds == Spec => OneValue
<1>1. Init => Settings!Init
  <2> SUFFICES ASSUME Init PROVE Settings!Init
    OBVIOUS
  <2> PICK k \in {"none", "good", "bad"}, n \in {0, 1} :
        /\ file = [n |-> n, kind |-> k, base |-> n, synced |-> TRUE]
        /\ k = "none" <=> n = 0
    BY DEF Init, NoFile
  <2>1. Content(file) = [kind |-> k, base |-> n] /\ Content(disk) = Content(file)
    BY DEF Init, Content
  <2> QED
    BY <2>1 DEF Init, Settings!Init, Settings!Content, Settings!NoFile
<1>2. IInv /\ [Next]_vars => [Settings!Next]_(Settings!vars)
  <2>1. ASSUME UNCHANGED vars PROVE SeesTheSame
    BY <2>1 DEF vars, files, tray, SeesTheSame
  <2> QED
    BY <2>1, Unseen, LoadReads, CheckReads, StoreSaves, WorldMoves DEF Next, Works, Settings!Next
<1> QED
  BY <1>1, <1>2, Inductive, PTL DEF Spec, OneValue, Settings!Spec
===============================================================================
