------------------------------ MODULE TrayProofs ------------------------------
(* What Tray guarantees for every value of its constants. *)
EXTENDS TrayTypeProofs

-----------------------------------------------------------------------------
(* An apply on its way to the device was asked for by the user, or decided on while the   *)
(* config was applied; nothing that changes the mode comes between that and the writes.   *)

ApplyAllowed == pc = "apply" => job.from \in {"menu", "click"} \/ ModeNow = "Apply"

LEMMA AfterApplyLeaves ==
  ASSUME NEW from
  PROVE  AfterApply(from) # "apply"
BY DEF AfterApply

LEMMA AfterReconcileLeaves ==
  ASSUME NEW from
  PROVE  AfterReconcile(from) # "apply"
BY DEF AfterReconcile

LEMMA ApplyAllowedInit == Init => ApplyAllowed
BY DEF Init, ApplyAllowed

LEMMA ApplyLeaves ==
  ASSUME NEW ws, NEW z, NEW bus, Apply(ws, z, bus)
  PROVE  /\ pc' # "apply"
         /\ wrote' = "config" => pc = "apply" /\ job.from \notin {"menu", "click"}
<1>1. ASSUME NEW err, ApplyReturns(err) PROVE pc' # "apply"
  BY <1>1, AfterApplyLeaves DEF ApplyReturns
<1> QED
  BY <1>1 DEF Apply

\* A step of the loop that is not an apply leaves for another phase, or for an allowed one.
LEMMA LoopKeepsApplyAllowed ==
  ASSUME ApplyAllowed, Loop
  PROVE  ApplyAllowed'
<1>1. CASE Start
  BY <1>1 DEF Start, Boot, ApplyAllowed
<1>2. CASE ResyncDue \/ ResyncNotDue
  BY <1>2 DEF ResyncDue, ResyncNotDue, Skip, ApplyAllowed
<1>3. CASE SyncProbe
  BY <1>3 DEF SyncProbe, DivergedProbe, ProbeEnds, ProbeStays, ApplyAllowed
<1>4. CASE SyncApply
  BY <1>4 DEF SyncApply, Probes, ApplyAllowed, ModeNow, memory, power
<1>5. CASE ApplyDeferred
  BY <1>5, AfterApplyLeaves DEF ApplyDeferred, ApplyAllowed
<1>6. CASE ApplyDone
  BY <1>6, ApplyLeaves DEF ApplyDone, ApplyAllowed
<1>7. CASE ApplyBusFails \/ ApplyRejected
  BY <1>7, ApplyLeaves DEF ApplyBusFails, ApplyRejected, ApplyAllowed
<1>8. CASE ReconcileReads \/ ReconcileFails \/ ReconcileReasserts
  <2>1. ASSUME ReconcileReturns PROVE pc' # "apply"
    BY <2>1, AfterReconcileLeaves DEF ReconcileReturns
  <2> QED
    BY <1>8, <2>1 DEF ReconcileReads, ReconcileFails, ReconcileReasserts, ApplyAllowed
<1>9. CASE MenuDone \/ Hover \/ NoClick \/ PowerPoll
  BY <1>9 DEF MenuDone, Hover, NoClick, PowerPoll, Skip, ApplyAllowed
<1>10. CASE ConfigReload \/ ConfigNotDue \/ Scan \/ ScanNotDue
  BY <1>10 DEF ConfigReload, ConfigNotDue, Scan, ScanNotDue, Skip, ApplyAllowed
<1>11. CASE Converge
  BY <1>11 DEF Converge, Off, ApplyAllowed, ModeNow, memory, power
<1>12. CASE WakeCheck \/ WakeDone \/ MirrorNotDue
  BY <1>12 DEF WakeCheck, WakeDone, MirrorNotDue, Skip, ApplyAllowed
<1>13. CASE MirrorReads \/ MirrorReasserts \/ MirrorFindsDiverged \/ MirrorFails
  BY <1>13 DEF MirrorReads, MirrorReasserts, MirrorFindsDiverged, MirrorFails, ApplyAllowed
<1> QED
  BY <1>1, <1>2, <1>3, <1>4, <1>5, <1>6, <1>7, <1>8, <1>9, <1>10, <1>11, <1>12, <1>13
     DEF Loop

LEMMA OthersKeepApplyAllowed ==
  ASSUME ApplyAllowed, User \/ World \/ UNCHANGED vars
  PROVE  ApplyAllowed'
<1>1. CASE User
  BY <1>1 DEF User, MenuPick, Update, ToggleEnforce, ResetConfig, Click, NoJob, ApplyAllowed
<1>2. ASSUME Unmoved PROVE ApplyAllowed'
  BY <1>2 DEF Unmoved, memory, power, ApplyAllowed, ModeNow
<1>3. CASE External \/ ExternalDies \/ Plug \/ Tell \/ ProcessComesOrGoes \/ EditProfile
             \/ EditRules \/ EditBreaks
  BY <1>2, <1>3 DEF External, ExternalDies, Plug, Tell, ProcessComesOrGoes, EditProfile,
                    EditRules, EditBreaks
<1>4. CASE WakeArrives \/ SettleOver \/ Crash
  BY <1>4 DEF WakeArrives, SettleOver, Crash, ApplyAllowed
<1>5. CASE UNCHANGED vars
  BY <1>5 DEF vars, memory, power, ApplyAllowed, ModeNow
<1> QED
  BY <1>1, <1>3, <1>4, <1>5 DEF World

\* Only an apply and the two re-asserts write what the config says.
LEMMA WritersOfTheConfig ==
  ASSUME Next, wrote' = "config"
  PROVE  ApplyDone \/ ApplyBusFails \/ ApplyRejected \/ ReconcileReasserts \/ MirrorReasserts
<1>1. CASE Loop
  <2>1. ASSUME Start \/ ResyncDue \/ ResyncNotDue \/ SyncProbe \/ SyncApply \/ ApplyDeferred
               \/ ReconcileReads \/ ReconcileFails \/ MenuDone \/ Hover \/ NoClick
        PROVE  wrote' = "none"
    BY <2>1 DEF Start, ResyncDue, ResyncNotDue, SyncProbe, SyncApply, ApplyDeferred,
                ReconcileReads, ReconcileFails, MenuDone, Hover, NoClick, Skip
  <2>2. ASSUME PowerPoll \/ ConfigReload \/ ConfigNotDue \/ Scan \/ ScanNotDue \/ Converge
               \/ WakeCheck \/ WakeDone \/ MirrorReads \/ MirrorFindsDiverged \/ MirrorFails
               \/ MirrorNotDue
        PROVE  wrote' = "none"
    BY <2>2 DEF PowerPoll, ConfigReload, ConfigNotDue, Scan, ScanNotDue, Converge, WakeCheck,
                WakeDone, MirrorReads, MirrorFindsDiverged, MirrorFails, MirrorNotDue, Skip
  <2> QED
    BY <1>1, <2>1, <2>2 DEF Loop
<1>2. CASE User
  BY <1>2 DEF User, MenuPick, ToggleEnforce, ResetConfig, Click
<1>3. CASE World
  BY <1>3 DEF World, External, ExternalDies, Plug, Tell, ProcessComesOrGoes, EditProfile,
              EditRules, EditBreaks, WakeArrives, SettleOver, Crash, Unmoved
<1> QED
  BY <1>1, <1>2, <1>3 DEF Next

LEMMA ConfigWriters ==
  ASSUME ApplyAllowed, Next, wrote' = "config"
  PROVE  ModeNow = "Apply"
<1>1. CASE ApplyDone \/ ApplyBusFails \/ ApplyRejected
  BY <1>1, ApplyLeaves DEF ApplyDone, ApplyBusFails, ApplyRejected, ApplyAllowed
<1>2. CASE ReconcileReasserts \/ MirrorReasserts
  BY <1>2 DEF ReconcileReasserts, MayReassert, MirrorReasserts, MirrorEnforces
<1> QED
  BY <1>1, <1>2, WritersOfTheConfig

LEMMA ApplyAllowedInvariant == Spec => []ApplyAllowed
<1>1. ApplyAllowed /\ [Next]_vars => ApplyAllowed'
  BY LoopKeepsApplyAllowed, OthersKeepApplyAllowed DEF Next
<1> QED
  BY <1>1, ApplyAllowedInit, PTL DEF Spec

\* Whatever the laptop, the rules, the config and the order of events: settings from the
\* config reach the device only while the config is applied (ProgramState::mode).
THEOREM ConfigWritesOnlyWhenAppliedHolds == Spec => ConfigWritesOnlyWhenApplied
<1>1. ApplyAllowed /\ [Next]_vars => [wrote' = "config" => ModeNow = "Apply"]_vars
  BY ConfigWriters
<1> QED
  BY <1>1, ApplyAllowedInvariant, PTL DEF Spec, ConfigWritesOnlyWhenApplied

-----------------------------------------------------------------------------
(* What memory holds is on disk.  The file round-trips a config only when each of its      *)
(* profiles is normalized already, and unset ones hold the placeholder: Holdable, which     *)
(* every operation on the config keeps, is what makes MemoryIsSaved inductive.              *)

Holdable(c) ==
  \A s \in Source : /\ normalized(c.profile[s]) = c.profile[s]
                    /\ s \in c.unset => c.profile[s] = Placeholder[s]

OnDisk == health = "Usable" /\ ~edited => config = InMemory(disk.config)

LEMMA HeldAsItIs ==
  ASSUME NEW d \in DeviceState, d.max_fan = FALSE, d.fan_speed.mode # "Manual"
  PROVE  normalized(d) = d
<1>1. normalized(d) = [d EXCEPT !.max_fan = FALSE, !.fan_speed = d.fan_speed]
  BY DEF normalized
<1>2. [d EXCEPT !.max_fan = FALSE, !.fan_speed = d.fan_speed] = d
  BY DEF DeviceState
<1> QED
  BY <1>1, <1>2

LEMMA PlaceholderNormal ==
  ASSUME NEW s \in Source
  PROVE  normalized(Placeholder[s]) = Placeholder[s]
<1>1. /\ Placeholder[s] \in DeviceState /\ Placeholder[s].fan_speed = AutoFan
      /\ Placeholder[s].max_fan = FALSE
  BY PlaceholderType DEF Placeholder, DefaultState, Source
<1>2. Placeholder[s].fan_speed.mode # "Manual"
  BY <1>1 DEF AutoFan
<1> QED
  BY <1>1, <1>2, HeldAsItIs

LEMMA InMemoryHoldable ==
  ASSUME NEW c \in Config
  PROVE  Holdable(InMemory(c))
<1> SUFFICES ASSUME NEW s \in Source
             PROVE  /\ normalized(InMemory(c).profile[s]) = InMemory(c).profile[s]
                    /\ s \in InMemory(c).unset => InMemory(c).profile[s] = Placeholder[s]
  BY DEF Holdable
<1>1. c.profile[s] \in DeviceState
  BY DEF Config
<1>2. InMemory(c).profile[s] = normalized(c.profile[s]) /\ InMemory(c).unset = UnsetIn(c)
  BY DEF InMemory, Config
<1>3. s \in UnsetIn(c) => c.profile[s] = Placeholder[s]
  BY DEF UnsetIn
<1> QED
  BY <1>1, <1>2, <1>3, NormalizedIdempotent, PlaceholderNormal

\* Saving a config and loading it again gives it back.
LEMMA SnapshotRestores ==
  ASSUME NEW c \in Config, Holdable(c)
  PROVE  InMemory(Snapshot(c)) = c
<1>1. Snapshot(c) \in Config /\ InMemory(Snapshot(c)) \in Config
  BY SnapshotType, InMemoryType
<1>2. ASSUME NEW s \in Source
      PROVE  /\ Snapshot(c).profile[s] = c.profile[s]
             /\ normalized(c.profile[s]) = c.profile[s]
             /\ s \in c.unset => Snapshot(c).profile[s] = Placeholder[s]
  BY DEF Snapshot, Holdable, Config
<1>3. Snapshot(c).unset = c.unset /\ Snapshot(c).enforce = c.enforce
      /\ Snapshot(c).app_profiles = c.app_profiles
  BY DEF Snapshot, Config
<1>4. UnsetIn(Snapshot(c)) = c.unset
  BY <1>2, <1>3 DEF UnsetIn, Config
<1>5. [s \in Source |-> normalized(Snapshot(c).profile[s])] = c.profile
  BY <1>2 DEF Config
<1>6. /\ InMemory(Snapshot(c)).profile = c.profile /\ InMemory(Snapshot(c)).unset = c.unset
      /\ InMemory(Snapshot(c)).enforce = c.enforce
      /\ InMemory(Snapshot(c)).app_profiles = c.app_profiles
  BY <1>1, <1>3, <1>4, <1>5 DEF InMemory, Config
<1> QED
  BY <1>1, <1>6 DEF Config

LEMMA LoadedHoldable ==
  ASSUME TypeOK, Holdable(config)
  PROVE  Holdable(Loaded) /\ Loaded \in Config
BY LoadedType, InMemoryHoldable DEF Loaded, TypeOK

LEMMA ReloadSaves ==
  ASSUME TypeOK, Holdable(config), OnDisk, Reload
  PROVE  Holdable(config') /\ OnDisk'
<1>1. Holdable(config')
  BY LoadedHoldable DEF Reload
<1>2. CASE Readable
  <2>1. config' = InMemory(disk.config) /\ disk' = disk
    BY <1>2 DEF Reload, Loaded
  <2> QED
    BY <1>1, <2>1 DEF OnDisk
<1>3. CASE ~Readable
  <2>1. config' = config /\ disk' = disk /\ health' = health /\ (~edited' => ~edited)
    BY <1>3 DEF Reload, Loaded, LoadedHealth
  <2> QED
    BY <1>1, <2>1 DEF OnDisk
<1> QED
  BY <1>1, <1>2, <1>3

LEMMA StoreSaves ==
  ASSUME TypeOK, NEW c \in Config, Holdable(c), NEW session, Store(c, session)
  PROVE  Holdable(config') /\ OnDisk'
<1>1. CASE (edited /\ ~disk.parses) \/ LoadedHealth # "Usable"
  BY <1>1 DEF Store, OnDisk, Readable
<1>2. CASE ~((edited /\ ~disk.parses) \/ LoadedHealth # "Usable")
  <2>1. config' = c /\ disk' = [parses |-> TRUE, config |-> Snapshot(c)]
    BY <1>2 DEF Store
  <2> QED
    BY <2>1, SnapshotRestores DEF OnDisk
<1>3. config' = c
  BY DEF Store
<1> QED
  BY <1>1, <1>2, <1>3

LEMMA PersistSaves ==
  ASSUME TypeOK, NEW c \in Config, Holdable(c), NEW session, Persist(c, session)
  PROVE  Holdable(config') /\ OnDisk'
<1>1. CASE Readable
  <2>1. config' = InMemory(disk.config) /\ disk' = disk /\ disk.config \in Config
    BY <1>1, LoadedType DEF Persist, TypeOK
  <2> QED
    BY <2>1, InMemoryHoldable DEF OnDisk
<1>2. CASE ~Readable
  BY <1>2, StoreSaves DEF Persist
<1> QED
  BY <1>1, <1>2

\* Setting one profile keeps a config holdable when that profile is normalized and is set
\* already, or gets set by it.
LEMMA ProfileHoldable ==
  ASSUME NEW c \in Config, Holdable(c), NEW s \in Source, NEW p \in DeviceState,
         normalized(p) = p, NEW unset \in SUBSET c.unset, s \notin unset
  PROVE  /\ [c EXCEPT !.profile[s] = p, !.unset = unset] \in Config
         /\ Holdable([c EXCEPT !.profile[s] = p, !.unset = unset])
<1> DEFINE d == [c EXCEPT !.profile[s] = p, !.unset = unset]
<1>1. d \in Config
  BY DEF Config
<1>2. d.unset = unset /\ d.profile = [c.profile EXCEPT ![s] = p]
  BY DEF Config
<1>3. \A t \in Source : d.profile[t] = IF t = s THEN p ELSE c.profile[t]
  BY <1>2 DEF Config
<1> HIDE DEF d
<1>4. Holdable(d)
  BY <1>2, <1>3 DEF Holdable
<1> QED
  BY <1>1, <1>4 DEF d

\* While the config is applied, the profile of the power source is set.
LEMMA ApplyMeansSet ==
  ASSUME NEW h, NEW known \in BOOLEAN, NEW s \in Source, NEW unset \in SUBSET Source,
         mode(h, known, s, unset) = "Apply"
  PROVE  s \notin unset
BY DEF mode

LEMMA ObserveSaves ==
  ASSUME TypeOK, Holdable(config), OnDisk, Observe(ec)
  PROVE  Holdable(config') /\ OnDisk'
<1> DEFINE profile == normalized(matching_intent(device_state, ec))
           c == [config EXCEPT !.profile[source] = profile, !.unset = @ \ {source}]
<1>1. CASE UNCHANGED <<memory, file>>
  BY <1>1 DEF memory, file, Holdable, OnDisk
<1>2. CASE \E session : Persist(c, session)
  <2>1. profile \in DeviceState /\ normalized(profile) = profile
    <3>1. matching_intent(device_state, ec) \in DeviceState
      BY MatchingIntentType DEF TypeOK, IntentOK, WorldOK
    <3> QED
      BY <3>1, NormalizedType, NormalizedIdempotent
  <2>2. config \in Config /\ source \in Source
    BY DEF TypeOK, MemoryOK, PowerOK
  <2> HIDE DEF profile
  <2>3. c = [config EXCEPT !.profile[source] = profile, !.unset = config.unset \ {source}]
    BY <2>2 DEF Config
  <2>4. c \in Config /\ Holdable(c)
    BY <2>1, <2>2, <2>3, ProfileHoldable
  <2> HIDE DEF c
  <2> QED
    BY <1>2, <2>4, PersistSaves
<1> QED
  BY <1>1, <1>2 DEF Observe

\* What a pick leaves in the saved profile is a state the EC can hold.
LEMMA SavedNormal ==
  ASSUME TypeOK, NEW wanted \in DeviceState, NEW pick
  PROVE  /\ Saved(pick, LoadedAction, normalized(wanted)) \in DeviceState
         /\ normalized(Saved(pick, LoadedAction, normalized(wanted)))
              = Saved(pick, LoadedAction, normalized(wanted))
<1> DEFINE p == Saved(pick, LoadedAction, normalized(wanted))
           after == IF pick = "Cycle" /\ LoadedAction # NoAction
                    THEN [normalized(wanted) EXCEPT !.perf_mode = device_state.perf_mode,
                                                    !.max_fan = device_state.max_fan]
                    ELSE normalized(wanted)
           carried == carry_changes(Loaded.profile[source], device_state, after)
<1>1. normalized(wanted) \in DeviceState /\ device_state \in DeviceState
  BY NormalizedType DEF TypeOK, IntentOK
<1>2. after \in DeviceState
  <2> HIDE DEF normalized
  <2> QED
    BY <1>1 DEF DeviceState
<1>3. Loaded.profile[source] \in DeviceState
  BY LoadedType DEF TypeOK, PowerOK, Config
<1>4. p = normalized(carried)
  BY DEF Saved
<1> HIDE DEF after, p
<1>5. carried \in DeviceState
  BY <1>1, <1>2, <1>3, CarryType
<1>6. p \in DeviceState /\ normalized(p) = p
  BY <1>4, <1>5, NormalizedType, NormalizedIdempotent
<1> QED
  BY <1>6 DEF p

LEMMA UpdateSaves ==
  ASSUME TypeOK, Holdable(config), NEW wanted \in DeviceState, NEW pick, Update(wanted, pick)
  PROVE  Holdable(config') /\ OnDisk'
<1> DEFINE p == Saved(pick, LoadedAction, normalized(wanted))
           c == IF ModeAfterReload = "Apply" THEN [Loaded EXCEPT !.profile[source] = p]
                ELSE Loaded
<1>1. Loaded \in Config /\ Holdable(Loaded) /\ source \in Source
  BY LoadedHoldable DEF TypeOK, PowerOK
<1>2. p \in DeviceState /\ normalized(p) = p
  BY SavedNormal
<1> HIDE DEF p
<1>3. CASE ModeAfterReload = "Apply"
  <2>1. source \notin Loaded.unset
    BY <1>1, <1>3, ApplyMeansSet DEF ModeAfterReload, TypeOK, PowerOK, Config
  <2>2. c = [Loaded EXCEPT !.profile[source] = p, !.unset = Loaded.unset]
    BY <1>1, <1>3 DEF Config
  <2> HIDE DEF c
  <2>3. c \in Config /\ Holdable(c)
    BY <1>1, <1>2, <2>1, <2>2, ProfileHoldable
  <2>4. \E session : Store(c, session)
    BY DEF Update, c, p
  <2> QED
    BY <2>3, <2>4, StoreSaves
<1>4. CASE ModeAfterReload # "Apply"
  BY <1>1, <1>4, StoreSaves DEF Update
<1> QED
  BY <1>3, <1>4

LEMMA TakesBrightnessSaves ==
  ASSUME TypeOK, Holdable(config), ModeAfterReload = "Apply", NEW b \in Brightness,
         TakesBrightness(b)
  PROVE  Holdable(config') /\ OnDisk'
<1> DEFINE p == [Loaded.profile[source] EXCEPT !.keyboard_brightness = b]
           c == [Loaded EXCEPT !.profile[source].keyboard_brightness = b]
<1>1. Loaded \in Config /\ Holdable(Loaded) /\ source \in Source
  BY LoadedHoldable DEF TypeOK, PowerOK
<1>2. Loaded.profile[source] \in DeviceState
      /\ normalized(Loaded.profile[source]) = Loaded.profile[source]
  <2>1. Loaded.profile[source] \in DeviceState
    BY <1>1 DEF Config
  <2>2. normalized(Loaded.profile[source]) = Loaded.profile[source]
    BY <1>1 DEF Holdable
  <2> QED
    BY <2>1, <2>2
<1>3. p \in DeviceState
  BY <1>2 DEF DeviceState
<1>4. normalized(p) = p
  <2>1. /\ normalized(p).fan_speed = normalized(Loaded.profile[source]).fan_speed
        /\ normalized(p).max_fan = normalized(Loaded.profile[source]).max_fan
        /\ normalized(p).perf_mode = p.perf_mode /\ normalized(p).logo_mode = p.logo_mode
        /\ normalized(p).keyboard_brightness = p.keyboard_brightness
        /\ normalized(p).keyboard_effect = p.keyboard_effect
        /\ normalized(p).keyboard_color = p.keyboard_color
    BY <1>2 DEF normalized, DeviceState
  <2>2. /\ p.fan_speed = Loaded.profile[source].fan_speed
        /\ p.max_fan = Loaded.profile[source].max_fan
    BY <1>2 DEF DeviceState
  <2>3. normalized(p) \in DeviceState
    BY <1>3, NormalizedType
  <2> HIDE DEF p
  <2> QED
    BY <1>2, <1>3, <2>1, <2>2, <2>3 DEF DeviceState
<1>5. source \notin Loaded.unset
  BY <1>1, ApplyMeansSet DEF ModeAfterReload, TypeOK, PowerOK, Config
<1>6. c = [Loaded EXCEPT !.profile[source] = p, !.unset = Loaded.unset]
  BY <1>1 DEF Config
<1>7. \E session : Store(c, session)
  BY DEF TakesBrightness
<1> HIDE DEF c, p
<1>8. c \in Config /\ Holdable(c)
  BY <1>1, <1>3, <1>4, <1>5, <1>6, ProfileHoldable
<1> QED
  BY <1>7, <1>8, StoreSaves

LEMMA MirrorTakesSaves ==
  ASSUME TypeOK, Holdable(config), OnDisk, MirrorTakes
  PROVE  Holdable(config') /\ OnDisk'
<1>1. ec.keyboard_brightness \in Brightness
  BY DEF TypeOK, WorldOK, DeviceState
<1> QED
  BY <1>1, ReloadSaves, TakesBrightnessSaves DEF MirrorTakes

LEMMA MirrorFollowsSaves ==
  ASSUME TypeOK, Holdable(config), OnDisk, MirrorFollows
  PROVE  Holdable(config') /\ OnDisk'
BY ReloadSaves, ObserveSaves DEF MirrorFollows

\* From the start on, what was loaded; before it, nothing is claimed of the file.
SavedInv == TypeOK /\ Holdable(config) /\ (pc # "start" => OnDisk)

LEMMA StartSaves ==
  ASSUME SavedInv, Start
  PROVE  Holdable(config') /\ OnDisk'
<1>1. disk.config \in Config /\ DefaultConfig \in Config
  BY DefaultConfigType DEF SavedInv, TypeOK, FileOK
<1>2. \/ /\ config' = InMemory(disk.config) /\ disk' = disk
      \/ /\ config' = InMemory(DefaultConfig) /\ health' # "Usable"
  BY DEF Start, Boot
<1> QED
  BY <1>1, <1>2, InMemoryHoldable DEF OnDisk

LEMMA LoopSaves ==
  ASSUME SavedInv, Loop
  PROVE  Holdable(config') /\ (pc' # "start" => OnDisk')
<1>1. TypeOK /\ Holdable(config) /\ (pc # "start" => OnDisk)
  BY DEF SavedInv
<1>2. CASE UNCHANGED <<file, config, health>> /\ pc # "start"
  BY <1>1, <1>2 DEF file, OnDisk
<1>3. CASE Start
  BY <1>3, StartSaves
<1>4. CASE ResyncDue \/ ResyncNotDue \/ SyncApply \/ ApplyDeferred
  <2>1. UNCHANGED <<file, config, health>> /\ pc # "start"
    BY <1>4 DEF ResyncDue, ResyncNotDue, SyncApply, ApplyDeferred, Skip, memory
  <2> QED
    BY <1>2, <2>1
<1>5. CASE ApplyDone \/ ApplyBusFails \/ ApplyRejected
  <2>1. \E ws, z, bus : Apply(ws, z, bus)
    BY <1>5 DEF ApplyDone, ApplyBusFails, ApplyRejected
  <2>2. UNCHANGED <<file, config, health>> /\ pc # "start"
    BY <2>1 DEF Apply, memory
  <2> QED
    BY <1>2, <2>2
<1>6. CASE SyncProbe \/ ReconcileReads \/ Hover
  <2>1. (Observe(ec) \/ UNCHANGED <<file, memory>>) /\ pc # "start"
    BY <1>6 DEF SyncProbe, ReconcileReads, Hover, NoRead
  <2> QED
    BY <1>1, <1>2, <2>1, ObserveSaves DEF memory
<1>7. CASE ReconcileFails \/ ReconcileReasserts \/ MenuDone \/ NoClick \/ PowerPoll
           \/ ConfigNotDue \/ Scan \/ ScanNotDue \/ Converge
  <2>1. UNCHANGED <<file, config, health>> /\ pc # "start"
    BY <1>7 DEF ReconcileFails, ReconcileReasserts, MenuDone, NoClick, PowerPoll, ConfigNotDue,
                Scan, ScanNotDue, Converge, Skip, NoRead, memory
  <2> QED
    BY <1>2, <2>1
<1>8. CASE ConfigReload
  BY <1>1, <1>8, ReloadSaves DEF ConfigReload
<1>9. CASE WakeCheck \/ WakeDone \/ MirrorFindsDiverged \/ MirrorFails \/ MirrorNotDue
  <2>1. UNCHANGED <<file, config, health>> /\ pc # "start"
    BY <1>9 DEF WakeCheck, WakeDone, MirrorFindsDiverged, MirrorFails, MirrorNotDue, Skip, memory
  <2> QED
    BY <1>2, <2>1
<1>10. CASE MirrorReads
  BY <1>1, <1>10, MirrorTakesSaves, MirrorFollowsSaves DEF MirrorReads
<1>11. CASE MirrorReasserts
  BY <1>1, <1>11, MirrorTakesSaves DEF MirrorReasserts
<1> QED
  BY <1>3, <1>4, <1>5, <1>6, <1>7, <1>8, <1>9, <1>10, <1>11 DEF Loop

LEMMA UserSaves ==
  ASSUME SavedInv, User
  PROVE  Holdable(config') /\ OnDisk'
<1>1. TypeOK /\ Holdable(config) /\ device_state \in DeviceState
  BY DEF SavedInv, TypeOK, IntentOK
<1>2. CASE MenuPick
  <2>1. PICK wanted \in MenuItems : Update(wanted, "Menu")
    BY <1>2 DEF MenuPick
  <2>2. wanted \in DeviceState
    BY <1>1, MenuItemsType
  <2> QED
    BY <1>1, <2>1, <2>2, UpdateSaves
<1>3. CASE Click
  <2> DEFINE wanted == [device_state EXCEPT !.perf_mode = next_perf_mode(@)]
  <2>1. wanted \in DeviceState
    BY <1>1 DEF next_perf_mode, DeviceState, PerfMode
  <2>2. Update(wanted, "Cycle")
    BY <1>3 DEF Click
  <2> HIDE DEF wanted
  <2> QED
    BY <1>1, <2>1, <2>2, UpdateSaves
<1>4. CASE ToggleEnforce
  <2> DEFINE c == [Loaded EXCEPT !.enforce = ~@]
  <2>1. Loaded \in Config /\ Holdable(Loaded)
    BY <1>1, LoadedHoldable
  <2>2. c \in Config /\ c.profile = Loaded.profile /\ c.unset = Loaded.unset
    BY <2>1 DEF Config
  <2>3. Store(c, LoadedAction)
    BY <1>4 DEF ToggleEnforce
  <2> HIDE DEF c
  <2>4. Holdable(c)
    BY <2>1, <2>2 DEF Holdable
  <2> QED
    BY <1>1, <2>2, <2>3, <2>4, StoreSaves
<1>5. CASE ResetConfig
  <2>1. config' = InMemory(FirstRun) /\ disk' = [parses |-> TRUE, config |-> FirstRun]
    BY <1>5 DEF ResetConfig
  <2> QED
    BY <2>1, DefaultConfigType, InMemoryHoldable DEF OnDisk
<1> QED
  BY <1>2, <1>3, <1>4, <1>5 DEF User

LEMMA WorldSaves ==
  ASSUME SavedInv, World \/ UNCHANGED vars
  PROVE  Holdable(config') /\ (pc' # "start" => OnDisk')
<1>1. Holdable(config) /\ (pc # "start" => OnDisk)
  BY DEF SavedInv
<1>2. UNCHANGED <<config, health>>
  BY DEF World, External, ExternalDies, Plug, Tell, ProcessComesOrGoes, EditProfile,
         EditRules, EditBreaks, WakeArrives, SettleOver, Crash, Unmoved, memory, vars
<1>3. CASE edited'
  BY <1>1, <1>2, <1>3 DEF OnDisk
<1>4. CASE ~edited'
  <2>1. UNCHANGED file /\ (pc' = pc \/ pc' = "start")
    BY <1>4 DEF World, External, ExternalDies, Plug, Tell, ProcessComesOrGoes, EditProfile,
                EditRules, EditBreaks, WakeArrives, SettleOver, Crash, Unmoved, vars
  <2> QED
    BY <1>1, <1>2, <2>1 DEF OnDisk, file
<1> QED
  BY <1>3, <1>4

LEMMA SavedInit == Init => SavedInv
<1> SUFFICES ASSUME Init PROVE SavedInv
  OBVIOUS
<1>1. TypeOK /\ pc = "start"
  BY TypeInit DEF Init
<1>2. PICK scene \in Scenes : config = InMemory(scene.config)
  BY DEF Init
<1>a. scene.config \in Config
  BY ConfigAssumption DEF Scene
<1>3. Holdable(config)
  BY <1>2, <1>a, InMemoryHoldable
<1> QED
  BY <1>1, <1>3 DEF SavedInv

LEMMA SavedStep ==
  ASSUME SavedInv, [Next]_vars
  PROVE  SavedInv'
<1>1. TypeOK'
  BY LoopKeepsTypes, OthersKeepTypes DEF Next, SavedInv
<1>2. Holdable(config') /\ (pc' # "start" => OnDisk')
  BY LoopSaves, UserSaves, WorldSaves DEF Next
<1> QED
  BY <1>1, <1>2 DEF SavedInv

\* Whatever crashes, fails or is edited: what memory holds is on disk, so a crash at any
\* point loses no pick, adopted reading or Fn-key brightness (persist before the device).
THEOREM MemoryAlwaysSaved == Spec => []MemoryIsSaved
<1>1. SavedInv /\ [Next]_vars => SavedInv'
  BY SavedStep
<1>2. SavedInv => MemoryIsSaved
  BY DEF SavedInv, OnDisk, MemoryIsSaved
<1> QED
  BY <1>1, <1>2, SavedInit, PTL DEF Spec

-----------------------------------------------------------------------------
(* Which power source a first run is on: while Windows cannot name it, no profile waits for *)
(* a reading.  A profile that waits when the source becomes known is read twice, and what   *)
(* the first reading adopts the second pass applies (PowerPoll, MirrorReads, SyncApply).     *)

\* Windows names the power source before the tray starts, or every profile is set.
NamedForFirstRuns ==
  \A scene \in Scenes :
    scene.told \/ (scene.config.unset = {} /\ scene.budget["reset"] = 0)

NeverUnset == config.unset = {} /\ disk.config.unset = {} /\ left["reset"] = 0
KnownForAdopting == (told /\ power_known) \/ NeverUnset
KnownOnceTold == power_known => told
FirstRunInv == KnownForAdopting /\ KnownOnceTold

LEMMA SpendsAnother ==
  ASSUME TypeOK, NEW spent \in Event, left[spent] = 0, NEW event \in Event, Spend(event)
  PROVE  event # spent /\ left'[spent] = 0
<1>1. left \in [Event -> Nat]
  BY DEF TypeOK, HistoryOK
<1>2. event # spent
  BY <1>1 DEF Spend
<1> QED
  BY <1>1, <1>2 DEF Spend

LEMMA NoneUnsetLoaded ==
  ASSUME TypeOK, NeverUnset
  PROVE  Loaded.unset = {} /\ InMemory(disk.config).unset = {}
<1>1. disk.config \in Config
  BY DEF TypeOK, FileOK
<1>2. InMemory(disk.config).unset = UnsetIn(disk.config)
  BY <1>1 DEF InMemory, Config
<1>3. InMemory(disk.config).unset = {}
  BY <1>2 DEF UnsetIn, NeverUnset
<1> QED
  BY <1>3 DEF Loaded, NeverUnset

LEMMA NoneUnsetStored ==
  ASSUME NeverUnset, NEW c \in Config, c.unset = {}, NEW session, Store(c, session)
  PROVE  config'.unset = {} /\ disk'.config.unset = {}
<1>1. Snapshot(c).unset = {}
  BY DEF Snapshot, Config
<1>2. [parses |-> TRUE, config |-> Snapshot(c)].config = Snapshot(c)
  OBVIOUS
<1>3. disk' = disk \/ disk' = [parses |-> TRUE, config |-> Snapshot(c)]
  BY DEF Store
<1> QED
  BY <1>1, <1>2, <1>3 DEF Store, NeverUnset

LEMMA NoneUnsetReloaded ==
  ASSUME TypeOK, NeverUnset, Reload
  PROVE  config'.unset = {} /\ disk'.config.unset = {}
BY NoneUnsetLoaded DEF Reload, NeverUnset

\* With every profile set no reading is adopted.
LEMMA NothingToAdopt ==
  ASSUME NeverUnset
  PROVE  ModeNow # "Adopt"
BY DEF NeverUnset, ModeNow, mode

LEMMA NoneUnsetUpdated ==
  ASSUME TypeOK, NeverUnset, NEW wanted \in DeviceState, NEW pick, Update(wanted, pick)
  PROVE  config'.unset = {} /\ disk'.config.unset = {}
<1> DEFINE p == Saved(pick, LoadedAction, normalized(wanted))
           c == IF ModeAfterReload = "Apply" THEN [Loaded EXCEPT !.profile[source] = p]
                ELSE Loaded
<1>1. Loaded \in Config /\ Loaded.unset = {}
  BY LoadedType, NoneUnsetLoaded DEF TypeOK
<1>2. p \in DeviceState
  BY SavedNormal
<1> HIDE DEF p
<1>3. c \in Config /\ c.unset = {}
  BY <1>1, <1>2 DEF Config
<1>4. \E session : Store(c, session)
  BY DEF Update, c, p
<1> QED
  BY <1>3, <1>4, NoneUnsetStored

LEMMA NoneUnsetObserved ==
  ASSUME NeverUnset, Observe(ec)
  PROVE  UNCHANGED <<memory, file>>
BY NothingToAdopt DEF Observe

LEMMA NoneUnsetMirrored ==
  ASSUME TypeOK, NeverUnset, MirrorTakes \/ MirrorFollows
  PROVE  config'.unset = {} /\ disk'.config.unset = {}
<1>1. CASE Reload
  BY <1>1, NoneUnsetReloaded
<1>2. ASSUME NEW b \in Brightness, TakesBrightness(b)
      PROVE  config'.unset = {} /\ disk'.config.unset = {}
  <2> DEFINE c == [Loaded EXCEPT !.profile[source].keyboard_brightness = b]
  <2>1. Loaded \in Config /\ Loaded.unset = {} /\ source \in Source
    BY LoadedType, NoneUnsetLoaded DEF TypeOK, PowerOK
  <2>2. Loaded.profile[source] \in DeviceState
    BY <2>1 DEF Config
  <2>3. [Loaded.profile[source] EXCEPT !.keyboard_brightness = b] \in DeviceState
    BY <2>2 DEF DeviceState
  <2>4. c \in Config /\ c.unset = {}
    BY <2>1, <2>3 DEF Config
  <2>5. \E session : Store(c, session)
    BY <1>2 DEF TakesBrightness
  <2> HIDE DEF c
  <2> QED
    BY <2>4, <2>5, NoneUnsetStored
<1>3. ec.keyboard_brightness \in Brightness
  BY DEF TypeOK, WorldOK, DeviceState
<1> QED
  BY <1>1, <1>2, <1>3, NothingToAdopt DEF MirrorTakes, MirrorFollows, Adopts

LEMMA LoopLeavesNoneUnset ==
  ASSUME TypeOK, NeverUnset, Loop
  PROVE  config'.unset = {} /\ disk'.config.unset = {}
<1>1. CASE UNCHANGED <<config, disk>>
  BY <1>1 DEF NeverUnset
<1>2. CASE Start
  <2>1. disk' = disk /\ \/ config' = InMemory(disk.config)
                        \/ config' = InMemory(DefaultConfig)
    BY <1>2 DEF Start, Boot
  <2>2. InMemory(DefaultConfig).unset = UnsetIn(DefaultConfig) /\ DefaultConfig.unset = {}
    BY DefaultConfigType DEF InMemory, DefaultConfig, Config
  <2>3. InMemory(DefaultConfig).unset = {}
    BY <2>2 DEF UnsetIn
  <2> QED
    BY <2>1, <2>3, NoneUnsetLoaded DEF NeverUnset
<1>3. CASE ResyncDue \/ ResyncNotDue \/ SyncApply \/ ApplyDeferred
  <2>1. UNCHANGED <<config, disk>>
    BY <1>3 DEF ResyncDue, ResyncNotDue, SyncApply, ApplyDeferred, Skip, memory, file
  <2> QED
    BY <1>1, <2>1
<1>4. CASE ApplyDone \/ ApplyBusFails \/ ApplyRejected
  <2>1. \E ws, z, bus : Apply(ws, z, bus)
    BY <1>4 DEF ApplyDone, ApplyBusFails, ApplyRejected
  <2>2. UNCHANGED <<config, disk>>
    BY <2>1 DEF Apply, memory, file
  <2> QED
    BY <1>1, <2>2
<1>5. CASE SyncProbe \/ ReconcileReads \/ Hover
  <2>1. Observe(ec) \/ UNCHANGED <<memory, file>>
    BY <1>5 DEF SyncProbe, ReconcileReads, Hover, NoRead
  <2>2. UNCHANGED <<config, disk>>
    BY <2>1, NoneUnsetObserved DEF memory, file
  <2> QED
    BY <1>1, <2>2
<1>6. CASE ReconcileFails \/ ReconcileReasserts \/ MenuDone \/ NoClick \/ PowerPoll
           \/ ConfigNotDue \/ Scan \/ ScanNotDue \/ Converge
  <2>1. UNCHANGED <<config, disk>>
    BY <1>6 DEF ReconcileFails, ReconcileReasserts, MenuDone, NoClick, PowerPoll, ConfigNotDue,
                Scan, ScanNotDue, Converge, Skip, NoRead, memory, file
  <2> QED
    BY <1>1, <2>1
<1>7. CASE ConfigReload
  BY <1>7, NoneUnsetReloaded DEF ConfigReload
<1>8. CASE WakeCheck \/ WakeDone \/ MirrorFindsDiverged \/ MirrorFails \/ MirrorNotDue
  <2>1. UNCHANGED <<config, disk>>
    BY <1>8 DEF WakeCheck, WakeDone, MirrorFindsDiverged, MirrorFails, MirrorNotDue, Skip,
                memory, file
  <2> QED
    BY <1>1, <2>1
<1>9. CASE MirrorReads \/ MirrorReasserts
  BY <1>9, NoneUnsetMirrored DEF MirrorReads, MirrorReasserts
<1> QED
  BY <1>2, <1>3, <1>4, <1>5, <1>6, <1>7, <1>8, <1>9 DEF Loop

LEMMA UserLeavesNoneUnset ==
  ASSUME TypeOK, NeverUnset, User
  PROVE  config'.unset = {} /\ disk'.config.unset = {}
<1>1. device_state \in DeviceState
  BY DEF TypeOK, IntentOK
<1>2. CASE MenuPick
  <2>1. PICK wanted \in MenuItems : Update(wanted, "Menu")
    BY <1>2 DEF MenuPick
  <2> QED
    BY <1>1, <2>1, MenuItemsType, NoneUnsetUpdated
<1>3. CASE Click
  <2> DEFINE wanted == [device_state EXCEPT !.perf_mode = next_perf_mode(@)]
  <2>1. wanted \in DeviceState
    BY <1>1 DEF next_perf_mode, DeviceState, PerfMode
  <2>2. Update(wanted, "Cycle")
    BY <1>3 DEF Click
  <2> HIDE DEF wanted
  <2> QED
    BY <2>1, <2>2, NoneUnsetUpdated
<1>4. CASE ToggleEnforce
  <2> DEFINE c == [Loaded EXCEPT !.enforce = ~@]
  <2>1. Loaded \in Config /\ Loaded.unset = {}
    BY LoadedType, NoneUnsetLoaded DEF TypeOK
  <2>2. c \in Config /\ c.unset = {}
    BY <2>1 DEF Config
  <2>3. Store(c, LoadedAction)
    BY <1>4 DEF ToggleEnforce
  <2> HIDE DEF c
  <2> QED
    BY <2>2, <2>3, NoneUnsetStored
<1>5. CASE ResetConfig
  BY <1>5, SpendsAnother DEF ResetConfig, NeverUnset, Event
<1> QED
  BY <1>2, <1>3, <1>4, <1>5 DEF User

LEMMA WorldLeavesNoneUnset ==
  ASSUME TypeOK, NeverUnset, World \/ UNCHANGED vars
  PROVE  config'.unset = {} /\ disk'.config.unset = {}
<1>1. UNCHANGED config
  BY DEF World, External, ExternalDies, Plug, Tell, ProcessComesOrGoes, EditProfile,
         EditRules, EditBreaks, WakeArrives, SettleOver, Crash, Unmoved, memory, vars
<1>2. CASE UNCHANGED disk
  BY <1>1, <1>2 DEF NeverUnset
<1>3. disk.config \in Config /\ disk \in [parses : BOOLEAN, config : Config]
  BY DEF TypeOK, FileOK
<1>4. CASE EditProfile \/ EditRules
  <2>1. \/ \E s \in Source, p \in OtherPerf :
             disk'.config = [disk.config EXCEPT !.profile[s].perf_mode = p]
        \/ \E rules \in RuleSets :
             disk'.config = [disk.config EXCEPT !.app_profiles = rules]
    BY <1>4 DEF EditProfile, EditRules
  <2>2. disk'.config.unset = disk.config.unset
    BY <1>3, <2>1 DEF Config
  <2> QED
    BY <1>1, <2>2 DEF NeverUnset
<1>5. CASE EditBreaks
  <2>1. disk'.config = disk.config
    BY <1>3, <1>5 DEF EditBreaks
  <2> QED
    BY <1>1, <2>1 DEF NeverUnset
<1>6. UNCHANGED disk \/ EditProfile \/ EditRules \/ EditBreaks
  BY DEF World, External, ExternalDies, Plug, Tell, ProcessComesOrGoes, WakeArrives, SettleOver,
         Crash, file, vars
<1> QED
  BY <1>2, <1>4, <1>5, <1>6

\* Events are spent one at a time.
LEMMA SpendsOne ==
  ASSUME Next \/ UNCHANGED vars
  PROVE  UNCHANGED left \/ \E event \in Event : Spend(event)
<1>1. ASSUME Start \/ ResyncDue \/ ResyncNotDue \/ SyncProbe \/ SyncApply \/ ApplyDeferred
             \/ ApplyDone \/ ApplyBusFails \/ ApplyRejected
      PROVE  UNCHANGED left \/ \E event \in Event : Spend(event)
  BY <1>1 DEF Start, ResyncDue, ResyncNotDue, SyncProbe, DivergedProbe, SyncApply, ApplyDeferred,
              ApplyDone, ApplyBusFails, ApplyRejected, Skip, Event
<1>2. ASSUME ReconcileReads \/ ReconcileFails \/ ReconcileReasserts \/ MenuDone \/ Hover
             \/ NoClick \/ PowerPoll \/ ConfigReload \/ ConfigNotDue \/ Scan \/ ScanNotDue
             \/ Converge
      PROVE  UNCHANGED left \/ \E event \in Event : Spend(event)
  BY <1>2 DEF ReconcileReads, ReconcileFails, ReconcileReasserts, ReassertFails, MenuDone, Hover,
              NoClick, PowerPoll, ConfigReload, ConfigNotDue, Scan, ScanNotDue, Converge, Skip,
              Event
<1>3. ASSUME WakeCheck \/ WakeDone \/ MirrorReads \/ MirrorReasserts \/ MirrorFindsDiverged
             \/ MirrorFails \/ MirrorNotDue
      PROVE  UNCHANGED left \/ \E event \in Event : Spend(event)
  BY <1>3 DEF WakeCheck, WakeDone, MirrorReads, MirrorReasserts, ReassertFails,
              MirrorFindsDiverged, MirrorFails, MirrorNotDue, Skip, Event
<1>4. ASSUME User
      PROVE  UNCHANGED left \/ \E event \in Event : Spend(event)
  BY <1>4 DEF User, MenuPick, ToggleEnforce, ResetConfig, Click, Event
<1>5. ASSUME World
      PROVE  UNCHANGED left \/ \E event \in Event : Spend(event)
  BY <1>5 DEF World, External, ExternalDies, Plug, Tell, ProcessComesOrGoes, EditProfile,
              EditRules, EditBreaks, WakeArrives, SettleOver, Crash, Event
<1> QED
  BY <1>1, <1>2, <1>3, <1>4, <1>5 DEF Next, Loop, vars

LEMMA StaysSpent ==
  ASSUME TypeOK, NEW spent \in Event, left[spent] = 0, Next \/ UNCHANGED vars
  PROVE  left'[spent] = 0
BY SpendsOne, SpendsAnother

LEMMA NeverUnsetStep ==
  ASSUME TypeOK, NeverUnset, Next \/ UNCHANGED vars
  PROVE  NeverUnset'
<1>1. config'.unset = {} /\ disk'.config.unset = {}
  BY LoopLeavesNoneUnset, UserLeavesNoneUnset, WorldLeavesNoneUnset DEF Next
<1>2. left'["reset"] = 0
  BY StaysSpent DEF NeverUnset, Event
<1> QED
  BY <1>1, <1>2 DEF NeverUnset

\* Windows goes on naming the power source, and the tray learns it from Windows alone.
LEMMA LearnsTheSource ==
  ASSUME TypeOK, Next \/ UNCHANGED vars
  PROVE  /\ told => told'
         /\ power_known' => power_known \/ told
         /\ told /\ power_known => power_known'
<1>1. CASE UNCHANGED <<told, power_known>>
  BY <1>1
<1>2. CASE Start \/ PowerPoll
  <2>1. told' = told /\ (power_known' = told \/ power_known' = (power_known \/ told))
    BY <1>2 DEF Start, Boot, PowerPoll, world
  <2>2. told \in BOOLEAN /\ power_known \in BOOLEAN
    BY DEF TypeOK, WorldOK, PowerOK
  <2> QED
    BY <2>1, <2>2
<1>a. CASE Tell
  <2>1. told' = TRUE /\ power_known' = power_known
    BY <1>a DEF Tell, Unmoved, power
  <2> QED
    BY <2>1, Zenon
<1>3. ASSUME ResyncDue \/ ResyncNotDue \/ SyncProbe \/ SyncApply \/ ApplyDeferred
             \/ ReconcileReads \/ ReconcileFails \/ ReconcileReasserts \/ MenuDone \/ Hover
             \/ NoClick
      PROVE  UNCHANGED <<told, power_known>>
  BY <1>3 DEF ResyncDue, ResyncNotDue, SyncProbe, SyncApply, ApplyDeferred, ReconcileReads,
              ReconcileFails, ReconcileReasserts, MenuDone, Hover, NoClick, Skip, power, world
<1>4. ASSUME ApplyDone \/ ApplyBusFails \/ ApplyRejected
      PROVE  UNCHANGED <<told, power_known>>
  <2>1. \E ws, z, bus : Apply(ws, z, bus)
    BY <1>4 DEF ApplyDone, ApplyBusFails, ApplyRejected
  <2> QED
    BY <2>1 DEF Apply, power
<1>5. ASSUME ConfigReload \/ ConfigNotDue \/ Scan \/ ScanNotDue \/ Converge \/ WakeCheck
             \/ WakeDone \/ MirrorReads \/ MirrorReasserts \/ MirrorFindsDiverged \/ MirrorFails
             \/ MirrorNotDue
      PROVE  UNCHANGED <<told, power_known>>
  BY <1>5 DEF ConfigReload, ConfigNotDue, Scan, ScanNotDue, Converge, WakeCheck, WakeDone,
              MirrorReads, MirrorReasserts, MirrorFindsDiverged, MirrorFails, MirrorNotDue, Skip,
              power, world
<1>6. ASSUME User
      PROVE  UNCHANGED <<told, power_known>>
  BY <1>6 DEF User, MenuPick, ToggleEnforce, ResetConfig, Click, power, world
<1>7. ASSUME External \/ ExternalDies \/ Plug \/ ProcessComesOrGoes \/ EditProfile \/ EditRules
             \/ EditBreaks \/ WakeArrives \/ SettleOver \/ Crash
      PROVE  UNCHANGED <<told, power_known>>
  BY <1>7 DEF External, ExternalDies, Plug, ProcessComesOrGoes, EditProfile, EditRules,
              EditBreaks, WakeArrives, SettleOver, Crash, Unmoved, power, world
<1>8. ASSUME UNCHANGED vars PROVE UNCHANGED <<told, power_known>>
  BY <1>8 DEF vars, world, power
<1>9. UNCHANGED <<told, power_known>> \/ Start \/ PowerPoll \/ Tell
  BY <1>3, <1>4, <1>5, <1>6, <1>7, <1>8 DEF Next, Loop, World
<1> QED
  BY <1>1, <1>2, <1>a, <1>9

LEMMA FirstRunInit ==
  ASSUME NamedForFirstRuns, Init
  PROVE  FirstRunInv
<1>1. PICK scene \in Scenes :
        /\ told = scene.told /\ left = scene.budget
        /\ disk = [parses |-> scene.parses, config |-> scene.config]
        /\ config = InMemory(scene.config)
  BY DEF Init
<1>2. scene.config \in Config
  BY ConfigAssumption DEF Scene
<1>3. scene.config.unset = {} => config.unset = {}
  BY <1>1, <1>2 DEF InMemory, UnsetIn, Config
<1>4. disk.config = scene.config /\ power_known = told
  BY <1>1 DEF Init
<1> QED
  BY <1>1, <1>3, <1>4 DEF NamedForFirstRuns, FirstRunInv, KnownForAdopting, KnownOnceTold,
                          NeverUnset

LEMMA FirstRunStep ==
  ASSUME TypeOK, FirstRunInv, Next \/ UNCHANGED vars
  PROVE  FirstRunInv'
<1>1. KnownOnceTold'
  BY LearnsTheSource DEF FirstRunInv, KnownOnceTold
<1>2. CASE told /\ power_known
  BY <1>1, <1>2, LearnsTheSource DEF FirstRunInv, KnownForAdopting
<1>3. CASE NeverUnset
  BY <1>1, <1>3, NeverUnsetStep DEF FirstRunInv, KnownForAdopting
<1> QED
  BY <1>2, <1>3 DEF FirstRunInv, KnownForAdopting

-----------------------------------------------------------------------------
(* The course of a pass: who calls the apply and the reconcile, and what is pending then.   *)
(* A resync asked for in a pass that still reads the device (io_ok is taken before it) waits *)
(* for the source to settle, and nothing is adopted until then.                             *)

InPass ==
  \/ pc \in {"click", "power", "config", "scan", "converge", "wake", "mirror"}
  \/ pc \in {"apply", "reconcile"} /\ job.from \in {"click", "converge", "wake", "mirror"}
PendingSettles == InPass /\ io_ok /\ needs_sync => settling

SyncsWhenDue ==
  /\ pc = "sync" => needs_sync
  /\ pc = "apply" /\ job.from = "sync" => ~needs_sync /\ ModeNow = "Apply"
AppliesFor == pc = "apply" => job.from \in {"sync", "menu", "click", "converge"}
ReconcilesFor ==
  pc = "reconcile" => /\ job.from \in {"sync", "wake", "mirror"}
                      /\ job.from # "sync" => io_ok /\ ~job.failed
                      /\ job.failed => ModeNow = "Apply"
PassInv == PendingSettles /\ SyncsWhenDue /\ AppliesFor /\ ReconcilesFor

LEMMA PassInit == Init => PassInv
BY DEF Init, PassInv, PendingSettles, InPass, SyncsWhenDue, AppliesFor, ReconcilesFor

\* Where neither the apply nor the reconcile comes next.
LEMMA PassElsewhere ==
  ASSUME pc' \notin {"sync", "apply", "reconcile"}, PendingSettles'
  PROVE  PassInv'
BY DEF PassInv, SyncsWhenDue, AppliesFor, ReconcilesFor

LEMMA OutOfPass ==
  ASSUME pc' \in {"start", "tick", "menu"}
  PROVE  PassInv'
BY PassElsewhere DEF PendingSettles, InPass

\* A step from one phase of a pass to another.
LEMMA PassOn ==
  ASSUME PassInv, InPass, pc' \notin {"sync", "apply", "reconcile"},
         UNCHANGED <<io_ok, needs_sync, settling>>
  PROVE  PassInv'
<1>1. PendingSettles'
  BY DEF PassInv, PendingSettles
<1> QED
  BY <1>1, PassElsewhere

LEMMA SyncPasses ==
  ASSUME TypeOK, PassInv, Start \/ ResyncDue \/ ResyncNotDue \/ SyncProbe \/ SyncApply
  PROVE  PassInv'
<1>1. CASE Start
  <2>1. pc' = "sync" /\ needs_sync' = TRUE
    BY <1>1 DEF Start, Boot
  <2> QED
    BY <2>1 DEF PassInv, PendingSettles, InPass, SyncsWhenDue, AppliesFor, ReconcilesFor
<1>2. CASE ResyncDue
  <2>1. pc' = "sync" /\ needs_sync /\ needs_sync' = needs_sync
    BY <1>2 DEF ResyncDue
  <2> QED
    BY <2>1 DEF PassInv, PendingSettles, InPass, SyncsWhenDue, AppliesFor, ReconcilesFor
<1>3. CASE ResyncNotDue
  BY <1>3, OutOfPass DEF ResyncNotDue, Skip
<1>4. CASE SyncProbe
  <2>1. CASE pc' = "menu"
    BY <2>1, OutOfPass
  <2>2. CASE pc' = "reconcile" /\ job'.from = "sync" /\ job'.failed = FALSE
    BY <2>2 DEF PassInv, PendingSettles, InPass, SyncsWhenDue, AppliesFor, ReconcilesFor
  <2>3. ProbeStays \/ \E diverged : ProbeEnds(diverged)
    BY <1>4 DEF SyncProbe, DivergedProbe
  <2>4. ASSUME NEW diverged, ProbeEnds(diverged)
        PROVE  pc' = "reconcile" /\ job'.from = "sync" /\ job'.failed = FALSE
    BY <2>4 DEF ProbeEnds
  <2>5. ProbeStays => pc' = "menu"
    BY DEF ProbeStays
  <2> QED
    BY <2>1, <2>2, <2>3, <2>4, <2>5
<1>5. CASE SyncApply
  <2>1. /\ pc' = "apply" /\ job'.from = "sync" /\ needs_sync' = FALSE
        /\ ModeNow = "Apply" /\ UNCHANGED <<memory, power>>
    BY <1>5 DEF SyncApply, Probes
  <2>2. ModeNow' = "Apply"
    BY <2>1 DEF ModeNow, memory, power
  <2> QED
    BY <2>1, <2>2 DEF PassInv, PendingSettles, InPass, SyncsWhenDue, AppliesFor, ReconcilesFor
<1> QED
  BY <1>1, <1>2, <1>3, <1>4, <1>5

LEMMA ApplyPasses ==
  ASSUME TypeOK, PassInv, NEW ws, NEW z, NEW bus, Apply(ws, z, bus)
  PROVE  PassInv'
<1>1. pc = "apply" /\ job.from \in {"sync", "menu", "click", "converge"}
  BY DEF Apply, PassInv, AppliesFor
<1>2. PICK err : ApplyReturns(err)
  BY DEF Apply
<1>3. UNCHANGED <<memory, power, io_ok>>
  BY DEF Apply, loop
<1>4. CASE pc' = "tick"
  BY <1>4, OutOfPass
<1>5. CASE pc' # "tick"
  <2>1. /\ pc' = AfterApply(job.from) /\ needs_sync' = needs_sync
        /\ job.from = "sync" => job' = [job EXCEPT !.write = ~perf_retry'.gave_up,
                                                   !.failed = err]
    BY <1>2, <1>5 DEF ApplyReturns
  <2>2. CASE job.from = "sync"
    <3>1. pc' = "reconcile"
      BY <2>1, <2>2 DEF AfterApply
    <3>2. job'.from = "sync"
      BY <2>1, <2>2 DEF TypeOK, LoopOK, Job
    <3>3. ModeNow' = "Apply"
      BY <1>1, <1>3, <2>2 DEF PassInv, SyncsWhenDue, ModeNow, memory, power
    <3> QED
      BY <3>1, <3>2, <3>3 DEF PassInv, PendingSettles, InPass, SyncsWhenDue, AppliesFor,
                              ReconcilesFor
  <2>3. CASE job.from = "menu"
    <3>1. pc' = "menu"
      BY <2>1, <2>3 DEF AfterApply
    <3> QED
      BY <3>1, OutOfPass
  <2>4. CASE job.from \in {"click", "converge"}
    <3>1. pc' \in {"power", "wake"} /\ InPass
      BY <1>1, <2>1, <2>4 DEF AfterApply, InPass
    <3> QED
      BY <1>3, <2>1, <3>1, PassOn DEF power
  <2> QED
    BY <1>1, <2>2, <2>3, <2>4
<1> QED
  BY <1>4, <1>5

LEMMA DeferredPasses ==
  ASSUME PassInv, ApplyDeferred
  PROVE  PassInv'
<1>1. pc = "apply" /\ needs_sync /\ job.from \in {"menu", "click", "converge"}
  BY DEF ApplyDeferred, PassInv, AppliesFor, SyncsWhenDue
<1>2. pc' = AfterApply(job.from) /\ UNCHANGED <<io_ok, needs_sync, settling>>
  BY DEF ApplyDeferred, loop, power
<1>3. CASE job.from = "menu"
  BY <1>2, <1>3, OutOfPass DEF AfterApply
<1>4. CASE job.from \in {"click", "converge"}
  <2>1. pc' \in {"power", "wake"} /\ InPass
    BY <1>1, <1>2, <1>4 DEF AfterApply, InPass
  <2> QED
    BY <1>2, <2>1, PassOn
<1> QED
  BY <1>1, <1>3, <1>4

LEMMA ReconcilePasses ==
  ASSUME PassInv, ReconcileReads \/ ReconcileFails \/ ReconcileReasserts
  PROVE  PassInv'
<1>1. /\ pc = "reconcile" /\ ReconcileReturns /\ UNCHANGED <<io_ok, settling>>
      /\ job.from \in {"sync", "wake", "mirror"}
  BY DEF ReconcileReads, ReconcileFails, ReconcileReasserts, loop, power, PassInv, ReconcilesFor
<1>2. CASE job.from \in {"sync", "mirror"}
  <2>1. pc' \in {"menu", "tick"}
    BY <1>1, <1>2 DEF ReconcileReturns, AfterReconcile
  <2> QED
    BY <2>1, OutOfPass
<1>3. CASE job.from = "wake"
  <2>1. pc' = "mirror" /\ UNCHANGED needs_sync /\ InPass
    BY <1>1, <1>3 DEF ReconcileReturns, AfterReconcile, InPass
  <2> QED
    BY <1>1, <2>1, PassOn
<1> QED
  BY <1>1, <1>2, <1>3

LEMMA MenuPasses ==
  ASSUME TypeOK, PassInv, MenuDone \/ Hover \/ NoClick \/ User
  PROVE  PassInv'
<1>1. CASE MenuDone
  <2>1. pc' = "click" /\ io_ok' = ~needs_sync /\ UNCHANGED needs_sync
    BY <1>1 DEF MenuDone, sync
  <2>2. PendingSettles'
    BY <2>1 DEF PendingSettles
  <2> QED
    BY <2>1, <2>2, PassElsewhere
<1>2. CASE Hover \/ NoClick
  <2>1. InPass /\ pc' = "power" /\ UNCHANGED <<io_ok, needs_sync, settling>>
    BY <1>2 DEF Hover, NoClick, Skip, InPass, loop, sync, power
  <2> QED
    BY <2>1, PassOn
<1>3. CASE MenuPick
  <2>1. pc' = "apply" /\ job'.from = "menu"
    BY <1>3 DEF MenuPick, Update, NoJob
  <2> QED
    BY <2>1 DEF PassInv, PendingSettles, InPass, SyncsWhenDue, AppliesFor, ReconcilesFor
<1>4. CASE Click
  <2>1. /\ InPass /\ pc' = "apply" /\ job'.from = "click"
        /\ UNCHANGED <<io_ok, needs_sync, settling>>
    BY <1>4 DEF Click, Update, NoJob, InPass, loop, sync, power
  <2>2. PendingSettles'
    BY <2>1 DEF PassInv, PendingSettles
  <2> QED
    BY <2>1, <2>2 DEF PassInv, SyncsWhenDue, AppliesFor, ReconcilesFor
<1>5. CASE ToggleEnforce \/ ResetConfig
  <2>1. pc' = "menu"
    BY <1>5 DEF ToggleEnforce, ResetConfig
  <2> QED
    BY <2>1, OutOfPass
<1> QED
  BY <1>1, <1>2, <1>3, <1>4, <1>5 DEF User

\* A source named late is no first run's: every profile is set.
LEMMA PowerPasses ==
  ASSUME TypeOK, FirstRunInv, PassInv, PowerPoll
  PROVE  PassInv'
<1> DEFINE now == IF told THEN plugged ELSE source
           changed == now # source
           became_known == told /\ ~power_known
           adopts == mode(health, power_known', now, config.unset) = "Adopt"
<1>1. /\ pc = "power" /\ pc' = "config" /\ io_ok' = io_ok
      /\ settling' = (settling \/ changed)
      /\ needs_sync' = (needs_sync \/ /\ changed \/ became_known
                                      /\ adopts)
  BY DEF PowerPoll
<1>2. became_known => ~adopts
  <2>1. became_known => config.unset = {}
    BY DEF FirstRunInv, KnownForAdopting, NeverUnset
  <2>2. now \in Source
    BY DEF TypeOK, PowerOK, WorldOK
  <2>3. config.unset = {} => ~adopts
    BY <2>2 DEF mode
  <2> QED
    BY <2>1, <2>3
<1> HIDE DEF changed, became_known, adopts
<1>3. InPass /\ settling \in BOOLEAN /\ needs_sync \in BOOLEAN
  BY <1>1 DEF InPass, TypeOK, PowerOK, SyncOK
<1>4. io_ok' /\ needs_sync' => settling'
  BY <1>1, <1>2, <1>3 DEF PassInv, PendingSettles
<1>5. PendingSettles'
  BY <1>4 DEF PendingSettles
<1> QED
  BY <1>1, <1>5, PassElsewhere

LEMMA LatePasses ==
  ASSUME TypeOK, PassInv,
         ConfigReload \/ ConfigNotDue \/ Scan \/ ScanNotDue \/ Converge \/ WakeCheck \/ WakeDone
           \/ MirrorReads \/ MirrorReasserts \/ MirrorFindsDiverged \/ MirrorFails
           \/ MirrorNotDue
  PROVE  PassInv'
<1>1. CASE ConfigReload \/ ConfigNotDue \/ Scan \/ ScanNotDue \/ WakeDone
  <2>1. /\ InPass /\ pc' \in {"scan", "converge", "mirror"}
        /\ UNCHANGED <<io_ok, needs_sync, settling>>
    BY <1>1 DEF ConfigReload, ConfigNotDue, Scan, ScanNotDue, WakeDone, Skip, InPass, loop, sync,
                power
  <2> QED
    BY <2>1, PassOn
<1>2. CASE Converge
  <2>1. InPass /\ UNCHANGED <<io_ok, needs_sync, settling>>
    BY <1>2 DEF Converge, InPass, loop, sync, power
  <2>2. CASE pc' = "wake"
    BY <2>1, <2>2, PassOn
  <2>3. CASE pc' = "apply" /\ job'.from = "converge"
    <3>1. PendingSettles'
      BY <2>1, <2>3 DEF PassInv, PendingSettles
    <3> QED
      BY <2>3, <3>1 DEF PassInv, SyncsWhenDue, AppliesFor, ReconcilesFor
  <2> QED
    BY <1>2, <2>2, <2>3 DEF Converge, NoJob
<1>3. CASE WakeCheck \/ MirrorFindsDiverged
  <2>1. InPass /\ io_ok /\ UNCHANGED <<io_ok, needs_sync, settling>>
    BY <1>3 DEF WakeCheck, MirrorFindsDiverged, InPass, loop, sync, power
  <2>2. pc' = "reconcile" /\ job'.from \in {"wake", "mirror"} /\ job'.failed = FALSE
    BY <1>3 DEF WakeCheck, MirrorFindsDiverged
  <2>3. PendingSettles'
    BY <2>1 DEF PassInv, PendingSettles
  <2> QED
    BY <2>1, <2>2, <2>3 DEF PassInv, SyncsWhenDue, AppliesFor, ReconcilesFor
<1>4. CASE MirrorReads \/ MirrorReasserts \/ MirrorFails \/ MirrorNotDue
  <2>1. pc' = "tick"
    BY <1>4 DEF MirrorReads, MirrorReasserts, MirrorFails, MirrorNotDue, Skip
  <2> QED
    BY <2>1, OutOfPass
<1> QED
  BY <1>1, <1>2, <1>3, <1>4

LEMMA WorldPasses ==
  ASSUME PassInv, World \/ UNCHANGED vars
  PROVE  PassInv'
<1>1. CASE UNCHANGED <<memory, power, sync, pc, job, io_ok>>
  BY <1>1 DEF memory, power, sync, PassInv, PendingSettles, InPass, SyncsWhenDue, AppliesFor,
              ReconcilesFor, ModeNow
<1>2. CASE SettleOver \/ Crash
  BY <1>2, OutOfPass DEF SettleOver, Crash
<1>3. CASE WakeArrives
  BY <1>1, <1>3 DEF WakeArrives
<1>4. ASSUME External \/ ExternalDies \/ Plug \/ Tell \/ ProcessComesOrGoes \/ EditProfile
             \/ EditRules \/ EditBreaks
      PROVE  Unmoved
  BY <1>4 DEF External, ExternalDies, Plug, Tell, ProcessComesOrGoes, EditProfile, EditRules,
              EditBreaks
<1>5. ASSUME Unmoved \/ UNCHANGED vars
      PROVE  UNCHANGED <<memory, power, sync, pc, job, io_ok>>
  BY <1>5 DEF Unmoved, loop, vars
<1> QED
  BY <1>1, <1>2, <1>3, <1>4, <1>5 DEF World

LEMMA PassStep ==
  ASSUME TypeOK, FirstRunInv, PassInv, Next \/ UNCHANGED vars
  PROVE  PassInv'
<1>1. ASSUME ApplyDone \/ ApplyBusFails \/ ApplyRejected
      PROVE  \E ws, z, bus : Apply(ws, z, bus)
  BY <1>1 DEF ApplyDone, ApplyBusFails, ApplyRejected
<1> QED
  BY <1>1, SyncPasses, ApplyPasses, DeferredPasses, ReconcilePasses, MenuPasses, PowerPasses,
     LatePasses, WorldPasses DEF Next, Loop

-----------------------------------------------------------------------------
(* What "quiet" stands for: nothing anywhere in the tray asks for a write.                  *)

CalmMind ==
  /\ ~config.enforce /\ config.app_profiles = << >> /\ action = NoAction
  /\ ModeNow = "Apply" /\ device_state = config.profile[source]
CalmWorld == ~edited /\ zones = "agree" /\ told /\ power_known /\ source = plugged
CalmWork ==
  /\ wake_checks["Resume"] = 0 /\ pc \notin {"start", "apply"}
  /\ needs_sync => ~sync_apply
  /\ pc = "reconcile" => ~job.write /\ ~job.failed
QuietMeansCalm == quiet => CalmMind /\ CalmWorld /\ CalmWork

LEMMA CalmTarget ==
  ASSUME TypeOK, Holdable(config), action = NoAction
  PROVE  target = config.profile[source]
BY DEF target, saved_profile, Holdable, TypeOK, PowerOK

\* A step that moves neither the intent nor what it is judged by.
LEMMA MindAndWorldStay ==
  ASSUME CalmMind, CalmWorld, ~edited', action' = NoAction,
         UNCHANGED <<config, health, device_state, source, power_known, zones, plugged, told>>
  PROVE  CalmMind' /\ CalmWorld'
BY DEF CalmMind, CalmWorld, ModeNow

LEMMA FrameIsCalm ==
  ASSUME CalmMind, CalmWorld, UNCHANGED <<file, memory, device_state, power, zones, plugged, told>>
  PROVE  CalmMind' /\ CalmWorld'
BY MindAndWorldStay DEF CalmMind, CalmWorld, file, memory, power

\* An adoption with nothing else going on leaves the tray at rest on what it read.
LEMMA AdoptionIsCalm ==
  ASSUME TypeOK, KnownOnceTold, Adopts, Undisturbed, Observe(ec), UNCHANGED <<world, power>>
  PROVE  CalmMind' /\ CalmWorld'
<1> DEFINE profile == normalized(matching_intent(device_state, ec))
           c == [config EXCEPT !.profile[source] = profile, !.unset = @ \ {source}]
           moved == IF action # NoAction /\ action.rule \in DOMAIN config.app_profiles
                    THEN [action EXCEPT !.effective =
                            power_changed(config.app_profiles[action.rule], @,
                                          saved_profile, profile)]
                    ELSE action
<1>1. /\ ~config.enforce /\ config.app_profiles = << >> /\ action = NoAction /\ ~edited
      /\ zones = "agree" /\ ModeNow = "Adopt" /\ ~settling
  BY DEF Undisturbed, Adopts
<1>2. /\ config \in Config /\ source \in Source /\ power_known \in BOOLEAN
      /\ health \in ConfigHealth
  BY DEF TypeOK, MemoryOK, PowerOK
<1>3. health = "Usable" /\ power_known
  BY <1>1, <1>2 DEF ModeNow, mode, ConfigHealth
<1>4. told /\ source = plugged
  BY <1>3 DEF KnownOnceTold, Undisturbed
<1>5. device_state' = profile /\ Persist(c, NoAction)
  <2>1. device_state' = profile /\ Persist(c, moved)
    BY <1>1 DEF Observe
  <2>2. moved = NoAction
    BY <1>1
  <2> QED
    BY <2>1, <2>2
<1>6. c.profile[source] = profile /\ c.unset = config.unset \ {source}
      /\ c.enforce = config.enforce /\ c.app_profiles = config.app_profiles
  BY <1>2 DEF Config
<1> HIDE DEF c, profile
<1>7. Store(c, NoAction)
  BY <1>1, <1>5 DEF Persist, Readable
<1>8. LoadedHealth = "Usable"
  BY <1>1, <1>3 DEF LoadedHealth, Readable
<1>9. config' = c /\ action' = NoAction /\ health' = "Usable" /\ ~edited'
  BY <1>1, <1>7, <1>8 DEF Store
<1>10. UNCHANGED <<source, power_known, zones, plugged, told>>
  BY DEF world, power
<1>11. ModeNow' = "Apply"
  <2>1. source \notin config'.unset
    BY <1>6, <1>9
  <2> QED
    BY <1>3, <1>9, <1>10, <2>1 DEF ModeNow, mode
<1>12. CalmMind'
  BY <1>1, <1>5, <1>6, <1>9, <1>10, <1>11 DEF CalmMind
<1> QED
  BY <1>1, <1>3, <1>4, <1>9, <1>10, <1>12 DEF CalmWorld

\* After a reading, quiet is what it was or what the adoption made it.
LEMMA ReadingIsCalm ==
  ASSUME TypeOK, KnownOnceTold, QuietMeansCalm, Observe(ec), NoteReading,
         UNCHANGED <<world, power>>, quiet'
  PROVE  /\ CalmMind' /\ CalmWorld'
         /\ \/ quiet /\ CalmMind /\ CalmWorld /\ CalmWork
            \/ Adopts /\ Undisturbed
<1>1. quiet \/ (Adopts /\ Undisturbed)
  BY DEF NoteReading
<1>2. CASE quiet
  <2>1. CalmMind /\ CalmWorld /\ CalmWork
    BY <1>2 DEF QuietMeansCalm
  <2>2. UNCHANGED <<device_state, memory, file>>
    BY <2>1 DEF Observe, CalmMind
  <2> QED
    BY <1>2, <2>1, <2>2, FrameIsCalm DEF world
<1>3. CASE Adopts /\ Undisturbed
  BY <1>3, AdoptionIsCalm
<1> QED
  BY <1>1, <1>2, <1>3

\* In a pass that reads the device, nothing that can be adopted has a resync pending.
LEMMA AdoptsWithNonePending ==
  ASSUME PassInv, InPass, io_ok, Adopts
  PROVE  ~needs_sync
BY DEF PassInv, PendingSettles, Adopts

\* What each step may rely on.
QuietInv == SavedInv /\ FirstRunInv /\ PassInv /\ QuietMeansCalm

LEMMA QuietParts ==
  ASSUME QuietInv
  PROVE  /\ TypeOK /\ Holdable(config) /\ FirstRunInv /\ KnownOnceTold /\ PassInv
         /\ quiet => CalmMind /\ CalmWorld /\ CalmWork
BY DEF QuietInv, SavedInv, FirstRunInv, QuietMeansCalm

LEMMA StopsBeingQuiet ==
  ASSUME ~quiet'
  PROVE  QuietMeansCalm'
BY DEF QuietMeansCalm

\* A step to a phase that is neither apply nor reconcile, with nothing but the phase moved.
LEMMA QuietMovesOn ==
  ASSUME QuietMeansCalm, pc' \notin {"start", "apply", "reconcile"},
         quiet' => quiet /\ CalmMind' /\ CalmWorld',
         UNCHANGED <<needs_sync, sync_apply>>, wake_checks'["Resume"] = wake_checks["Resume"]
  PROVE  QuietMeansCalm'
BY DEF QuietMeansCalm, CalmWork

LEMMA QuietSkips ==
  ASSUME QuietMeansCalm, pc' \notin {"start", "apply", "reconcile"},
         UNCHANGED <<file, memory, device_state, power, zones, plugged, told, needs_sync,
                     sync_apply, wake_checks, quiet>>
  PROVE  QuietMeansCalm'
<1>1. ASSUME quiet PROVE CalmMind' /\ CalmWorld'
  BY <1>1, FrameIsCalm DEF QuietMeansCalm
<1> QED
  BY <1>1, QuietMovesOn

\* The probe of a calm tray measures only, and what it adopts is not written back.
LEMMA ProbeStaysQuiet ==
  ASSUME QuietInv, SyncProbe
  PROVE  QuietMeansCalm'
<1> SUFFICES ASSUME quiet' PROVE CalmMind' /\ CalmWorld' /\ CalmWork'
  BY DEF QuietMeansCalm
<1>1. /\ pc = "sync" /\ UNCHANGED <<world, power, sync_apply, loop>>
  BY DEF SyncProbe
<1>2. ASSUME ProbeEnds(FALSE), ~config.enforce, wake_checks["Resume"] = 0
      PROVE  CalmWork'
  <2>1. job' = [from |-> "sync", failed |-> FALSE,
                write |-> probe_may_write(ModeNow, config.enforce, FALSE)]
        /\ pc' = "reconcile" /\ ~needs_sync'
    BY <1>2 DEF ProbeEnds
  <2>2. ~job'.write /\ ~job'.failed
    BY <1>2, <2>1 DEF probe_may_write
  <2> QED
    BY <1>1, <1>2, <2>1, <2>2 DEF CalmWork, loop
<1>3. CASE /\ zones = "agree" /\ ProbeEnds(FALSE)
           /\ Observe(ec) /\ NoteReading
  <2>1. /\ CalmMind' /\ CalmWorld'
        /\ \/ quiet /\ CalmMind /\ CalmWorld /\ CalmWork
           \/ Adopts /\ Undisturbed
    BY <1>1, <1>3, QuietParts, ReadingIsCalm DEF QuietInv
  <2>2. ~config.enforce /\ wake_checks["Resume"] = 0
    BY <2>1 DEF CalmMind, CalmWork, Undisturbed
  <2> QED
    BY <1>2, <1>3, <2>1, <2>2
<1>4. CASE /\ DivergedProbe \/ ProbeEnds(FALSE) \/ ProbeStays
           /\ NoRead /\ UNCHANGED quiet
  <2>1. CalmMind /\ CalmWorld /\ CalmWork
    BY <1>4, QuietParts
  <2>2. CalmMind' /\ CalmWorld'
    BY <1>1, <1>4, <2>1, FrameIsCalm DEF NoRead, world
  <2>3. ~DivergedProbe
    BY <2>1 DEF CalmWorld, DivergedProbe
  <2>4. ASSUME ProbeStays PROVE CalmWork'
    <3>1. pc' = "menu" /\ UNCHANGED <<needs_sync, sync_apply, wake_checks>>
      BY <1>1, <2>4 DEF ProbeStays, loop
    <3> QED
      BY <2>1, <3>1 DEF CalmWork
  <2>5. ASSUME ProbeEnds(FALSE) PROVE CalmWork'
    <3>1. ~config.enforce
      BY <2>1 DEF CalmMind
    <3>2. wake_checks["Resume"] = 0
      BY <2>1 DEF CalmWork
    <3> QED
      BY <1>2, <2>5, <3>1, <3>2
  <2> QED
    BY <1>4, <2>2, <2>3, <2>4, <2>5
<1> QED
  BY <1>3, <1>4 DEF SyncProbe

\* A calm tray's resync is one after a failed read, which does not apply.
LEMMA ResyncStaysQuiet ==
  ASSUME QuietInv, Start \/ ResyncDue \/ ResyncNotDue \/ SyncApply \/ ApplyDeferred
  PROVE  QuietMeansCalm'
<1>1. QuietMeansCalm
  BY DEF QuietInv
<1>2. CASE Start
  BY <1>2, StopsBeingQuiet DEF Start
<1>3. CASE ResyncDue
  <2>1. CASE quiet' = FALSE
    BY <2>1, StopsBeingQuiet
  <2>2. CASE UNCHANGED <<sync_apply, quiet>>
    BY <1>1, <1>3, <2>2, QuietSkips DEF ResyncDue, world, loop
  <2> QED
    BY <1>3, <2>1, <2>2 DEF ResyncDue
<1>4. CASE ResyncNotDue
  BY <1>1, <1>4, QuietSkips DEF ResyncNotDue, Skip, world, loop, sync
<1>5. CASE SyncApply
  <2>1. pc = "sync" /\ ~Probes /\ needs_sync
    BY <1>5 DEF SyncApply, QuietInv, PassInv, SyncsWhenDue
  <2>2. ~quiet
    BY <1>1, <2>1 DEF QuietMeansCalm, CalmWork, Probes
  <2> QED
    BY <1>5, <2>2, StopsBeingQuiet DEF SyncApply
<1>6. CASE ApplyDeferred
  <2>1. pc = "apply" /\ UNCHANGED quiet
    BY <1>6 DEF ApplyDeferred
  <2> QED
    BY <1>1, <2>1 DEF QuietMeansCalm, CalmWork
<1> QED
  BY <1>2, <1>3, <1>4, <1>5, <1>6

LEMMA ApplyIsNotQuiet ==
  ASSUME QuietInv, ApplyDone \/ ApplyBusFails \/ ApplyRejected
  PROVE  ~quiet /\ QuietMeansCalm'
<1>1. \E ws, z, bus : Apply(ws, z, bus)
  BY DEF ApplyDone, ApplyBusFails, ApplyRejected
<1>2. pc = "apply" /\ UNCHANGED quiet
  BY <1>1 DEF Apply
<1> QED
  BY <1>2 DEF QuietInv, QuietMeansCalm, CalmWork

\* A reconcile that reads: in a calm tray it may not write and none of its calls failed.
LEMMA ReconcileStaysQuiet ==
  ASSUME QuietInv, ReconcileReads \/ ReconcileFails
  PROVE  QuietMeansCalm'
<1> SUFFICES ASSUME quiet' PROVE CalmMind' /\ CalmWorld' /\ CalmWork'
  BY DEF QuietMeansCalm
<1>1. /\ pc = "reconcile" /\ ReconcileReturns
      /\ UNCHANGED <<world, power, sync_apply, io_ok, wake_checks>>
  BY DEF ReconcileReads, ReconcileFails, loop
<1>2. job.from \in {"sync", "wake", "mirror"} /\ (job.from # "sync" => io_ok /\ ~job.failed)
  BY <1>1 DEF QuietInv, PassInv, ReconcilesFor
<1>3. pc' \in {"menu", "mirror", "tick"}
  BY <1>1, <1>2 DEF ReconcileReturns, AfterReconcile
<1>4. CASE quiet /\ CalmMind /\ CalmWorld /\ CalmWork
  <2>1. ~job.failed /\ (needs_sync => ~sync_apply) /\ wake_checks["Resume"] = 0
    BY <1>1, <1>4 DEF CalmWork
  <2>2. needs_sync' => needs_sync
    BY <1>1, <2>1 DEF ReconcileReturns
  <2>3. CalmWork'
    BY <1>1, <1>3, <2>1, <2>2 DEF CalmWork
  <2>4. CASE Observe(ec) /\ NoteReading
    BY <1>1, <2>3, <2>4, QuietParts, ReadingIsCalm DEF QuietInv
  <2>5. CASE NoRead
    BY <1>1, <1>4, <2>3, <2>5, FrameIsCalm DEF NoRead, world
  <2> QED
    BY <2>4, <2>5 DEF ReconcileReads, ReconcileFails
<1>5. CASE Adopts /\ Undisturbed /\ Observe(ec) /\ NoteReading
  <2>1. ~job.failed
    BY <1>1, <1>5 DEF Adopts, QuietInv, PassInv, ReconcilesFor
  <2>2. job.from # "sync" => ~needs_sync
    BY <1>1, <1>2, <1>5, AdoptsWithNonePending DEF QuietInv, InPass
  <2>3. ~needs_sync'
    BY <1>1, <2>1, <2>2 DEF ReconcileReturns
  <2>4. CalmWork'
    BY <1>1, <1>3, <1>5, <2>3 DEF CalmWork, Undisturbed
  <2> QED
    BY <1>1, <1>5, <2>4, QuietParts, AdoptionIsCalm
<1>6. CASE NoRead /\ UNCHANGED quiet
  BY <1>4, <1>6, QuietParts
<1>7. CASE Observe(ec) /\ NoteReading
  <2>1. quiet \/ (Adopts /\ Undisturbed)
    BY <1>7 DEF NoteReading
  <2> QED
    BY <1>4, <1>5, <1>7, <2>1, QuietParts
<1> QED
  BY <1>6, <1>7 DEF ReconcileReads, ReconcileFails

LEMMA ReassertIsNotQuiet ==
  ASSUME QuietInv, ReconcileReasserts \/ MirrorReasserts \/ MirrorFindsDiverged
  PROVE  ~quiet /\ QuietMeansCalm'
<1>1. UNCHANGED quiet
  BY DEF ReconcileReasserts, MirrorReasserts, MirrorFindsDiverged
<1>2. SUFFICES ASSUME quiet PROVE FALSE
  BY <1>1 DEF QuietMeansCalm
<1>3. CalmMind /\ CalmWorld /\ CalmWork
  BY <1>2, QuietParts
<1>4. CASE ReconcileReasserts
  BY <1>3, <1>4 DEF ReconcileReasserts, MayReassert, CalmWork
<1>5. CASE MirrorReasserts
  <2>1. Loaded = config
    BY <1>3 DEF CalmWorld, Loaded, Readable
  <2>2. ~Loaded.enforce
    BY <1>3, <2>1 DEF CalmMind
  <2> QED
    BY <1>5, <2>2 DEF MirrorReasserts, MirrorEnforces
<1>6. CASE MirrorFindsDiverged
  BY <1>3, <1>6 DEF MirrorFindsDiverged, CalmWorld
<1> QED
  BY <1>4, <1>5, <1>6

LEMMA MenuStaysQuiet ==
  ASSUME QuietInv, MenuDone \/ Hover \/ NoClick \/ User
  PROVE  QuietMeansCalm'
<1>1. QuietMeansCalm
  BY DEF QuietInv
<1>2. CASE MenuDone
  BY <1>1, <1>2, QuietSkips DEF MenuDone, world, sync
<1>3. CASE NoClick
  BY <1>1, <1>3, QuietSkips DEF NoClick, Skip, world, loop, sync
<1>4. CASE User
  BY <1>4, StopsBeingQuiet DEF User, MenuPick, ToggleEnforce, ResetConfig, Click
<1>5. CASE Hover
  <2> SUFFICES ASSUME quiet' PROVE CalmMind' /\ CalmWorld' /\ CalmWork'
    BY DEF QuietMeansCalm
  <2>1. /\ pc = "click" /\ io_ok /\ pc' = "power" /\ Observe(ec) /\ NoteReading
        /\ UNCHANGED <<world, power, sync_apply, needs_sync, wake_checks>>
    BY <1>5 DEF Hover, sync, loop
  <2>2. /\ CalmMind' /\ CalmWorld'
        /\ \/ quiet /\ CalmMind /\ CalmWorld /\ CalmWork
           \/ Adopts /\ Undisturbed
    BY <2>1, QuietParts, ReadingIsCalm DEF QuietInv
  <2>3. (needs_sync => ~sync_apply) /\ wake_checks["Resume"] = 0
    BY <2>1, <2>2, AdoptsWithNonePending DEF QuietInv, InPass, CalmWork, Undisturbed
  <2> QED
    BY <2>1, <2>2, <2>3 DEF CalmWork
<1> QED
  BY <1>2, <1>3, <1>4, <1>5

\* The power source is the one the tray knows.
LEMMA PowerStaysQuiet ==
  ASSUME QuietInv, PowerPoll
  PROVE  QuietMeansCalm'
<1> SUFFICES ASSUME quiet' PROVE CalmMind' /\ CalmWorld' /\ CalmWork'
  BY DEF QuietMeansCalm
<1>1. CalmMind /\ CalmWorld /\ CalmWork
  BY QuietParts DEF PowerPoll
<1>2. told /\ power_known /\ source = plugged /\ action = NoAction
  BY <1>1 DEF CalmMind, CalmWorld
<1>3. /\ source' = source /\ power_known' = (power_known \/ told) /\ action' = NoAction
      /\ pc' = "config" /\ UNCHANGED <<zones, plugged, told, config, health, device_state, edited,
                                       sync_apply, wake_checks>>
  BY <1>2 DEF PowerPoll, world, file
<1>4. needs_sync' = needs_sync
  <2>1. power_known \in BOOLEAN /\ needs_sync \in BOOLEAN
    BY DEF QuietInv, SavedInv, TypeOK, PowerOK, SyncOK
  <2> QED
    BY <1>2, <2>1 DEF PowerPoll
<1>5. power_known' = power_known
  <2>1. power_known \in BOOLEAN
    BY DEF QuietInv, SavedInv, TypeOK, PowerOK
  <2> QED
    BY <1>2, <1>3, <2>1
<1>6. CalmMind' /\ CalmWorld'
  BY <1>1, <1>3, <1>5, MindAndWorldStay DEF CalmWorld
<1>7. CalmWork'
  BY <1>1, <1>3, <1>4 DEF CalmWork
<1> QED
  BY <1>6, <1>7

LEMMA NoRulesNoMatch ==
  ASSUME NEW on
  PROVE  matching_app_profile(<< >>, running, on) = 0
BY DEF matching_app_profile

\* Nothing to reload, no rule to match, nothing to converge on.
LEMMA LatePassStaysQuiet ==
  ASSUME QuietInv, ConfigReload \/ ConfigNotDue \/ Scan \/ ScanNotDue \/ Converge
  PROVE  QuietMeansCalm'
<1>1. QuietMeansCalm
  BY DEF QuietInv
<1>2. CASE ConfigNotDue \/ ScanNotDue
  BY <1>1, <1>2, QuietSkips DEF ConfigNotDue, ScanNotDue, Skip, world, loop, sync
<1>3. CASE ConfigReload
  <2>1. edited /\ UNCHANGED quiet
    BY <1>3 DEF ConfigReload, Readable
  <2> QED
    BY <1>1, <2>1 DEF QuietMeansCalm, CalmWorld
<1>4. CASE Scan
  <2>1. ASSUME quiet PROVE CalmMind' /\ CalmWorld'
    <3>1. CalmMind /\ CalmWorld
      BY <1>1, <2>1 DEF QuietMeansCalm
    <3>2. action' = Session(Matched)
      BY <1>4, <3>1 DEF Scan, CalmMind
    <3>3. action' = NoAction
      BY <3>1, <3>2, NoRulesNoMatch DEF CalmMind, Session, Matched
    <3> QED
      BY <1>4, <3>1, <3>3, MindAndWorldStay DEF Scan, world, file, power, CalmWorld
  <2>2. pc' = "converge" /\ UNCHANGED <<quiet, needs_sync, sync_apply, wake_checks>>
    BY <1>4 DEF Scan, sync
  <2> QED
    BY <1>1, <2>1, <2>2, QuietMovesOn
<1>5. CASE Converge
  <2> SUFFICES ASSUME quiet' PROVE CalmMind' /\ CalmWorld' /\ CalmWork'
    BY DEF QuietMeansCalm
  <2>1. CalmMind /\ CalmWorld /\ CalmWork
    BY <1>1, <1>5 DEF Converge, QuietMeansCalm
  <2>2. target = device_state
    BY <2>1, QuietParts, CalmTarget DEF CalmMind
  <2>3. pc' = "wake" /\ UNCHANGED <<device_state, job>>
    BY <1>5, <2>2 DEF Converge, Off
  <2>4. CalmMind' /\ CalmWorld'
    BY <1>5, <2>1, <2>3, FrameIsCalm DEF Converge, world
  <2>5. UNCHANGED <<needs_sync, sync_apply, wake_checks>>
    BY <1>5 DEF Converge, sync, loop
  <2> QED
    BY <2>1, <2>3, <2>4, <2>5 DEF CalmWork
<1> QED
  BY <1>2, <1>3, <1>4, <1>5

\* Of the wakes only a resume may write without Enforce, and that is not quiet.
LEMMA WakeStaysQuiet ==
  ASSUME QuietInv, WakeCheck \/ WakeDone
  PROVE  QuietMeansCalm'
<1>1. QuietMeansCalm
  BY DEF QuietInv
<1>2. CASE WakeDone
  BY <1>1, <1>2, QuietSkips DEF WakeDone, Skip, world, loop, sync
<1>3. CASE WakeCheck
  <2> SUFFICES ASSUME quiet' PROVE CalmMind' /\ CalmWorld' /\ CalmWork'
    BY DEF QuietMeansCalm
  <2>1. CalmMind /\ CalmWorld /\ CalmWork
    BY <1>1, <1>3 DEF WakeCheck, QuietMeansCalm
  <2>2. PICK s \in WakeSource :
          /\ wake_checks[s] > 0
          /\ wake_checks' = [wake_checks EXCEPT ![s] = @ - 1]
          /\ job' = [from |-> "wake", write |-> WakeMayWrite(s), failed |-> FALSE]
    BY <1>3 DEF WakeCheck
  <2>3. wake_checks["Resume"] = 0
    BY <2>1 DEF CalmWork
  <2>4. s = "DisplayOn"
    BY <2>2, <2>3 DEF WakeSource
  <2>5. wake_checks'["Resume"] = 0
    BY <2>2, <2>3, <2>4 DEF QuietInv, SavedInv, TypeOK, LoopOK, WakeSource
  <2>6. ~WakeMayWrite(s)
    BY <2>1, <2>4 DEF WakeMayWrite, CalmMind
  <2>7. CalmMind' /\ CalmWorld'
    BY <1>3, <2>1, FrameIsCalm DEF WakeCheck, world
  <2>8. UNCHANGED <<needs_sync, sync_apply>> /\ pc' = "reconcile"
    BY <1>3 DEF WakeCheck, sync
  <2>9. ~job'.write /\ ~job'.failed
    BY <2>2, <2>6
  <2> QED
    BY <2>1, <2>5, <2>7, <2>8, <2>9 DEF CalmWork
<1> QED
  BY <1>2, <1>3

\* The Fn keys' brightness goes into the intent and the profile alike.
LEMMA BrightnessIsCalm ==
  ASSUME QuietInv, CalmMind, CalmWorld, NEW b \in Brightness, ModeAfterReload = "Apply",
         TakesBrightness(b), UNCHANGED <<world, power>>
  PROVE  CalmMind' /\ CalmWorld'
<1> DEFINE c == [Loaded EXCEPT !.profile[source].keyboard_brightness = b]
<1>1. Loaded = config /\ LoadedHealth = health /\ LoadedAction = NoAction /\ ~edited
  BY DEF CalmMind, CalmWorld, Loaded, LoadedHealth, LoadedAction, Readable
<1>2. /\ config \in Config /\ source \in Source /\ health \in ConfigHealth
  BY DEF QuietInv, SavedInv, TypeOK, MemoryOK, PowerOK
<1>3. c.profile[source] = [config.profile[source] EXCEPT !.keyboard_brightness = b]
      /\ c.unset = config.unset /\ c.enforce = config.enforce
      /\ c.app_profiles = config.app_profiles
  BY <1>1, <1>2 DEF Config
<1>4. /\ device_state' = [device_state EXCEPT !.keyboard_brightness = b]
      /\ Store(c, NoAction)
  BY <1>1 DEF TakesBrightness
<1> HIDE DEF c
<1>5. config' = c /\ action' = NoAction /\ health' = health /\ ~edited'
  BY <1>1, <1>4 DEF Store
<1>6. UNCHANGED <<source, power_known, zones, plugged, told>>
  BY DEF world, power
<1>7. device_state' = config'.profile[source']
  BY <1>3, <1>4, <1>5, <1>6 DEF CalmMind
<1>8. ModeNow' = "Apply"
  BY <1>3, <1>5, <1>6 DEF CalmMind, ModeNow
<1>9. CalmMind'
  BY <1>3, <1>5, <1>7, <1>8 DEF CalmMind
<1> QED
  BY <1>5, <1>6, <1>9 DEF CalmWorld

LEMMA MirrorStaysQuiet ==
  ASSUME QuietInv, MirrorReads \/ MirrorFails \/ MirrorNotDue
  PROVE  QuietMeansCalm'
<1>1. QuietMeansCalm
  BY DEF QuietInv
<1>2. CASE MirrorNotDue
  BY <1>1, <1>2, QuietSkips DEF MirrorNotDue, Skip, world, loop, sync
<1>3. CASE MirrorFails
  <2>1. ASSUME quiet PROVE CalmMind' /\ CalmWorld'
    BY <1>1, <1>3, <2>1, FrameIsCalm DEF MirrorFails, QuietMeansCalm, world
  <2>2. pc' = "tick" /\ ~sync_apply' /\ UNCHANGED <<wake_checks, quiet>>
    BY <1>3 DEF MirrorFails, loop
  <2> QED
    BY <1>1, <2>1, <2>2 DEF QuietMeansCalm, CalmWork
<1>4. CASE MirrorReads
  <2> SUFFICES ASSUME quiet' PROVE CalmMind' /\ CalmWorld' /\ CalmWork'
    BY DEF QuietMeansCalm
  <2>1. /\ pc = "mirror" /\ io_ok /\ pc' = "tick"
        /\ UNCHANGED <<world, power, sync_apply, needs_sync, wake_checks>>
    BY <1>4 DEF MirrorReads, sync, loop
  <2>2. quiet \/ (Adopts /\ Undisturbed)
    BY <1>4 DEF MirrorReads, NoteReading
  <2>3. ASSUME needs_sync => ~sync_apply, wake_checks["Resume"] = 0
        PROVE  CalmWork'
    BY <2>1, <2>3 DEF CalmWork
  <2>4. CASE quiet
    <3>1. CalmMind /\ CalmWorld /\ CalmWork
      BY <1>1, <2>4 DEF QuietMeansCalm
    <3>2. MirrorTakes
      BY <1>4, <3>1 DEF MirrorReads, CalmMind
    <3>3. CalmWork'
      BY <2>3, <3>1 DEF CalmWork
    <3>4. CASE Reload /\ UNCHANGED device_state
      <4>1. config' = config /\ health' = health /\ action' = NoAction /\ ~edited'
        BY <3>1, <3>4 DEF Reload, Loaded, LoadedHealth, LoadedAction, Readable, CalmMind, CalmWorld
      <4>2. CalmMind' /\ CalmWorld'
        BY <2>1, <3>1, <3>4, <4>1, MindAndWorldStay DEF world, power
      <4> QED
        BY <3>3, <4>2
    <3>5. CASE ModeAfterReload = "Apply" /\ TakesBrightness(ec.keyboard_brightness)
      <4>1. ec.keyboard_brightness \in Brightness
        BY DEF QuietInv, SavedInv, TypeOK, WorldOK, DeviceState
      <4>2. CalmMind' /\ CalmWorld'
        BY <2>1, <3>1, <3>5, <4>1, BrightnessIsCalm
      <4> QED
        BY <3>3, <4>2
    <3> QED
      BY <3>2, <3>4, <3>5 DEF MirrorTakes
  <2>5. CASE Adopts /\ Undisturbed
    <3>1. Observe(ec)
      BY <1>4, <2>5 DEF MirrorReads, MirrorFollows, Adopts
    <3>2. CalmMind' /\ CalmWorld'
      BY <2>1, <2>5, <3>1, QuietParts, AdoptionIsCalm
    <3>3. ~needs_sync
      BY <2>1, <2>5, AdoptsWithNonePending DEF QuietInv, InPass
    <3>4. CalmWork'
      BY <2>3, <2>5, <3>3 DEF Undisturbed
    <3> QED
      BY <3>2, <3>4
  <2> QED
    BY <2>2, <2>4, <2>5
<1> QED
  BY <1>2, <1>3, <1>4

\* What another program does to a laptop at rest asks nothing of the tray.
LEMMA ExternalStaysQuiet ==
  ASSUME QuietInv, External
  PROVE  QuietMeansCalm'
<1> SUFFICES ASSUME quiet' PROVE CalmMind' /\ CalmWorld' /\ CalmWork'
  BY DEF QuietMeansCalm
<1>1. /\ UNCHANGED <<zones, plugged, told, file, memory, device_state, power, sync, pc, job, loop>>
      /\ quiet \/ Resting
  BY DEF External, Unmoved
<1>2. CalmMind /\ CalmWorld /\ CalmWork
  <2>1. CASE quiet
    BY <2>1, QuietParts
  <2>2. CASE Resting
    <3>1. CalmMind
      BY <2>2, QuietParts, CalmTarget DEF Resting, Undisturbed, CalmMind
    <3>2. CalmWorld
      BY <2>2, QuietParts DEF Resting, Undisturbed, CalmWorld, KnownOnceTold
    <3>3. CalmWork
      BY <2>2 DEF Resting, Undisturbed, CalmWork
    <3> QED
      BY <3>1, <3>2, <3>3
  <2> QED
    BY <1>1, <2>1, <2>2
<1>3. CalmMind' /\ CalmWorld'
  BY <1>1, <1>2, FrameIsCalm
<1>4. CalmWork'
  BY <1>1, <1>2 DEF CalmWork, sync, loop
<1> QED
  BY <1>3, <1>4

LEMMA WorldStaysQuiet ==
  ASSUME QuietInv, World \/ UNCHANGED vars
  PROVE  QuietMeansCalm'
<1>1. QuietMeansCalm
  BY DEF QuietInv
<1>2. CASE External
  BY <1>2, ExternalStaysQuiet
<1>3. CASE Tell
  <2>1. ~told /\ UNCHANGED quiet
    BY <1>3 DEF Tell
  <2> QED
    BY <1>1, <2>1 DEF QuietMeansCalm, CalmWorld
<1>4. CASE ExternalDies \/ Plug \/ ProcessComesOrGoes \/ EditProfile \/ EditRules \/ EditBreaks
           \/ Crash
  <2>1. quiet' = FALSE
    BY <1>4 DEF ExternalDies, Plug, ProcessComesOrGoes, EditProfile, EditRules, EditBreaks, Crash
  <2> QED
    BY <2>1, StopsBeingQuiet
<1>5. CASE SettleOver
  <2>1. ASSUME quiet PROVE CalmMind' /\ CalmWorld'
    <3>1. CalmMind /\ CalmWorld
      BY <1>1, <2>1 DEF QuietMeansCalm
    <3> QED
      BY <1>5, <3>1, MindAndWorldStay DEF SettleOver, world, file, memory, CalmMind, CalmWorld
  <2>2. pc = "tick" /\ UNCHANGED <<pc, quiet, needs_sync, sync_apply, wake_checks>>
    BY <1>5 DEF SettleOver, sync, loop
  <2> QED
    BY <1>1, <2>1, <2>2, QuietMovesOn
<1>6. CASE WakeArrives
  <2> SUFFICES ASSUME quiet' PROVE CalmMind' /\ CalmWorld' /\ CalmWork'
    BY DEF QuietMeansCalm
  <2>1. PICK s \in WakeSource :
          wake_checks' = [wake_checks EXCEPT ![s] = 2] /\ quiet' = (quiet /\ s # "Resume")
    BY <1>6 DEF WakeArrives
  <2>2. quiet /\ s # "Resume"
    BY <2>1
  <2>3. CalmMind /\ CalmWorld /\ CalmWork
    BY <2>2, QuietParts
  <2>4. CalmMind' /\ CalmWorld'
    BY <1>6, <2>3, FrameIsCalm DEF WakeArrives, world
  <2>5. wake_checks'["Resume"] = 0
    BY <2>1, <2>2, <2>3 DEF CalmWork, QuietInv, SavedInv, TypeOK, LoopOK, WakeSource
  <2>6. UNCHANGED <<needs_sync, sync_apply, pc, job>>
    BY <1>6 DEF WakeArrives, sync
  <2> QED
    BY <2>3, <2>4, <2>5, <2>6 DEF CalmWork
<1>7. CASE UNCHANGED vars
  BY <1>1, <1>7 DEF vars, world, file, memory, power, sync, loop, history, QuietMeansCalm, CalmMind,
                    CalmWorld, CalmWork, ModeNow
<1> QED
  BY <1>2, <1>3, <1>4, <1>5, <1>6, <1>7 DEF World

LEMMA QuietInit ==
  ASSUME NamedForFirstRuns, Init
  PROVE  QuietInv
BY SavedInit, FirstRunInit, PassInit DEF QuietInv, QuietMeansCalm, Init

LEMMA QuietStep ==
  ASSUME QuietInv, [Next]_vars
  PROVE  QuietInv'
<1>1. SavedInv' /\ FirstRunInv' /\ PassInv'
  BY SavedStep, FirstRunStep, PassStep, QuietParts DEF QuietInv
<1>2. QuietMeansCalm'
  BY ResyncStaysQuiet, ProbeStaysQuiet, ApplyIsNotQuiet, ReconcileStaysQuiet, ReassertIsNotQuiet,
     MenuStaysQuiet, PowerStaysQuiet, LatePassStaysQuiet, WakeStaysQuiet, MirrorStaysQuiet,
     WorldStaysQuiet DEF Next, Loop
<1> QED
  BY <1>1, <1>2 DEF QuietInv

\* Only an apply and the two re-asserts write what the config says, and none is quiet.
LEMMA QuietWritesNothing ==
  ASSUME QuietInv, [Next]_vars
  PROVE  [wrote' = "config" => ~quiet]_vars
<1> SUFFICES ASSUME Next, wrote' = "config" PROVE ~quiet
  OBVIOUS
<1>1. \/ ApplyDone \/ ApplyBusFails \/ ApplyRejected \/ ReconcileReasserts \/ MirrorReasserts
  BY WritersOfTheConfig
<1> QED
  BY <1>1, ApplyIsNotQuiet, ReassertIsNotQuiet

\* Without Enforce, once a reading has been adopted or another program has changed a laptop at
\* rest, no setting from the config reaches the device until somebody asks for it: not on a
\* failed read, a wake of the display, a poll of the power source or a Fn key (observe, sync,
\* reconcile, Mirror).  A first run whose power source Windows names late is left out.
THEOREM QuietTrayHolds ==
  ASSUME NamedForFirstRuns
  PROVE  Spec => QuietTray
<1>1. QuietInv /\ [Next]_vars => QuietInv'
  BY QuietStep
<1>2. QuietInv /\ [Next]_vars => [wrote' = "config" => ~quiet]_vars
  BY QuietWritesNothing
<1>3. Init => QuietInv
  BY QuietInit
<1> QED
  BY <1>1, <1>2, <1>3, PTL DEF Spec, QuietTray

-----------------------------------------------------------------------------
(* What a saved profile's mode may be.  A saved config and the file are followed together:  *)
(* every mode in them was chosen for its source, and their rules are ones that are allowed   *)
(* (any, or none where a scene has no Actions).                                              *)

Fits(c, given, allowed) ==
  (\A s \in Source : c.profile[s].perf_mode \in given[s]) /\ c.app_profiles \in allowed

LEMMA NormalizedMode ==
  ASSUME NEW d \in DeviceState
  PROVE  normalized(d).perf_mode = d.perf_mode
BY DEF normalized, DeviceState

LEMMA InMemoryFits ==
  ASSUME NEW c \in Config, NEW given, NEW allowed, Fits(c, given, allowed)
  PROVE  Fits(InMemory(c), given, allowed)
<1>1. InMemory(c).app_profiles = c.app_profiles
      /\ InMemory(c).profile = [s \in Source |-> normalized(c.profile[s])]
  BY DEF InMemory, Config
<1>2. \A s \in Source : c.profile[s] \in DeviceState
  BY DEF Config
<1> QED
  BY <1>1, <1>2, NormalizedMode DEF Fits

LEMMA SnapshotFits ==
  ASSUME NEW c \in Config, NEW given, NEW allowed,
         Fits(c, given, allowed), Fits(DefaultConfig, given, allowed)
  PROVE  Fits(Snapshot(c), given, allowed)
<1>1. Snapshot(c).app_profiles = c.app_profiles
      /\ Snapshot(c).profile = [s \in Source |-> IF s \in c.unset THEN Placeholder[s]
                                                 ELSE c.profile[s]]
  BY DEF Snapshot, Config
<1>2. DefaultConfig.profile = Placeholder
  BY DEF DefaultConfig
<1> QED
  BY <1>1, <1>2 DEF Fits

\* Memory, the file and the defaults.
AllFit(given, allowed) ==
  /\ Fits(config, given, allowed) /\ Fits(disk.config, given, allowed)
  /\ Fits(DefaultConfig, given, allowed)

LEMMA LoadedFits ==
  ASSUME TypeOK, NEW given, NEW allowed, AllFit(given, allowed)
  PROVE  Fits(Loaded, given, allowed) /\ Loaded \in Config
BY LoadedType, InMemoryFits DEF TypeOK, AllFit, Loaded

LEMMA StoreFits ==
  ASSUME NEW given, NEW allowed, AllFit(given, allowed), NEW c \in Config,
         Fits(c, given, allowed), NEW session, Store(c, session)
  PROVE  Fits(config', given, allowed) /\ Fits(disk'.config, given, allowed)
<1>1. Fits(Snapshot(c), given, allowed)
  BY SnapshotFits DEF AllFit
<1>2. disk' = disk \/ disk'.config = Snapshot(c)
  BY DEF Store
<1> QED
  BY <1>1, <1>2 DEF Store, AllFit

LEMMA ReloadFits ==
  ASSUME TypeOK, NEW given, NEW allowed, AllFit(given, allowed), Reload
  PROVE  Fits(config', given, allowed) /\ Fits(disk'.config, given, allowed)
BY LoadedFits DEF Reload, AllFit

LEMMA PersistFits ==
  ASSUME TypeOK, NEW given, NEW allowed, AllFit(given, allowed), NEW c \in Config,
         Fits(c, given, allowed), NEW session, Persist(c, session)
  PROVE  Fits(config', given, allowed) /\ Fits(disk'.config, given, allowed)
<1>1. CASE Readable
  <2>1. config' = InMemory(disk.config) /\ disk' = disk /\ disk.config \in Config
    BY <1>1, LoadedType DEF Persist, TypeOK
  <2> QED
    BY <2>1, InMemoryFits DEF AllFit
<1>2. CASE ~Readable
  BY <1>2, StoreFits DEF Persist
<1> QED
  BY <1>1, <1>2

\* A config with one profile replaced by one whose mode was chosen.
LEMMA ReplacedFits ==
  ASSUME NEW given, NEW allowed, NEW c \in Config, Fits(c, given, allowed), NEW s \in Source,
         NEW p \in DeviceState, p.perf_mode \in given[s], NEW unset \in SUBSET Source
  PROVE  /\ [c EXCEPT !.profile[s] = p, !.unset = unset] \in Config
         /\ Fits([c EXCEPT !.profile[s] = p, !.unset = unset], given, allowed)
<1> DEFINE d == [c EXCEPT !.profile[s] = p, !.unset = unset]
<1>1. d \in Config /\ d.app_profiles = c.app_profiles
  BY DEF Config
<1>2. \A t \in Source : d.profile[t] = IF t = s THEN p ELSE c.profile[t]
  BY DEF Config
<1> HIDE DEF d
<1>3. Fits(d, given, allowed)
  BY <1>1, <1>2 DEF Fits
<1> QED
  BY <1>1, <1>3 DEF d

LEMMA ObserveFits ==
  ASSUME TypeOK, NEW given, NEW allowed, AllFit(given, allowed), Observe(ec),
         Adopts => normalized(matching_intent(device_state, ec)).perf_mode \in given[source]
  PROVE  Fits(config', given, allowed) /\ Fits(disk'.config, given, allowed)
<1> DEFINE profile == normalized(matching_intent(device_state, ec))
           c == [config EXCEPT !.profile[source] = profile, !.unset = @ \ {source}]
<1>1. CASE UNCHANGED <<memory, file>>
  BY <1>1 DEF memory, file, AllFit
<1>2. CASE Adopts /\ \E session : Persist(c, session)
  <2>1. profile \in DeviceState
    BY MatchingIntentType, NormalizedType DEF TypeOK, IntentOK, WorldOK
  <2>2. config \in Config /\ source \in Source /\ profile.perf_mode \in given[source]
    BY <1>2 DEF TypeOK, MemoryOK, PowerOK
  <2> HIDE DEF profile
  <2>3. c = [config EXCEPT !.profile[source] = profile, !.unset = config.unset \ {source}]
        /\ config.unset \ {source} \in SUBSET Source
    BY <2>2 DEF Config
  <2>4. c \in Config /\ Fits(c, given, allowed)
    BY <2>1, <2>2, <2>3, ReplacedFits DEF AllFit
  <2> HIDE DEF c
  <2> QED
    BY <1>2, <2>4, PersistFits
<1> QED
  BY <1>1, <1>2 DEF Observe, Adopts

LEMMA MirrorTakesFits ==
  ASSUME TypeOK, NEW given, NEW allowed, AllFit(given, allowed), MirrorTakes
  PROVE  Fits(config', given, allowed) /\ Fits(disk'.config, given, allowed)
<1>1. CASE Reload
  BY <1>1, ReloadFits
<1>2. ASSUME NEW b \in Brightness, TakesBrightness(b)
      PROVE  Fits(config', given, allowed) /\ Fits(disk'.config, given, allowed)
  <2> DEFINE p == [Loaded.profile[source] EXCEPT !.keyboard_brightness = b]
             c == [Loaded EXCEPT !.profile[source].keyboard_brightness = b]
  <2>1. Loaded \in Config /\ Fits(Loaded, given, allowed) /\ source \in Source
    BY LoadedFits DEF TypeOK, PowerOK
  <2>2. Loaded.profile[source] \in DeviceState
    BY <2>1 DEF Config
  <2>3. p \in DeviceState /\ p.perf_mode = Loaded.profile[source].perf_mode
    BY <2>2 DEF DeviceState
  <2>4. c = [Loaded EXCEPT !.profile[source] = p, !.unset = Loaded.unset]
        /\ Loaded.unset \in SUBSET Source
    BY <2>1 DEF Config
  <2>5. \E session : Store(c, session)
    BY <1>2 DEF TakesBrightness
  <2>6. p.perf_mode \in given[source]
    BY <2>1, <2>3 DEF Fits
  <2> HIDE DEF c, p
  <2>7. c \in Config /\ Fits(c, given, allowed)
    BY <2>1, <2>3, <2>4, <2>6, ReplacedFits
  <2> QED
    BY <2>5, <2>7, StoreFits
<1>3. ec.keyboard_brightness \in Brightness
  BY DEF TypeOK, WorldOK, DeviceState
<1> QED
  BY <1>1, <1>2, <1>3 DEF MirrorTakes

LEMMA UpdateFits ==
  ASSUME TypeOK, NEW given, NEW allowed, AllFit(given, allowed), NEW wanted \in DeviceState,
         Update(wanted, "Menu"),
         ModeAfterReload = "Apply" /\ wanted.perf_mode # device_state.perf_mode
           => wanted.perf_mode \in given[source]
  PROVE  Fits(config', given, allowed) /\ Fits(disk'.config, given, allowed)
<1> DEFINE p == Saved("Menu", LoadedAction, normalized(wanted))
           c == IF ModeAfterReload = "Apply" THEN [Loaded EXCEPT !.profile[source] = p]
                ELSE Loaded
<1>1. Loaded \in Config /\ Fits(Loaded, given, allowed) /\ source \in Source
  BY LoadedFits DEF TypeOK, PowerOK
<1>2. p \in DeviceState
  BY SavedNormal
<1>3. p.perf_mode = Carried(Loaded.profile[source].perf_mode, device_state.perf_mode,
                            wanted.perf_mode)
  <2> DEFINE carried == carry_changes(Loaded.profile[source], device_state, normalized(wanted))
  <2>1. normalized(wanted) \in DeviceState /\ device_state \in DeviceState
    BY NormalizedType DEF TypeOK, IntentOK
  <2>2. Loaded.profile[source] \in DeviceState
    BY <1>1 DEF Config
  <2>3. carried \in DeviceState
    BY <2>1, <2>2, CarryType
  <2>4. p = normalized(carried)
    BY DEF Saved
  <2>5. carried.perf_mode = Carried(Loaded.profile[source].perf_mode, device_state.perf_mode,
                                    normalized(wanted).perf_mode)
    BY DEF carry_changes
  <2> HIDE DEF carried, p
  <2> QED
    BY <2>3, <2>4, <2>5, NormalizedMode
<1> HIDE DEF p
<1>4. CASE ModeAfterReload = "Apply"
  <2>1. p.perf_mode \in given[source]
    BY <1>1, <1>3, <1>4 DEF Carried, Fits
  <2>2. c = [Loaded EXCEPT !.profile[source] = p, !.unset = Loaded.unset]
        /\ Loaded.unset \in SUBSET Source
    BY <1>1, <1>4 DEF Config
  <2> HIDE DEF c
  <2>3. c \in Config /\ Fits(c, given, allowed)
    BY <1>1, <1>2, <2>1, <2>2, ReplacedFits
  <2>4. \E session : Store(c, session)
    BY DEF Update, c, p
  <2> QED
    BY <2>3, <2>4, StoreFits
<1>5. CASE ModeAfterReload # "Apply"
  BY <1>1, <1>5, StoreFits DEF Update
<1> QED
  BY <1>4, <1>5

\* Modes are chosen one at a time, and stay chosen.
LEMMA ChoosesOne ==
  ASSUME Next \/ UNCHANGED vars
  PROVE  UNCHANGED chosen
         \/ \E s, p : s \in {source} \cup Source /\ chosen' = [chosen EXCEPT ![s] = @ \cup {p}]
<1> DEFINE Adds(s, p) == chosen' = [chosen EXCEPT ![s] = @ \cup {p}]
           One == UNCHANGED chosen \/ \E s, p : s \in {source} \cup Source /\ Adds(s, p)
<1>1. ASSUME NoteReading PROVE One
  BY <1>1 DEF NoteReading
<1>2. ASSUME SyncProbe \/ ReconcileReads \/ Hover \/ MirrorReads PROVE One
  <2>1. UNCHANGED chosen \/ NoteReading
    BY <1>2 DEF SyncProbe, ReconcileReads, Hover, MirrorReads
  <2> QED
    BY <1>1, <2>1
<1>3. ASSUME Start \/ ResyncDue \/ ResyncNotDue \/ SyncApply \/ ApplyDeferred \/ ApplyDone
             \/ ApplyBusFails \/ ApplyRejected
      PROVE  One
  BY <1>3 DEF Start, ResyncDue, ResyncNotDue, SyncApply, ApplyDeferred, ApplyDone, ApplyBusFails,
              ApplyRejected, Apply, Skip
<1>4. ASSUME ReconcileFails \/ ReconcileReasserts \/ MenuDone \/ NoClick \/ PowerPoll
             \/ ConfigReload \/ ConfigNotDue \/ Scan \/ ScanNotDue \/ Converge
      PROVE  One
  BY <1>4 DEF ReconcileFails, ReconcileReasserts, MenuDone, NoClick, PowerPoll, ConfigReload,
              ConfigNotDue, Scan, ScanNotDue, Converge, Skip
<1>5. ASSUME WakeCheck \/ WakeDone \/ MirrorReasserts \/ MirrorFindsDiverged \/ MirrorFails
             \/ MirrorNotDue
      PROVE  One
  BY <1>5 DEF WakeCheck, WakeDone, MirrorReasserts, MirrorFindsDiverged, MirrorFails,
              MirrorNotDue, Skip
<1>6. ASSUME User PROVE One
  BY <1>6 DEF User, MenuPick, ToggleEnforce, ResetConfig, Click
<1>7. ASSUME World PROVE One
  BY <1>7 DEF World, External, ExternalDies, Plug, Tell, ProcessComesOrGoes, EditProfile,
              EditRules, EditBreaks, WakeArrives, SettleOver, Crash
<1>8. ASSUME UNCHANGED vars PROVE One
  BY <1>8 DEF vars, history
<1> QED
  BY <1>2, <1>3, <1>4, <1>5, <1>6, <1>7, <1>8 DEF Next, Loop

LEMMA StaysChosen ==
  ASSUME TypeOK, Next \/ UNCHANGED vars, NEW allowed, AllFit(chosen, allowed)
  PROVE  AllFit(chosen', allowed)
<1>1. chosen \in [Source -> SUBSET PerfMode] /\ source \in Source
  BY DEF TypeOK, HistoryOK, PowerOK
<1>2. \A s \in Source : chosen[s] \subseteq chosen'[s]
  BY <1>1, ChoosesOne
<1> QED
  BY <1>2 DEF AllFit, Fits

\* A reading that is adopted was chosen with it, unless an Action's mode shows in it.
LEMMA ReadingFits ==
  ASSUME TypeOK, NEW allowed, AllFit(chosen', allowed), Observe(ec), NoteReading,
         Adopts => ~ActionShows
  PROVE  Fits(config', chosen', allowed) /\ Fits(disk'.config, chosen', allowed)
<1>1. chosen \in [Source -> SUBSET PerfMode] /\ source \in Source
  BY DEF TypeOK, HistoryOK, PowerOK
<1>2. Adopts => normalized(matching_intent(device_state, ec)).perf_mode \in chosen'[source]
  BY <1>1 DEF NoteReading
<1> QED
  BY <1>2, ObserveFits

LEMMA StartFits ==
  ASSUME TypeOK, NEW given, NEW allowed, AllFit(given, allowed), Start
  PROVE  Fits(config', given, allowed) /\ Fits(disk'.config, given, allowed)
<1>1. disk.config \in Config /\ DefaultConfig \in Config
  BY DefaultConfigType DEF TypeOK, FileOK
<1>2. disk' = disk /\ (config' = InMemory(disk.config) \/ config' = InMemory(DefaultConfig))
  BY DEF Start, Boot
<1> QED
  BY <1>1, <1>2, InMemoryFits DEF AllFit

LEMMA LoopFits ==
  ASSUME TypeOK, NEW allowed, AllFit(chosen', allowed), Loop, Adopts => ~ActionShows
  PROVE  Fits(config', chosen', allowed) /\ Fits(disk'.config, chosen', allowed)
<1>1. CASE UNCHANGED <<config, disk>>
  BY <1>1 DEF AllFit
<1>2. CASE Start
  BY <1>2, StartFits
<1>3. CASE ResyncDue \/ ResyncNotDue \/ SyncApply \/ ApplyDeferred
  <2>1. UNCHANGED <<config, disk>>
    BY <1>3 DEF ResyncDue, ResyncNotDue, SyncApply, ApplyDeferred, Skip, memory, file
  <2> QED
    BY <1>1, <2>1
<1>4. CASE ApplyDone \/ ApplyBusFails \/ ApplyRejected
  <2>1. \E ws, z, bus : Apply(ws, z, bus)
    BY <1>4 DEF ApplyDone, ApplyBusFails, ApplyRejected
  <2>2. UNCHANGED <<config, disk>>
    BY <2>1 DEF Apply, memory, file
  <2> QED
    BY <1>1, <2>2
<1>5. CASE SyncProbe \/ ReconcileReads \/ Hover
  <2>1. (Observe(ec) /\ NoteReading) \/ UNCHANGED <<memory, file>>
    BY <1>5 DEF SyncProbe, ReconcileReads, Hover, NoRead
  <2> QED
    BY <1>1, <2>1, ReadingFits DEF memory, file
<1>6. CASE ReconcileFails \/ ReconcileReasserts \/ MenuDone \/ NoClick \/ PowerPoll
           \/ ConfigNotDue \/ Scan \/ ScanNotDue \/ Converge
  <2>1. UNCHANGED <<config, disk>>
    BY <1>6 DEF ReconcileFails, ReconcileReasserts, MenuDone, NoClick, PowerPoll, ConfigNotDue,
                Scan, ScanNotDue, Converge, Skip, NoRead, memory, file
  <2> QED
    BY <1>1, <2>1
<1>7. CASE ConfigReload
  BY <1>7, ReloadFits DEF ConfigReload
<1>8. CASE WakeCheck \/ WakeDone \/ MirrorFindsDiverged \/ MirrorFails \/ MirrorNotDue
  <2>1. UNCHANGED <<config, disk>>
    BY <1>8 DEF WakeCheck, WakeDone, MirrorFindsDiverged, MirrorFails, MirrorNotDue, Skip,
                memory, file
  <2> QED
    BY <1>1, <2>1
<1>9. CASE MirrorReads
  <2>1. NoteReading /\ (MirrorTakes \/ MirrorFollows)
    BY <1>9 DEF MirrorReads
  <2>2. MirrorTakes \/ Reload \/ Observe(ec)
    BY <2>1 DEF MirrorFollows
  <2> QED
    BY <2>1, <2>2, MirrorTakesFits, ReloadFits, ReadingFits
<1>10. CASE MirrorReasserts
  BY <1>10, MirrorTakesFits DEF MirrorReasserts
<1> QED
  BY <1>2, <1>3, <1>4, <1>5, <1>6, <1>7, <1>8, <1>9, <1>10 DEF Loop

LEMMA UserFits ==
  ASSUME TypeOK, NEW allowed, AllFit(chosen', allowed), User, left["click"] = 0
  PROVE  Fits(config', chosen', allowed) /\ Fits(disk'.config, chosen', allowed)
<1>1. device_state \in DeviceState /\ source \in Source
      /\ chosen \in [Source -> SUBSET PerfMode]
  BY DEF TypeOK, IntentOK, PowerOK, HistoryOK
<1>2. CASE MenuPick
  <2>1. PICK wanted \in MenuItems :
          /\ Update(wanted, "Menu")
          /\ chosen' = IF ModeAfterReload = "Apply" /\ wanted.perf_mode # device_state.perf_mode
                       THEN [chosen EXCEPT ![source] = @ \cup {wanted.perf_mode}] ELSE chosen
    BY <1>2 DEF MenuPick
  <2>2. wanted \in DeviceState
    BY <1>1, MenuItemsType
  <2>3. ModeAfterReload = "Apply" /\ wanted.perf_mode # device_state.perf_mode
          => wanted.perf_mode \in chosen'[source]
    BY <1>1, <2>1
  <2> QED
    BY <2>1, <2>2, <2>3, UpdateFits
<1>3. ~Click
  BY SpendsAnother DEF Click, Event
<1>4. CASE ToggleEnforce
  <2> DEFINE c == [Loaded EXCEPT !.enforce = ~@]
  <2>1. Loaded \in Config /\ Fits(Loaded, chosen', allowed)
    BY LoadedFits
  <2>2. c \in Config /\ c.profile = Loaded.profile /\ c.app_profiles = Loaded.app_profiles
    BY <2>1 DEF Config
  <2>3. Store(c, LoadedAction)
    BY <1>4 DEF ToggleEnforce
  <2> HIDE DEF c
  <2>4. Fits(c, chosen', allowed)
    BY <2>1, <2>2 DEF Fits
  <2> QED
    BY <2>2, <2>3, <2>4, StoreFits
<1>5. CASE ResetConfig
  <2>1. config' = InMemory(FirstRun) /\ disk' = [parses |-> TRUE, config |-> FirstRun]
    BY <1>5 DEF ResetConfig
  <2>2. FirstRun.profile = DefaultConfig.profile
        /\ FirstRun.app_profiles = DefaultConfig.app_profiles
    BY DefaultConfigType DEF FirstRun, Config
  <2>3. Fits(FirstRun, chosen', allowed)
    BY <2>2 DEF AllFit, Fits
  <2> QED
    BY <2>1, <2>3, DefaultConfigType, InMemoryFits
<1> QED
  BY <1>2, <1>3, <1>4, <1>5 DEF User

LEMMA WorldFits ==
  ASSUME TypeOK, NEW allowed, AllFit(chosen', allowed), World \/ UNCHANGED vars,
         left["edit"] = 0 \/ RuleSets \subseteq allowed
  PROVE  Fits(config', chosen', allowed) /\ Fits(disk'.config, chosen', allowed)
<1>1. config' = config /\ Fits(config, chosen', allowed) /\ Fits(disk.config, chosen', allowed)
  BY DEF World, External, ExternalDies, Plug, Tell, ProcessComesOrGoes, EditProfile,
         EditRules, EditBreaks, WakeArrives, SettleOver, Crash, Unmoved, memory, vars, AllFit
<1>2. disk.config \in Config /\ disk \in [parses : BOOLEAN, config : Config]
      /\ chosen \in [Source -> SUBSET PerfMode]
  BY DEF TypeOK, FileOK, HistoryOK
<1>3. CASE UNCHANGED disk
  BY <1>1, <1>3
<1>4. CASE EditProfile
  <2> DEFINE Edited(s, p) == [disk.config EXCEPT !.profile[s].perf_mode = p]
  <2>a. PICK s \in Source, p \in OtherPerf :
          /\ disk' = [parses |-> TRUE, config |-> Edited(s, p)]
          /\ chosen' = [chosen EXCEPT ![s] = @ \cup {p}]
    BY <1>4, Zenon DEF EditProfile
  <2>1. disk'.config = [disk.config EXCEPT !.profile[s].perf_mode = p]
    BY <2>a
  <2>2. disk'.config.app_profiles = disk.config.app_profiles
    BY <1>2, <2>1 DEF Config
  <2>3. disk.config.profile \in [Source -> DeviceState]
    BY <1>2 DEF Config
  <2>4. \A t \in Source : disk'.config.profile[t] =
          IF t = s THEN [disk.config.profile[t] EXCEPT !.perf_mode = p]
          ELSE disk.config.profile[t]
    BY <1>2, <2>1 DEF Config
  <2>5. \A t \in Source : disk'.config.profile[t].perf_mode =
          IF t = s THEN p ELSE disk.config.profile[t].perf_mode
    BY <2>3, <2>4 DEF DeviceState
  <2>6. p \in chosen'[s]
    BY <1>2, <2>a
  <2> QED
    BY <1>1, <2>2, <2>5, <2>6 DEF Fits
<1>5. CASE EditRules
  <2>1. PICK rules \in RuleSets : disk'.config = [disk.config EXCEPT !.app_profiles = rules]
    BY <1>5 DEF EditRules
  <2>2. disk'.config.profile = disk.config.profile /\ disk'.config.app_profiles = rules
    BY <1>2, <2>1 DEF Config
  <2>3. RuleSets \subseteq allowed
    BY <1>5, SpendsAnother DEF EditRules, Event
  <2> QED
    BY <1>1, <2>2, <2>3 DEF Fits
<1>6. CASE EditBreaks
  <2>1. disk'.config = disk.config
    BY <1>2, <1>6 DEF EditBreaks
  <2> QED
    BY <1>1, <2>1
<1>7. UNCHANGED disk \/ EditProfile \/ EditRules \/ EditBreaks
  BY DEF World, External, ExternalDies, Plug, Tell, ProcessComesOrGoes, WakeArrives, SettleOver,
         Crash, file, vars
<1> QED
  BY <1>3, <1>4, <1>5, <1>6, <1>7

\* What the two findings about saved modes need is left out: no cycle, whose mode is saved
\* once a session has ended, and no reading adopted while an Action runs, because every
\* profile is set or no rule is ever loaded.
NoActionAdopted ==
  \A scene \in Scenes :
    /\ scene.budget["click"] = 0
    /\ \/ scene.config.unset = {} /\ scene.budget["reset"] = 0
       \/ /\ scene.config.app_profiles = << >>
          /\ scene.budget["edit"] = 0 \/ RuleSets \subseteq {<< >>}

NeverActs == action = NoAction /\ (left["edit"] = 0 \/ RuleSets \subseteq {<< >>})

ChosenInv ==
  /\ left["click"] = 0
  /\ \/ AllFit(chosen, RuleLists) /\ NeverUnset
     \/ AllFit(chosen, {<< >>}) /\ NeverActs

LEMMA NoSessionLoaded ==
  ASSUME action = NoAction
  PROVE  /\ LoadedAction = NoAction
         /\ \A c, kept : kept = NoAction /\ (Store(c, kept) \/ Persist(c, kept))
                           => action' = NoAction
BY DEF LoadedAction, Kept, Store, Persist

LEMMA NoSessionRead ==
  ASSUME action = NoAction, Observe(ec) \/ MirrorTakes \/ MirrorFollows \/ Reload
  PROVE  action' = NoAction
<1>1. LoadedAction = NoAction
  BY NoSessionLoaded
<1>2. CASE UNCHANGED memory
  BY <1>2 DEF memory
<1>3. CASE Reload
  BY <1>1, <1>3 DEF Reload
<1>4. CASE Observe(ec)
  <2> DEFINE profile == normalized(matching_intent(device_state, ec))
             c == [config EXCEPT !.profile[source] = profile, !.unset = @ \ {source}]
             moved == IF action # NoAction /\ action.rule \in DOMAIN config.app_profiles
                      THEN [action EXCEPT !.effective =
                              power_changed(config.app_profiles[action.rule], @,
                                            saved_profile, profile)]
                      ELSE action
  <2>1. UNCHANGED memory \/ Persist(c, moved)
    BY <1>4 DEF Observe
  <2>2. moved = NoAction
    OBVIOUS
  <2> HIDE DEF moved, c
  <2> QED
    BY <1>2, <2>1, <2>2, NoSessionLoaded
<1>5. ASSUME NEW b, TakesBrightness(b) PROVE action' = NoAction
  <2>1. \E c : Store(c, NoAction)
    BY <1>1, <1>5 DEF TakesBrightness
  <2> QED
    BY <2>1, NoSessionLoaded
<1> QED
  BY <1>3, <1>4, <1>5 DEF MirrorTakes, MirrorFollows

\* Without a rule no step begins a session.
LEMMA LoopBeginsNone ==
  ASSUME action = NoAction, config.app_profiles = << >>, Loop
  PROVE  action' = NoAction
<1>1. CASE UNCHANGED action
  BY <1>1
<1>2. CASE Start
  BY <1>2 DEF Start, Boot
<1>3. CASE ResyncDue \/ ResyncNotDue \/ SyncApply \/ ApplyDeferred
  <2>1. UNCHANGED action
    BY <1>3 DEF ResyncDue, ResyncNotDue, SyncApply, ApplyDeferred, Skip, memory
  <2> QED
    BY <1>1, <2>1
<1>4. CASE ApplyDone \/ ApplyBusFails \/ ApplyRejected
  <2>1. \E ws, z, bus : Apply(ws, z, bus)
    BY <1>4 DEF ApplyDone, ApplyBusFails, ApplyRejected
  <2>2. UNCHANGED action
    BY <2>1 DEF Apply, memory
  <2> QED
    BY <1>1, <2>2
<1>5. CASE SyncProbe \/ ReconcileReads \/ Hover \/ ConfigReload
  <2>1. Observe(ec) \/ Reload \/ UNCHANGED memory
    BY <1>5 DEF SyncProbe, ReconcileReads, Hover, ConfigReload, NoRead
  <2> QED
    BY <1>1, <2>1, NoSessionRead DEF memory
<1>6. CASE ReconcileFails \/ ReconcileReasserts \/ MenuDone \/ NoClick \/ ConfigNotDue
           \/ ScanNotDue \/ Converge
  <2>1. UNCHANGED action
    BY <1>6 DEF ReconcileFails, ReconcileReasserts, MenuDone, NoClick, ConfigNotDue, ScanNotDue,
                Converge, Skip, NoRead, memory
  <2> QED
    BY <1>1, <2>1
<1>7. CASE PowerPoll
  BY <1>7 DEF PowerPoll
<1>8. CASE Scan
  <2>1. action' = Session(Matched) /\ Matched = 0
    BY <1>8, NoRulesNoMatch DEF Scan, Matched
  <2> QED
    BY <2>1 DEF Session
<1>9. CASE WakeCheck \/ WakeDone \/ MirrorFindsDiverged \/ MirrorFails \/ MirrorNotDue
  <2>1. UNCHANGED action
    BY <1>9 DEF WakeCheck, WakeDone, MirrorFindsDiverged, MirrorFails, MirrorNotDue, Skip, memory
  <2> QED
    BY <1>1, <2>1
<1>10. CASE MirrorReads \/ MirrorReasserts
  BY <1>10, NoSessionRead DEF MirrorReads, MirrorReasserts
<1> QED
  BY <1>2, <1>3, <1>4, <1>5, <1>6, <1>7, <1>8, <1>9, <1>10 DEF Loop

LEMMA OthersBeginNone ==
  ASSUME action = NoAction, User \/ World \/ UNCHANGED vars
  PROVE  action' = NoAction
<1>1. ASSUME MenuPick \/ Click PROVE action' = NoAction
  <2>1. \E wanted, pick : Update(wanted, pick)
    BY <1>1 DEF MenuPick, Click
  <2>2. \E c : Store(c, NoAction)
    BY <2>1, NoSessionLoaded DEF Update
  <2> QED
    BY <2>2, NoSessionLoaded
<1>2. ASSUME ToggleEnforce PROVE action' = NoAction
  <2>1. \E c : Store(c, LoadedAction)
    BY <1>2 DEF ToggleEnforce
  <2> QED
    BY <2>1, NoSessionLoaded
<1>3. ASSUME ResetConfig PROVE action' = NoAction
  BY <1>3 DEF ResetConfig, Kept
<1>4. ASSUME World \/ UNCHANGED vars PROVE action' = NoAction
  BY <1>4 DEF World, External, ExternalDies, Plug, Tell, ProcessComesOrGoes, EditProfile,
              EditRules, EditBreaks, WakeArrives, SettleOver, Crash, Unmoved, memory, vars
<1> QED
  BY <1>1, <1>2, <1>3, <1>4 DEF User

LEMMA ChosenInit ==
  ASSUME NoActionAdopted, Init
  PROVE  ChosenInv
<1>1. PICK scene \in Scenes :
        /\ left = scene.budget
        /\ disk = [parses |-> scene.parses, config |-> scene.config]
        /\ config = InMemory(scene.config)
        /\ chosen = [s \in Source |-> {Placeholder[s].perf_mode,
                                       scene.config.profile[s].perf_mode}]
  BY DEF Init
<1>2. scene.config \in Config /\ DefaultConfig \in Config
  BY ConfigAssumption, DefaultConfigType DEF Scene
<1>3. ASSUME NEW allowed, scene.config.app_profiles \in allowed, << >> \in allowed
      PROVE  AllFit(chosen, allowed)
  <2>1. Fits(scene.config, chosen, allowed)
    BY <1>1, <1>3 DEF Fits
  <2>2. Fits(DefaultConfig, chosen, allowed)
    BY <1>1, <1>3 DEF DefaultConfig, Fits
  <2> QED
    BY <1>1, <1>2, <2>1, <2>2, InMemoryFits DEF AllFit
<1>4. left["click"] = 0
  BY <1>1 DEF NoActionAdopted
<1>5. CASE scene.config.unset = {} /\ scene.budget["reset"] = 0
  <2>1. InMemory(scene.config).unset = UnsetIn(scene.config)
    BY <1>2 DEF InMemory, Config
  <2>2. NeverUnset
    BY <1>1, <1>5, <2>1 DEF NeverUnset, UnsetIn
  <2>3. scene.config.app_profiles \in RuleLists /\ << >> \in RuleLists
    BY <1>2 DEF Config, RuleLists
  <2> QED
    BY <1>3, <1>4, <2>2, <2>3 DEF ChosenInv
<1>6. CASE /\ scene.config.app_profiles = << >>
           /\ scene.budget["edit"] = 0 \/ RuleSets \subseteq {<< >>}
  <2>1. NeverActs
    BY <1>1, <1>6 DEF NeverActs, Init
  <2> QED
    BY <1>3, <1>4, <1>6, <2>1 DEF ChosenInv
<1> QED
  BY <1>5, <1>6 DEF NoActionAdopted

\* Memory and the file hold chosen modes after a step when they did before it.
LEMMA FitStep ==
  ASSUME TypeOK, left["click"] = 0, NEW allowed, AllFit(chosen, allowed),
         Next \/ UNCHANGED vars, Adopts => ~ActionShows,
         left["edit"] = 0 \/ RuleSets \subseteq allowed
  PROVE  AllFit(chosen, allowed)'
<1>1. AllFit(chosen', allowed)
  BY StaysChosen
<1>2. Fits(config', chosen', allowed) /\ Fits(disk'.config, chosen', allowed)
  BY <1>1, LoopFits, UserFits, WorldFits DEF Next
<1>3. Fits(DefaultConfig, chosen', allowed)
  BY <1>1 DEF AllFit
<1> QED
  BY <1>2, <1>3 DEF AllFit, Fits

LEMMA ChosenStep ==
  ASSUME TypeOK, ChosenInv, Next \/ UNCHANGED vars
  PROVE  ChosenInv'
<1>1. left["click"] = 0 /\ left'["click"] = 0
  BY StaysSpent DEF ChosenInv, Event
<1>2. CASE AllFit(chosen, RuleLists) /\ NeverUnset
  <2>1. ~Adopts /\ RuleSets \subseteq RuleLists
    BY <1>2, NothingToAdopt DEF Adopts, RuleLists
  <2>2. AllFit(chosen, RuleLists)'
    BY <1>1, <1>2, <2>1, FitStep DEF RuleLists
  <2> QED
    BY <1>1, <1>2, <2>2, NeverUnsetStep DEF ChosenInv
<1>3. CASE AllFit(chosen, {<< >>}) /\ NeverActs
  <2>1. action = NoAction /\ config.app_profiles = << >>
    BY <1>3 DEF NeverActs, AllFit, Fits
  <2>2. ~ActionShows
    BY <2>1 DEF ActionShows
  <2>3. AllFit(chosen, {<< >>})'
    BY <1>1, <1>3, <2>2, FitStep DEF NeverActs
  <2>4. action' = NoAction
    BY <2>1, LoopBeginsNone, OthersBeginNone DEF Next
  <2>5. left["edit"] = 0 => left'["edit"] = 0
    BY StaysSpent DEF Event
  <2>6. NeverActs'
    BY <1>3, <2>4, <2>5 DEF NeverActs
  <2> QED
    BY <1>1, <2>3, <2>6 DEF ChosenInv
<1> QED
  BY <1>2, <1>3 DEF ChosenInv

\* An Action's mode is never saved into a profile: not by a pick during its session, which
\* saves what the pick changed, nor by a Fn key, a plug, an edit or a failed exchange (update,
\* carry_changes, power_changed).  A cycle, and a reading adopted while an Action runs, do
\* save it and are left out.
THEOREM ActionNeverSavedHolds ==
  ASSUME NoActionAdopted
  PROVE  Spec => []ActionNeverSaved
<1>1. Init => TypeOK /\ ChosenInv
  BY TypeInit, ChosenInit
<1>2. (TypeOK /\ ChosenInv) /\ [Next]_vars => (TypeOK /\ ChosenInv)'
  <2>1. ASSUME TypeOK, ChosenInv, [Next]_vars
        PROVE  TypeOK' /\ ChosenInv'
    BY <2>1, LoopKeepsTypes, OthersKeepTypes, ChosenStep DEF Next
  <2> QED
    BY <2>1
<1>3. ChosenInv => ActionNeverSaved
  BY DEF ChosenInv, AllFit, Fits, ActionNeverSaved
<1> QED
  BY <1>1, <1>2, <1>3, PTL DEF Spec
=============================================================================
