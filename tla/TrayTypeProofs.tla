---------------------------- MODULE TrayTypeProofs ----------------------------
(* Every variable of Tray keeps its type, for every value of the constants.  One lemma     *)
(* per part of the state that several actions change, then one per phase of the loop.      *)
EXTENDS Tray, ProfileProofs

-----------------------------------------------------------------------------
(* Configs and sessions *)

LEMMA PlaceholderType ==
  /\ DefaultState \in DeviceState
  /\ Placeholder \in [Source -> DeviceState]
  /\ Placeholder["ac"].perf_mode = "Performance"
  /\ Placeholder["battery"].perf_mode = "Battery"
<1>1. DefaultState \in DeviceState
  BY SettingAssumption DEF DefaultState, DeviceState, PerfMode, FanSpeed, AutoFan
<1>2. [DefaultState EXCEPT !.perf_mode = "Battery"] \in DeviceState
  BY <1>1 DEF DeviceState, PerfMode
<1> QED
  BY <1>1, <1>2 DEF Placeholder, Source, DefaultState

LEMMA DefaultConfigType == DefaultConfig \in Config /\ FirstRun \in Config
<1>1. << >> \in RuleLists
  BY DEF RuleLists
<1>2. DefaultConfig \in Config
  BY <1>1, PlaceholderType DEF DefaultConfig, Config
<1> QED
  BY <1>2 DEF FirstRun, Config

LEMMA InMemoryType ==
  ASSUME NEW c \in Config
  PROVE  InMemory(c) \in Config
<1>1. [s \in Source |-> normalized(c.profile[s])] \in [Source -> DeviceState]
  BY NormalizedType DEF Config
<1>2. UnsetIn(c) \subseteq Source
  BY DEF UnsetIn, Config
<1> QED
  BY <1>1, <1>2 DEF InMemory, Config

LEMMA SnapshotType ==
  ASSUME NEW c \in Config
  PROVE  Snapshot(c) \in Config
<1>1. [s \in Source |-> IF s \in c.unset THEN Placeholder[s] ELSE c.profile[s]]
        \in [Source -> DeviceState]
  BY PlaceholderType DEF Config
<1> QED
  BY <1>1 DEF Snapshot, Config

LEMMA RuleType ==
  ASSUME NEW c \in Config, NEW i \in DOMAIN c.app_profiles
  PROVE  IsRule(c.app_profiles[i]) /\ i \in Nat \ {0}
BY ConfigAssumption DEF Config

LEMMA KeptType ==
  ASSUME NEW session \in ActionSession \cup {NoAction}, NEW old, NEW new
  PROVE  Kept(session, old, new) \in ActionSession \cup {NoAction}
BY DEF Kept

LEMMA HeldType ==
  ASSUME NEW session \in ActionSession \cup {NoAction}, NEW d \in DeviceState
  PROVE  (IF session = NoAction THEN NoAction ELSE [session EXCEPT !.effective = d])
           \in ActionSession \cup {NoAction}
BY DEF ActionSession

-----------------------------------------------------------------------------
(* Loading and saving *)

LEMMA LoadedType ==
  ASSUME FileOK, MemoryOK
  PROVE  /\ Loaded \in Config
         /\ LoadedHealth \in ConfigHealth
         /\ LoadedAction \in ActionSession \cup {NoAction}
         /\ disk.config \in Config /\ disk.parses \in BOOLEAN
<1>1. disk.config \in Config /\ disk.parses \in BOOLEAN
  BY DEF FileOK
<1> QED
  BY <1>1, InMemoryType, KeptType DEF Loaded, LoadedHealth, LoadedAction, MemoryOK, ConfigHealth

LEMMA ReloadType ==
  ASSUME FileOK, MemoryOK, Reload
  PROVE  FileOK' /\ MemoryOK'
<1>1. (edited /\ ~Readable) \in BOOLEAN
  OBVIOUS
<1> QED
  BY <1>1, LoadedType DEF Reload, FileOK, MemoryOK

LEMMA StoreType ==
  ASSUME FileOK, MemoryOK, NEW c \in Config,
         NEW session \in ActionSession \cup {NoAction}, Store(c, session)
  PROVE  FileOK' /\ MemoryOK'
<1>1. (edited /\ ~Readable) \in BOOLEAN
  OBVIOUS
<1>2. MemoryOK'
  BY LoadedType DEF Store, MemoryOK
<1>3. [parses |-> TRUE, config |-> Snapshot(c)] \in [parses : BOOLEAN, config : Config]
  BY SnapshotType
<1> QED
  BY <1>1, <1>2, <1>3 DEF Store, FileOK

LEMMA PersistType ==
  ASSUME FileOK, MemoryOK, NEW c \in Config,
         NEW session \in ActionSession \cup {NoAction}, Persist(c, session)
  PROVE  FileOK' /\ MemoryOK'
<1>1. CASE Readable
  <2>1. InMemory(disk.config) \in Config
    BY LoadedType, InMemoryType
  <2>2. Kept(session, c.app_profiles, disk.config.app_profiles) \in ActionSession \cup {NoAction}
    BY KeptType
  <2> QED
    BY <1>1, <2>1, <2>2 DEF Persist, FileOK, MemoryOK, ConfigHealth
<1>2. CASE ~Readable
  BY <1>2, StoreType DEF Persist
<1> QED
  BY <1>1, <1>2

-----------------------------------------------------------------------------
(* The target, the writes and the readings *)

LEMMA SavedProfileType ==
  ASSUME MemoryOK, PowerOK
  PROVE  saved_profile \in DeviceState
BY DEF saved_profile, MemoryOK, PowerOK, Config

LEMMA EffectiveType ==
  ASSUME MemoryOK, action # NoAction
  PROVE  action.effective \in DeviceState /\ action \in ActionSession
BY DEF MemoryOK, ActionSession

LEMMA TargetType ==
  ASSUME MemoryOK, PowerOK
  PROVE  target \in DeviceState
BY SavedProfileType, EffectiveType, NormalizedType DEF target

LEMMA WrittenType ==
  ASSUME NEW old \in DeviceState, NEW d \in DeviceState, NEW ws
  PROVE  Written(old, d, ws) \in DeviceState
<1> DEFINE perf == IF "perf" \in ws THEN d.perf_mode ELSE old.perf_mode
           fan == IF "fan" \in ws THEN d.fan_speed
                  ELSE IF "perf" \in ws THEN AutoFan ELSE old.fan_speed
           max == IF "max_fan" \in ws THEN d.max_fan ELSE old.max_fan
<1>1. perf \in PerfMode
  BY DEF DeviceState
<1>2. fan \in FanSpeed
  BY DEF DeviceState, FanSpeed, AutoFan
<1>3. (perf = "Custom" /\ max) \in BOOLEAN
  OBVIOUS
<1>4. (IF "logo" \in ws THEN d.logo_mode ELSE old.logo_mode) \in Logo
  BY DEF DeviceState
<1>5. (IF "brightness" \in ws THEN d.keyboard_brightness ELSE old.keyboard_brightness)
        \in Brightness
  BY DEF DeviceState
<1>6. (IF "effect" \in ws /\ d.keyboard_color = NoColor THEN d.keyboard_effect
       ELSE old.keyboard_effect) \in Effect
  BY DEF DeviceState
<1> HIDE DEF perf, fan, max
<1>7. [perf_mode |-> perf, max_fan |-> perf = "Custom" /\ max, fan_speed |-> fan,
       logo_mode |-> IF "logo" \in ws THEN d.logo_mode ELSE old.logo_mode,
       keyboard_brightness |-> IF "brightness" \in ws THEN d.keyboard_brightness
                               ELSE old.keyboard_brightness,
       keyboard_effect |-> IF "effect" \in ws /\ d.keyboard_color = NoColor
                           THEN d.keyboard_effect ELSE old.keyboard_effect,
       keyboard_color |-> NoColor] \in DeviceState
  BY <1>1, <1>2, <1>3, <1>4, <1>5, <1>6, SettingAssumption DEF DeviceState
<1> QED
  BY <1>7 DEF Written, perf, fan, max

LEMMA ObserveType ==
  ASSUME FileOK, MemoryOK, PowerOK, IntentOK, NEW reading \in DeviceState, Observe(reading)
  PROVE  device_state' \in DeviceState /\ FileOK' /\ MemoryOK'
<1> DEFINE profile == normalized(matching_intent(device_state, reading))
           c == [config EXCEPT !.profile[source] = profile, !.unset = @ \ {source}]
           moved == IF action # NoAction /\ action.rule \in DOMAIN config.app_profiles
                    THEN [action EXCEPT !.effective =
                            power_changed(config.app_profiles[action.rule], @,
                                          saved_profile, profile)]
                    ELSE action
<1>1. matching_intent(device_state, reading) \in DeviceState /\ profile \in DeviceState
  BY MatchingIntentType, NormalizedType DEF IntentOK
<1>2. CASE UNCHANGED <<memory, file>>
          /\ device_state' \in {device_state, matching_intent(device_state, reading)}
  <2>1. FileOK' /\ MemoryOK'
    BY <1>2 DEF memory, file, FileOK, MemoryOK
  <2> QED
    BY <1>1, <1>2, <2>1 DEF IntentOK
<1>3. CASE device_state' = profile /\ Persist(c, moved)
  <2> HIDE DEF profile
  <2>1. c \in Config
    BY <1>1 DEF MemoryOK, PowerOK, Config
  <2>2. moved \in ActionSession \cup {NoAction}
    <3>1. ASSUME action # NoAction, action.rule \in DOMAIN config.app_profiles
          PROVE  power_changed(config.app_profiles[action.rule], action.effective,
                               saved_profile, profile) \in DeviceState
      BY <1>1, <3>1, RuleType, EffectiveType, SavedProfileType, PowerChangedType DEF MemoryOK
    <3> QED
      BY <3>1, EffectiveType DEF ActionSession, MemoryOK
  <2> HIDE DEF c, moved
  <2> QED
    BY <1>1, <1>3, <2>1, <2>2, PersistType
<1> QED
  BY <1>2, <1>3 DEF Observe

LEMMA NoteReadingType ==
  ASSUME IntentOK, PowerOK, ec \in DeviceState, chosen \in [Source -> SUBSET PerfMode],
         quiet \in BOOLEAN, NoteReading
  PROVE  quiet' \in BOOLEAN /\ chosen' \in [Source -> SUBSET PerfMode]
<1>1. normalized(matching_intent(device_state, ec)).perf_mode \in PerfMode
  <2>1. normalized(matching_intent(device_state, ec)) \in DeviceState
    BY MatchingIntentType, NormalizedType DEF IntentOK
  <2> QED
    BY <2>1 DEF DeviceState
<1>2. chosen' \in [Source -> SUBSET PerfMode]
  BY <1>1 DEF NoteReading, PowerOK
<1>3. (quiet \/ (Adopts /\ Undisturbed)) \in BOOLEAN
  OBVIOUS
<1> QED
  BY <1>2, <1>3 DEF NoteReading

LEMMA SpendType ==
  ASSUME NEW event \in Event, left \in [Event -> Nat], Spend(event)
  PROVE  left' \in [Event -> Nat]
BY DEF Spend

\* What a step leaves alone keeps its type.
LEMMA UntouchedTypes ==
  ASSUME TypeOK
  PROVE  /\ UNCHANGED world => WorldOK'
         /\ UNCHANGED file => FileOK'
         /\ UNCHANGED memory => MemoryOK'
         /\ UNCHANGED <<device_state, observed>> => IntentOK'
         /\ UNCHANGED power => PowerOK'
         /\ UNCHANGED sync => SyncOK'
         /\ UNCHANGED <<pc, job, loop>> => LoopOK'
         /\ UNCHANGED <<left, history>> => HistoryOK'
<1>1. UNCHANGED world => WorldOK'
  BY DEF TypeOK, WorldOK, world
<1>2. UNCHANGED file => FileOK'
  BY DEF TypeOK, FileOK, file
<1>3. UNCHANGED memory => MemoryOK'
  BY DEF TypeOK, MemoryOK, memory
<1>4. UNCHANGED <<device_state, observed>> => IntentOK'
  BY DEF TypeOK, IntentOK
<1>5. UNCHANGED power => PowerOK'
  BY DEF TypeOK, PowerOK, power
<1>6. UNCHANGED sync => SyncOK'
  BY DEF TypeOK, SyncOK, sync
<1>7. UNCHANGED <<pc, job, loop>> => LoopOK'
  BY DEF TypeOK, LoopOK, loop
<1>8. UNCHANGED <<left, history>> => HistoryOK'
  BY DEF TypeOK, HistoryOK, history
<1> QED
  BY <1>1, <1>2, <1>3, <1>4, <1>5, <1>6, <1>7, <1>8

LEMMA SkipType ==
  ASSUME TypeOK, NEW next \in Phase, Skip(next)
  PROVE  TypeOK'
<1>1. LoopOK'
  BY DEF Skip, TypeOK, LoopOK, loop
<1>2. HistoryOK'
  BY DEF Skip, TypeOK, HistoryOK
<1> QED
  BY <1>1, <1>2, UntouchedTypes DEF Skip, TypeOK

-----------------------------------------------------------------------------
(* Init and Start *)

LEMMA NoJobType == NoJob \in Job
BY DEF NoJob, Job, Caller

LEMMA FreshRetryType == FreshRetry \in PerfRetry
<1>1. 0 \in 0..PerfRetries
  BY TrayAssumption
<1> QED
  BY <1>1 DEF FreshRetry, PerfRetry

LEMMA NoChecksType == [s \in WakeSource |-> 0] \in [WakeSource -> 0..2]
OBVIOUS

LEMMA TypeInit == Init => TypeOK
<1> SUFFICES ASSUME Init PROVE TypeOK
  OBVIOUS
<1>1. PICK scene \in Scenes :
        /\ told = scene.told /\ left = scene.budget
        /\ disk = [parses |-> scene.parses, config |-> scene.config]
        /\ config = InMemory(scene.config)
        /\ chosen = [s \in Source |-> {Placeholder[s].perf_mode,
                                       scene.config.profile[s].perf_mode}]
  BY DEF Init
<1>a. /\ scene.config \in Config /\ scene.parses \in BOOLEAN
      /\ scene.told \in BOOLEAN /\ scene.budget \in [Event -> Nat]
  BY ConfigAssumption DEF Scene
<1>2. config \in Config
  BY <1>1, <1>a, InMemoryType
<1>3. WorldOK
  BY <1>1, <1>a, ConfigAssumption DEF Init, WorldOK
<1>4. FileOK
  BY <1>1, <1>a DEF Init, FileOK
<1>5. MemoryOK
  BY <1>2 DEF Init, MemoryOK, ConfigHealth
<1>6. PowerOK
  BY <1>1, <1>a DEF Init, PowerOK, Source
<1>7. IntentOK
  BY <1>2, <1>6 DEF Init, IntentOK, PowerOK, Config
<1>8. SyncOK
  BY FreshRetryType DEF Init, SyncOK
<1>9. LoopOK
  BY NoJobType, NoChecksType DEF Init, LoopOK, Phase
<1>10. HistoryOK
  <2>1. \A s \in Source : {Placeholder[s].perf_mode, scene.config.profile[s].perf_mode}
                       \subseteq PerfMode
    BY <1>a, PlaceholderType DEF Config, DeviceState
  <2> QED
    BY <1>1, <1>a, <2>1 DEF Init, HistoryOK
<1> QED
  BY <1>3, <1>4, <1>5, <1>6, <1>7, <1>8, <1>9, <1>10 DEF TypeOK

LEMMA BootType ==
  ASSUME TypeOK, NEW c \in Config, NEW h \in ConfigHealth, NEW stale \in BOOLEAN,
         Boot(c, h, stale), UNCHANGED disk
  PROVE  FileOK' /\ MemoryOK' /\ IntentOK' /\ PowerOK' /\ SyncOK' /\ LoopOK'
<1>1. FileOK'
  BY DEF Boot, TypeOK, FileOK
<1>2. MemoryOK'
  BY InMemoryType DEF Boot, MemoryOK
<1>3. PowerOK'
  BY DEF Boot, TypeOK, WorldOK, PowerOK, Source
<1>4. IntentOK'
  BY <1>2, <1>3 DEF Boot, IntentOK, MemoryOK, PowerOK, Config
<1>5. SyncOK'
  BY FreshRetryType DEF Boot, SyncOK
<1>6. LoopOK'
  BY NoJobType, NoChecksType DEF Boot, LoopOK, Phase
<1> QED
  BY <1>1, <1>2, <1>3, <1>4, <1>5, <1>6

LEMMA StartType ==
  ASSUME TypeOK, Start
  PROVE  TypeOK'
<1>1. disk.config \in Config /\ DefaultConfig \in Config
  BY DefaultConfigType DEF TypeOK, FileOK
<1>2. FileOK' /\ MemoryOK' /\ IntentOK' /\ PowerOK' /\ SyncOK' /\ LoopOK'
  BY <1>1, BootType DEF Start, ConfigHealth
<1>3. left' \in [Event -> Nat]
  BY SpendType DEF Start, TypeOK, HistoryOK, Event
<1>4. HistoryOK'
  BY <1>3 DEF Start, TypeOK, HistoryOK
<1> QED
  BY <1>2, <1>4, UntouchedTypes DEF Start, TypeOK

-----------------------------------------------------------------------------
(* The resync *)

LEMMA ResyncType ==
  ASSUME TypeOK, ResyncDue
  PROVE  TypeOK'
<1>1. SyncOK'
  BY DEF ResyncDue, TypeOK, SyncOK
<1>2. LoopOK'
  BY DEF ResyncDue, TypeOK, LoopOK, loop, Phase
<1>3. HistoryOK'
  BY DEF ResyncDue, TypeOK, HistoryOK
<1> QED
  BY <1>1, <1>2, <1>3, UntouchedTypes DEF ResyncDue, TypeOK

LEMMA ProbeEndsType ==
  ASSUME TypeOK, NEW diverged \in BOOLEAN, ProbeEnds(diverged)
  PROVE  /\ pc' \in Phase /\ job' \in Job
         /\ needs_sync' \in BOOLEAN /\ failures' \in 0..3
<1>1. probe_may_write(ModeNow, config.enforce, diverged) \in BOOLEAN
  BY DEF probe_may_write
<1> QED
  BY <1>1 DEF ProbeEnds, Phase, Job, Caller, TypeOK, SyncOK

LEMMA ProbeStaysType ==
  ASSUME TypeOK, ProbeStays
  PROVE  /\ pc' \in Phase /\ job' \in Job
         /\ needs_sync' \in BOOLEAN /\ failures' \in 0..3
BY DEF ProbeStays, Phase, TypeOK, SyncOK, LoopOK

LEMMA SyncProbeType ==
  ASSUME TypeOK, SyncProbe
  PROVE  TypeOK'
<1>1. /\ pc' \in Phase /\ job' \in Job
      /\ needs_sync' \in BOOLEAN /\ failures' \in 0..3
  BY ProbeEndsType, ProbeStaysType DEF SyncProbe, DivergedProbe
<1>2. SyncOK'
  BY <1>1 DEF SyncProbe, TypeOK, SyncOK
<1>3. LoopOK'
  BY <1>1 DEF SyncProbe, TypeOK, LoopOK, loop
<1>4. left' \in [Event -> Nat]
  BY SpendType DEF SyncProbe, DivergedProbe, TypeOK, HistoryOK, Event
<1>5. CASE Observe(ec) /\ observed' = ec /\ NoteReading
  <2>1. device_state' \in DeviceState /\ FileOK' /\ MemoryOK'
    BY <1>5, ObserveType DEF TypeOK, WorldOK
  <2>2. quiet' \in BOOLEAN /\ chosen' \in [Source -> SUBSET PerfMode]
    BY <1>5, NoteReadingType DEF TypeOK, WorldOK, HistoryOK
  <2>3. IntentOK'
    BY <1>5, <2>1 DEF TypeOK, WorldOK, IntentOK
  <2>4. HistoryOK'
    BY <1>4, <2>2 DEF SyncProbe, HistoryOK
  <2> QED
    BY <1>2, <1>3, <2>1, <2>3, <2>4, UntouchedTypes DEF SyncProbe, TypeOK
<1>6. CASE NoRead /\ UNCHANGED <<quiet, chosen>>
  <2>1. HistoryOK'
    BY <1>4, <1>6 DEF SyncProbe, TypeOK, HistoryOK
  <2> QED
    BY <1>2, <1>3, <1>6, <2>1, UntouchedTypes DEF SyncProbe, TypeOK, NoRead
<1> QED
  BY <1>5, <1>6 DEF SyncProbe

LEMMA SyncApplyType ==
  ASSUME TypeOK, SyncApply
  PROVE  TypeOK'
<1>1. IntentOK'
  BY TargetType DEF SyncApply, TypeOK, IntentOK
<1>2. SyncOK'
  BY DEF SyncApply, TypeOK, SyncOK
<1>3. LoopOK'
  BY DEF SyncApply, TypeOK, LoopOK, loop, Phase, Job, Caller
<1>4. HistoryOK'
  BY DEF SyncApply, TypeOK, HistoryOK
<1> QED
  BY <1>1, <1>2, <1>3, <1>4, UntouchedTypes DEF SyncApply, TypeOK

-----------------------------------------------------------------------------
(* apply_and_refresh *)

LEMMA AfterApplyType ==
  ASSUME NEW from
  PROVE  AfterApply(from) \in Phase
BY DEF AfterApply, Phase

LEMMA ApplyDeferredType ==
  ASSUME TypeOK, ApplyDeferred
  PROVE  TypeOK'
<1>1. SyncOK'
  BY DEF ApplyDeferred, TypeOK, SyncOK
<1>2. LoopOK'
  BY AfterApplyType, NoJobType DEF ApplyDeferred, TypeOK, LoopOK, loop
<1>3. HistoryOK'
  BY DEF ApplyDeferred, TypeOK, HistoryOK
<1> QED
  BY <1>1, <1>2, <1>3, UntouchedTypes DEF ApplyDeferred, TypeOK

LEMMA MissType ==
  ASSUME NEW r \in PerfRetry, NEW d \in DeviceState, NEW n \in 0..PerfRetries
  PROVE  /\ [r EXCEPT !.pending = FALSE, !.gave_up = FALSE] \in PerfRetry
         /\ [target |-> d, misses |-> n, pending |-> TRUE, gave_up |-> FALSE] \in PerfRetry
         /\ [FreshRetry EXCEPT !.gave_up = TRUE] \in PerfRetry
<1> DEFINE counts == 0..PerfRetries
           states == DeviceState \cup {NoTarget}
<1>1. /\ r \in [target : states, misses : counts, pending : BOOLEAN, gave_up : BOOLEAN]
      /\ d \in states /\ n \in counts /\ NoTarget \in states /\ 0 \in counts
  BY TrayAssumption DEF PerfRetry
<1> HIDE DEF counts, states
<1>2. /\ [r EXCEPT !.pending = FALSE, !.gave_up = FALSE]
          \in [target : states, misses : counts, pending : BOOLEAN, gave_up : BOOLEAN]
      /\ [target |-> d, misses |-> n, pending |-> TRUE, gave_up |-> FALSE]
          \in [target : states, misses : counts, pending : BOOLEAN, gave_up : BOOLEAN]
      /\ [FreshRetry EXCEPT !.gave_up = TRUE]
          \in [target : states, misses : counts, pending : BOOLEAN, gave_up : BOOLEAN]
  BY <1>1 DEF FreshRetry
<1> QED
  BY <1>2 DEF PerfRetry, counts, states

LEMMA RetryType ==
  ASSUME TypeOK, NEW result \in {"ok", "bus", "ignored"}
  PROVE  Retry(result) \in PerfRetry
<1> DEFINE misses == 1 + (IF perf_retry.target = device_state THEN perf_retry.misses ELSE 0)
<1>1. misses \in Nat /\ PerfRetries \in Nat /\ 0 \in 0..PerfRetries
  BY TrayAssumption DEF TypeOK, SyncOK, PerfRetry
<1>2. perf_retry \in PerfRetry /\ device_state \in DeviceState
  BY DEF TypeOK, SyncOK, IntentOK
<1>3. CASE result = "ok"
  BY <1>3, FreshRetryType DEF Retry
<1>4. CASE result = "bus"
  BY <1>1, <1>2, <1>4, MissType DEF Retry
<1>5. CASE result = "ignored" /\ misses > PerfRetries
  <2>1. Retry(result) = [FreshRetry EXCEPT !.gave_up = TRUE]
    BY <1>1, <1>5 DEF Retry
  <2> QED
    BY <1>1, <1>2, <2>1, MissType
<1>6. CASE result = "ignored" /\ misses <= PerfRetries
  <2>1. Retry(result) = [target |-> device_state, misses |-> misses, pending |-> TRUE,
                         gave_up |-> FALSE]
    BY <1>1, <1>6 DEF Retry
  <2>2. misses \in 0..PerfRetries
    BY <1>1, <1>6
  <2> HIDE DEF misses
  <2> QED
    BY <1>2, <2>1, <2>2, MissType
<1> QED
  BY <1>1, <1>3, <1>4, <1>5, <1>6

LEMMA ApplyReturnsType ==
  ASSUME TypeOK, NEW err \in BOOLEAN, ApplyReturns(err), perf_retry' \in PerfRetry
  PROVE  /\ pc' \in Phase /\ job' \in Job
         /\ needs_sync' \in BOOLEAN /\ sync_apply' \in BOOLEAN /\ failures' \in 0..3
<1>1. job \in Job /\ failures \in 0..3
      /\ needs_sync \in BOOLEAN /\ sync_apply \in BOOLEAN
  BY DEF TypeOK, SyncOK, LoopOK
<1>2. NoJob \in Job /\ "tick" \in Phase /\ 1 \in 0..3
  BY NoJobType DEF Phase
<1>3. [job EXCEPT !.write = ~perf_retry'.gave_up, !.failed = err] \in Job
  BY <1>1 DEF Job
<1>4. CASE err /\ job.from # "sync"
  BY <1>1, <1>2, <1>4 DEF ApplyReturns
<1>5. CASE ~(err /\ job.from # "sync")
  <2>1. job' \in {[job EXCEPT !.write = ~perf_retry'.gave_up, !.failed = err], NoJob}
    BY <1>5 DEF ApplyReturns
  <2> QED
    BY <1>1, <1>2, <1>3, <1>5, <2>1, AfterApplyType DEF ApplyReturns
<1> QED
  BY <1>4, <1>5

LEMMA ApplyType ==
  ASSUME TypeOK, NEW ws, NEW z \in {"agree", "diverged"}, NEW bus \in BOOLEAN,
         Apply(ws, z, bus), left' \in [Event -> Nat]
  PROVE  TypeOK'
<1> DEFINE after == Written(ec, device_state, ws)
           taken == ModesTaken(device_state, after)
           result == IF bus THEN "bus" ELSE IF z = "agree" /\ ~taken THEN "ignored" ELSE "ok"
<1>1. after \in DeviceState
  BY WrittenType DEF TypeOK, WorldOK, IntentOK
<1>2. perf_retry' \in PerfRetry
  <2> HIDE DEF after
  <2>1. result \in {"ok", "bus", "ignored"}
    OBVIOUS
  <2>2. perf_retry' = Retry(result)
    BY DEF Apply, after
  <2> HIDE DEF result
  <2> QED
    BY <2>1, <2>2, RetryType
<1>3. /\ pc' \in Phase /\ job' \in Job
      /\ needs_sync' \in BOOLEAN /\ sync_apply' \in BOOLEAN /\ failures' \in 0..3
  <2>1. ASSUME NEW err \in BOOLEAN, ApplyReturns(err)
        PROVE  /\ pc' \in Phase /\ job' \in Job
               /\ needs_sync' \in BOOLEAN /\ sync_apply' \in BOOLEAN /\ failures' \in 0..3
    BY <1>2, <2>1, ApplyReturnsType
  <2>2. PICK err \in BOOLEAN : ApplyReturns(err)
    BY DEF Apply
  <2> QED
    BY <2>1, <2>2
<1>4. WorldOK'
  BY <1>1 DEF Apply, TypeOK, WorldOK
<1>5. IntentOK'
  <2>1. observed' \in {device_state, after, observed}
    BY DEF Apply
  <2> HIDE DEF after
  <2>2. device_state' = device_state
    BY DEF Apply
  <2> QED
    BY <1>1, <2>1, <2>2 DEF TypeOK, IntentOK
<1>6. SyncOK'
  BY <1>2, <1>3 DEF SyncOK
<1>7. LoopOK'
  BY <1>3 DEF Apply, TypeOK, LoopOK, loop
<1>8. HistoryOK'
  BY DEF Apply, TypeOK, HistoryOK
<1> QED
  BY <1>4, <1>5, <1>6, <1>7, <1>8, UntouchedTypes DEF Apply, TypeOK

LEMMA AppliesType ==
  ASSUME TypeOK, ApplyDone \/ ApplyBusFails \/ ApplyRejected
  PROVE  TypeOK'
<1>1. zones \in {"agree", "diverged"} /\ left \in [Event -> Nat]
  BY DEF TypeOK, WorldOK, HistoryOK
<1>2. CASE ApplyDone
  BY <1>1, <1>2, ApplyType DEF ApplyDone
<1>3. CASE ApplyBusFails
  <2>1. \E ws : \E z \in {"agree", "diverged"} : Apply(ws, z, TRUE)
    BY <1>1, <1>3 DEF ApplyBusFails, ZonesAfter
  <2>2. left' \in [Event -> Nat]
    BY <1>1, <1>3, SpendType DEF ApplyBusFails, Event
  <2> QED
    BY <2>1, <2>2, ApplyType
<1>4. CASE ApplyRejected
  <2>1. \E ws : \E z \in {"agree", "diverged"} : Apply(ws, z, FALSE)
    BY <1>1, <1>4 DEF ApplyRejected
  <2>2. left' \in [Event -> Nat]
    BY <1>1, <1>4, SpendType DEF ApplyRejected, Event
  <2> QED
    BY <2>1, <2>2, ApplyType
<1> QED
  BY <1>2, <1>3, <1>4

-----------------------------------------------------------------------------
(* reconcile *)

LEMMA ReconcileReturnsType ==
  ASSUME TypeOK, ReconcileReturns, UNCHANGED <<sync_apply, perf_retry, loop>>
  PROVE  SyncOK' /\ LoopOK'
<1>1. pc' \in Phase /\ job' \in Job
  BY NoJobType DEF ReconcileReturns, AfterReconcile, Phase
<1>2. needs_sync' \in BOOLEAN /\ failures' \in 0..3
  <2>1. needs_sync \in BOOLEAN /\ failures \in 0..3
    BY DEF TypeOK, SyncOK
  <2>2. /\ needs_sync' \in {needs_sync, TRUE, FALSE}
        /\ failures' \in {failures, IF failures < 3 THEN failures + 1 ELSE 3, 0}
    BY DEF ReconcileReturns
  <2>3. (IF failures < 3 THEN failures + 1 ELSE 3) \in 0..3 /\ 0 \in 0..3
    BY <2>1
  <2>4. failures' \in 0..3
    BY <2>1, <2>2, <2>3
  <2>5. needs_sync' \in BOOLEAN
    BY <2>1, <2>2
  <2> QED
    BY <2>4, <2>5
<1>3. SyncOK'
  BY <1>2 DEF TypeOK, SyncOK
<1> QED
  BY <1>1, <1>3 DEF TypeOK, LoopOK, loop

LEMMA ReconcileReadsType ==
  ASSUME TypeOK, ReconcileReads \/ ReconcileFails
  PROVE  TypeOK'
<1>1. SyncOK' /\ LoopOK'
  BY ReconcileReturnsType DEF ReconcileReads, ReconcileFails
<1>2. left' \in [Event -> Nat] /\ wrote' = "none"
  BY SpendType DEF ReconcileReads, ReconcileFails, TypeOK, HistoryOK, Event
<1>3. UNCHANGED <<world, power>>
  BY DEF ReconcileReads, ReconcileFails
<1>4. CASE Observe(ec) /\ observed' = ec /\ NoteReading
  <2>1. device_state' \in DeviceState /\ FileOK' /\ MemoryOK'
    BY <1>4, ObserveType DEF TypeOK, WorldOK
  <2>2. quiet' \in BOOLEAN /\ chosen' \in [Source -> SUBSET PerfMode]
    BY <1>4, NoteReadingType DEF TypeOK, WorldOK, HistoryOK
  <2>3. IntentOK'
    BY <1>4, <2>1 DEF TypeOK, WorldOK, IntentOK
  <2>4. HistoryOK'
    BY <1>2, <2>2 DEF HistoryOK
  <2> QED
    BY <1>1, <1>3, <2>1, <2>3, <2>4, UntouchedTypes DEF TypeOK
<1>5. CASE NoRead /\ UNCHANGED <<quiet, chosen>>
  <2>1. HistoryOK'
    BY <1>2, <1>5 DEF TypeOK, HistoryOK
  <2> QED
    BY <1>1, <1>3, <1>5, <2>1, UntouchedTypes DEF TypeOK, NoRead
<1> QED
  BY <1>4, <1>5 DEF ReconcileReads, ReconcileFails

LEMMA ReassertType ==
  ASSUME TypeOK, NEW ws, NEW z \in {"agree", "diverged"}, NEW shown \in DeviceState,
         Reassert(ws, z, shown), UNCHANGED <<plugged, told, running>>
  PROVE  WorldOK' /\ observed' \in DeviceState /\ wrote' = "config"
<1>1. Written(ec, device_state, ws) \in DeviceState
  BY WrittenType DEF TypeOK, WorldOK, IntentOK
<1> QED
  BY <1>1 DEF Reassert, TypeOK, WorldOK

LEMMA ReassertFailsType ==
  ASSUME TypeOK, ReassertFails, UNCHANGED <<plugged, told, running>>
  PROVE  /\ WorldOK' /\ observed' \in DeviceState /\ wrote' = "config"
         /\ left' \in [Event -> Nat]
<1>1. ReadBefore \in DeviceState /\ zones \in {"agree", "diverged"}
  BY DEF ReadBefore, TypeOK, WorldOK, IntentOK
<1>2. \E ws : \E z \in {"agree", "diverged"} : Reassert(ws, z, ReadBefore)
  BY <1>1 DEF ReassertFails, ZonesAfter
<1>3. left' \in [Event -> Nat]
  BY SpendType DEF ReassertFails, TypeOK, HistoryOK, Event
<1> QED
  BY <1>1, <1>2, <1>3, ReassertType

LEMMA ReconcileReassertsType ==
  ASSUME TypeOK, ReconcileReasserts
  PROVE  TypeOK'
<1>1. SyncOK' /\ LoopOK'
  BY ReconcileReturnsType DEF ReconcileReasserts
<1>2. /\ WorldOK' /\ observed' \in DeviceState /\ wrote' = "config"
      /\ left' \in [Event -> Nat]
  <2>1. CASE ReassertFails
    BY <2>1, ReassertFailsType DEF ReconcileReasserts
  <2>2. CASE ~ReassertFails
    <3> DEFINE ws == EnforcedWrites \cap Takes(device_state)
               z == IF "perf" \in ws THEN "agree" ELSE zones
               after == Written(ec, device_state, ws)
               shown == IF z = "diverged"
                        THEN [device_state EXCEPT !.keyboard_brightness =
                                                    observed.keyboard_brightness]
                        ELSE IF device_state.perf_mode = "Custom" /\ after.perf_mode # "Custom"
                        THEN ReadBefore ELSE after
    <3>1. Reassert(ws, z, shown) /\ UNCHANGED left
      BY <2>2 DEF ReconcileReasserts
    <3>2. after \in DeviceState /\ ReadBefore \in DeviceState
      BY WrittenType DEF ReadBefore, TypeOK, WorldOK, IntentOK
    <3>3. [device_state EXCEPT !.keyboard_brightness = observed.keyboard_brightness]
            \in DeviceState
      BY DEF TypeOK, IntentOK, DeviceState
    <3>4. z \in {"agree", "diverged"}
      BY DEF TypeOK, WorldOK
    <3> HIDE DEF ws, z, after
    <3>5. shown \in DeviceState
      BY <3>2, <3>3
    <3> HIDE DEF shown
    <3>6. WorldOK' /\ observed' \in DeviceState /\ wrote' = "config"
      BY <3>1, <3>4, <3>5, ReassertType DEF ReconcileReasserts
    <3> QED
      BY <3>1, <3>6 DEF TypeOK, HistoryOK
  <2> QED
    BY <2>1, <2>2
<1>3. IntentOK'
  BY <1>2 DEF ReconcileReasserts, TypeOK, IntentOK
<1>4. HistoryOK'
  BY <1>2 DEF ReconcileReasserts, TypeOK, HistoryOK
<1> QED
  BY <1>1, <1>2, <1>3, <1>4, UntouchedTypes DEF ReconcileReasserts, TypeOK

-----------------------------------------------------------------------------
(* The menu and the click *)

LEMMA UpdateType ==
  ASSUME TypeOK, NEW wanted \in DeviceState, NEW pick, Update(wanted, pick)
  PROVE  FileOK' /\ MemoryOK' /\ device_state' \in DeviceState /\ pc' = "apply"
<1> DEFINE picked == normalized(wanted)
           c == IF ModeAfterReload = "Apply"
                THEN [Loaded EXCEPT !.profile[source] = Saved(pick, LoadedAction, picked)]
                ELSE Loaded
           session == IF LoadedAction = NoAction THEN NoAction
                      ELSE [LoadedAction EXCEPT !.effective = picked]
<1>1. picked \in DeviceState /\ device_state \in DeviceState /\ source \in Source
  BY NormalizedType DEF TypeOK, IntentOK, PowerOK
<1>2. Loaded \in Config /\ LoadedAction \in ActionSession \cup {NoAction}
  BY LoadedType DEF TypeOK
<1> HIDE DEF picked
<1>3. Saved(pick, LoadedAction, picked) \in DeviceState
  <2> DEFINE after == IF pick = "Cycle" /\ LoadedAction # NoAction
                      THEN [picked EXCEPT !.perf_mode = device_state.perf_mode,
                                          !.max_fan = device_state.max_fan]
                      ELSE picked
  <2>1. after \in DeviceState
    BY <1>1 DEF DeviceState
  <2>2. Loaded.profile[source] \in DeviceState
    BY <1>1, <1>2 DEF Config
  <2>3. Saved(pick, LoadedAction, picked)
          = normalized(carry_changes(Loaded.profile[source], device_state, after))
    BY DEF Saved
  <2> HIDE DEF after
  <2> QED
    BY <1>1, <2>1, <2>2, <2>3, CarryType, NormalizedType
<1>4. c \in Config
  BY <1>1, <1>2, <1>3 DEF Config
<1>5. session \in ActionSession \cup {NoAction}
  BY <1>1, <1>2, HeldType
<1>6. Store(c, session) /\ device_state' = picked /\ pc' = "apply"
  BY DEF Update, picked
<1> HIDE DEF c, session
<1> QED
  BY <1>1, <1>4, <1>5, <1>6, StoreType DEF TypeOK

LEMMA MenuItemsType ==
  ASSUME device_state \in DeviceState
  PROVE  MenuItems \subseteq DeviceState
<1>1. \A p \in PickPerf : [device_state EXCEPT !.perf_mode = p, !.max_fan = FALSE] \in DeviceState
  BY TrayAssumption DEF DeviceState
<1>2. [device_state EXCEPT !.perf_mode = "Custom"] \in DeviceState
  BY DEF DeviceState, PerfMode
<1>3. [device_state EXCEPT !.perf_mode = "Custom",
                           !.max_fan = ~(@ /\ device_state.perf_mode = "Custom")] \in DeviceState
  BY DEF DeviceState, PerfMode
<1>4. \A b \in Brightness : [device_state EXCEPT !.keyboard_brightness = b] \in DeviceState
  BY DEF DeviceState
<1> QED
  BY <1>1, <1>2, <1>3, <1>4 DEF MenuItems

LEMMA PicksType ==
  ASSUME TypeOK, MenuPick \/ Click
  PROVE  TypeOK'
<1>1. /\ FileOK' /\ MemoryOK' /\ device_state' \in DeviceState /\ pc' = "apply"
      /\ chosen' \in [Source -> SUBSET PerfMode] /\ job' \in Job
  <2>1. device_state \in DeviceState /\ chosen \in [Source -> SUBSET PerfMode]
    BY DEF TypeOK, IntentOK, HistoryOK
  <2>2. CASE MenuPick
    <3>1. PICK wanted \in MenuItems :
            /\ Update(wanted, "Menu")
            /\ chosen' = IF ModeAfterReload = "Apply" /\ wanted.perf_mode # device_state.perf_mode
                         THEN [chosen EXCEPT ![source] = @ \cup {wanted.perf_mode}] ELSE chosen
      BY <2>2 DEF MenuPick
    <3>2. wanted \in DeviceState /\ wanted.perf_mode \in PerfMode
      BY <2>1, MenuItemsType DEF DeviceState
    <3> QED
      BY <2>1, <2>2, <3>1, <3>2, UpdateType, NoJobType DEF MenuPick, Job, Caller
  <2>3. CASE Click
    <3> DEFINE wanted == [device_state EXCEPT !.perf_mode = next_perf_mode(@)]
    <3>1. next_perf_mode(device_state.perf_mode) \in PerfMode
      BY <2>1 DEF next_perf_mode, DeviceState, PerfMode
    <3>2. wanted \in DeviceState /\ wanted.perf_mode \in PerfMode
      BY <2>1, <3>1 DEF DeviceState
    <3>3. /\ Update(wanted, "Cycle")
          /\ chosen' \in {chosen, [chosen EXCEPT ![source] = @ \cup {wanted.perf_mode}]}
          /\ job' = [NoJob EXCEPT !.from = "click"]
      BY <2>3 DEF Click
    <3> HIDE DEF wanted
    <3> QED
      BY <2>1, <3>2, <3>3, UpdateType, NoJobType DEF Job, Caller
  <2> QED
    BY <2>2, <2>3
<1>2. left' \in [Event -> Nat] /\ wrote' = "none" /\ quiet' = FALSE
  BY SpendType DEF MenuPick, Click, TypeOK, HistoryOK, Event
<1>3. UNCHANGED <<world, observed, power, sync, loop>>
  BY DEF MenuPick, Click
<1>4. IntentOK' /\ HistoryOK'
  BY <1>1, <1>2, <1>3 DEF TypeOK, IntentOK, HistoryOK
<1>5. LoopOK'
  BY <1>1, <1>3 DEF TypeOK, LoopOK, loop, Phase
<1> QED
  BY <1>1, <1>3, <1>4, <1>5, UntouchedTypes DEF TypeOK

LEMMA ToggleType ==
  ASSUME TypeOK, ToggleEnforce
  PROVE  TypeOK'
<1>1. [Loaded EXCEPT !.enforce = ~@] \in Config
  BY LoadedType DEF TypeOK, Config
<1>2. FileOK' /\ MemoryOK'
  BY <1>1, LoadedType, StoreType DEF ToggleEnforce, TypeOK
<1>3. HistoryOK'
  BY SpendType DEF ToggleEnforce, TypeOK, HistoryOK, Event
<1> QED
  BY <1>2, <1>3, UntouchedTypes DEF ToggleEnforce, TypeOK

LEMMA ResetType ==
  ASSUME TypeOK, ResetConfig
  PROVE  TypeOK'
<1>1. FileOK'
  BY DefaultConfigType DEF ResetConfig, FileOK
<1>2. Kept(action, config.app_profiles, FirstRun.app_profiles) \in ActionSession \cup {NoAction}
  BY KeptType DEF TypeOK, MemoryOK
<1>3. MemoryOK'
  BY <1>2, DefaultConfigType, InMemoryType DEF ResetConfig, MemoryOK, ConfigHealth
<1>4. SyncOK'
  BY DEF ResetConfig, TypeOK, SyncOK
<1>5. HistoryOK'
  BY SpendType DEF ResetConfig, TypeOK, HistoryOK, Event
<1> QED
  BY <1>1, <1>3, <1>4, <1>5, UntouchedTypes DEF ResetConfig, TypeOK

LEMMA MenuDoneType ==
  ASSUME TypeOK, MenuDone
  PROVE  TypeOK'
<1>1. LoopOK'
  BY DEF MenuDone, TypeOK, LoopOK, SyncOK, Phase
<1>2. HistoryOK'
  BY DEF MenuDone, TypeOK, HistoryOK
<1> QED
  BY <1>1, <1>2, UntouchedTypes DEF MenuDone, TypeOK

LEMMA HoverType ==
  ASSUME TypeOK, Hover
  PROVE  TypeOK'
<1>1. device_state' \in DeviceState /\ FileOK' /\ MemoryOK'
  BY ObserveType DEF Hover, TypeOK, WorldOK
<1>2. quiet' \in BOOLEAN /\ chosen' \in [Source -> SUBSET PerfMode]
  BY NoteReadingType DEF Hover, TypeOK, WorldOK, HistoryOK
<1>3. IntentOK'
  BY <1>1 DEF Hover, TypeOK, WorldOK, IntentOK
<1>4. HistoryOK'
  BY <1>2 DEF Hover, TypeOK, HistoryOK
<1>5. LoopOK'
  BY DEF Hover, TypeOK, LoopOK, loop, Phase
<1> QED
  BY <1>1, <1>3, <1>4, <1>5, UntouchedTypes DEF Hover, TypeOK

-----------------------------------------------------------------------------
(* The polls *)

LEMMA PowerPollType ==
  ASSUME TypeOK, PowerPoll
  PROVE  TypeOK'
<1> DEFINE now == IF told THEN plugged ELSE source
           changed == now # source
           became_known == told /\ ~power_known
<1>1. now \in Source /\ source \in Source
  BY DEF TypeOK, WorldOK, PowerOK
<1>2. PowerOK'
  <2>1. (power_known \/ told) \in BOOLEAN /\ (settling \/ changed) \in BOOLEAN
    OBVIOUS
  <2> QED
    BY <1>1, <2>1 DEF PowerPoll, PowerOK
<1>3. MemoryOK'
  <2> HIDE DEF now
  <2>1. ASSUME action # NoAction, action.rule \in DOMAIN config.app_profiles
        PROVE  power_changed(config.app_profiles[action.rule], action.effective,
                             config.profile[source], config.profile[now]) \in DeviceState
    <3>1. config \in Config /\ config.profile[source] \in DeviceState
          /\ config.profile[now] \in DeviceState
      BY <1>1 DEF TypeOK, MemoryOK, Config
    <3>2. IsRule(config.app_profiles[action.rule]) /\ action.effective \in DeviceState
      BY <2>1, <3>1, RuleType, EffectiveType DEF TypeOK
    <3> QED
      BY <3>1, <3>2, PowerChangedType
  <2>2. action \in ActionSession \cup {NoAction}
    BY DEF TypeOK, MemoryOK
  <2>3. \/ action' = action
        \/ /\ action # NoAction /\ action.rule \in DOMAIN config.app_profiles
           /\ action' = [action EXCEPT !.effective =
                           power_changed(config.app_profiles[action.rule], action.effective,
                                         config.profile[source], config.profile[now])]
    BY DEF PowerPoll, now
  <2>4. action' \in ActionSession \cup {NoAction}
    BY <2>1, <2>2, <2>3 DEF ActionSession
  <2> QED
    BY <2>4 DEF PowerPoll, TypeOK, MemoryOK
<1>4. SyncOK'
  <2>1. needs_sync' \in BOOLEAN
    BY DEF PowerPoll
  <2> QED
    BY <2>1 DEF PowerPoll, TypeOK, SyncOK
<1>5. LoopOK'
  BY DEF PowerPoll, TypeOK, LoopOK, Phase
<1>6. HistoryOK'
  BY DEF PowerPoll, TypeOK, HistoryOK
<1>7. IntentOK' /\ WorldOK' /\ FileOK'
  BY UntouchedTypes DEF PowerPoll
<1> QED
  BY <1>2, <1>3, <1>4, <1>5, <1>6, <1>7 DEF TypeOK

LEMMA ConfigReloadType ==
  ASSUME TypeOK, ConfigReload
  PROVE  TypeOK'
<1>1. FileOK' /\ MemoryOK'
  BY ReloadType DEF ConfigReload, TypeOK
<1>2. LoopOK'
  BY DEF ConfigReload, TypeOK, LoopOK, loop, Phase
<1>3. HistoryOK'
  BY DEF ConfigReload, TypeOK, HistoryOK
<1> QED
  BY <1>1, <1>2, <1>3, UntouchedTypes DEF ConfigReload, TypeOK

LEMMA ScanType ==
  ASSUME TypeOK, Scan
  PROVE  TypeOK'
<1>1. Session(Matched) \in ActionSession \cup {NoAction}
  <2>1. Matched = 0 \/ Matched \in DOMAIN config.app_profiles
    BY MatchingType DEF Matched
  <2>2. CASE Matched = 0
    BY <2>2 DEF Session
  <2>3. CASE Matched # 0
    <3>1. IsRule(config.app_profiles[Matched]) /\ Matched \in Nat \ {0}
      BY <2>1, <2>3, RuleType DEF TypeOK, MemoryOK
    <3>2. Seed(config.app_profiles[Matched], saved_profile) \in DeviceState
      BY <3>1, SeedType, SavedProfileType DEF TypeOK
    <3> QED
      BY <2>3, <3>1, <3>2 DEF Session, ActionSession
  <2> QED
    BY <2>2, <2>3
<1>2. MemoryOK'
  BY <1>1 DEF Scan, TypeOK, MemoryOK
<1>3. LoopOK'
  BY DEF Scan, TypeOK, LoopOK, Phase
<1>4. HistoryOK'
  BY DEF Scan, TypeOK, HistoryOK
<1> QED
  BY <1>2, <1>3, <1>4, UntouchedTypes DEF Scan, TypeOK

LEMMA ConvergeType ==
  ASSUME TypeOK, Converge
  PROVE  TypeOK'
<1>1. IntentOK'
  BY TargetType DEF Converge, TypeOK, IntentOK
<1>2. [NoJob EXCEPT !.from = "converge"] \in Job
  BY NoJobType DEF Job, Caller
<1>3. LoopOK'
  BY <1>2 DEF Converge, TypeOK, LoopOK, loop, Phase
<1>4. HistoryOK'
  BY DEF Converge, TypeOK, HistoryOK
<1> QED
  BY <1>1, <1>3, <1>4, UntouchedTypes DEF Converge, TypeOK

LEMMA WakeType ==
  ASSUME TypeOK, WakeArrives \/ WakeCheck
  PROVE  TypeOK'
<1>1. wake_checks' \in [WakeSource -> 0..2]
  <2>1. wake_checks \in [WakeSource -> 0..2]
    BY DEF TypeOK, LoopOK
  <2>2. CASE WakeArrives
    BY <2>1, <2>2 DEF WakeArrives
  <2>3. CASE WakeCheck
    <3>1. PICK s \in WakeSource : /\ wake_checks[s] > 0
                                  /\ wake_checks' = [wake_checks EXCEPT ![s] = @ - 1]
      BY <2>3 DEF WakeCheck
    <3>2. wake_checks[s] - 1 \in 0..2
      BY <2>1, <3>1
    <3> QED
      BY <2>1, <3>1, <3>2
  <2> QED
    BY <2>2, <2>3
<1>2. job' \in Job
  <2>1. CASE WakeArrives
    BY <2>1 DEF WakeArrives, TypeOK, LoopOK
  <2>2. CASE WakeCheck
    <3>1. PICK s \in WakeSource :
            job' = [from |-> "wake", write |-> WakeMayWrite(s), failed |-> FALSE]
      BY <2>2 DEF WakeCheck
    <3>2. WakeMayWrite(s) \in BOOLEAN
      BY DEF WakeMayWrite
    <3> QED
      BY <3>1, <3>2 DEF Job, Caller
  <2> QED
    BY <2>1, <2>2
<1>3. LoopOK'
  BY <1>1, <1>2 DEF WakeArrives, WakeCheck, TypeOK, LoopOK, Phase
<1>4. HistoryOK'
  <2>1. left' \in [Event -> Nat]
    BY SpendType DEF WakeArrives, WakeCheck, TypeOK, HistoryOK, Event
  <2>2. quiet' \in BOOLEAN
    BY DEF WakeArrives, WakeCheck, TypeOK, HistoryOK
  <2> QED
    BY <2>1, <2>2 DEF WakeArrives, WakeCheck, TypeOK, HistoryOK
<1>5. UNCHANGED <<world, file, memory, device_state, observed, power, sync>>
  BY DEF WakeArrives, WakeCheck
<1> QED
  BY <1>3, <1>4, <1>5, UntouchedTypes DEF TypeOK

-----------------------------------------------------------------------------
(* Mirror *)

LEMMA MirrorTakesType ==
  ASSUME TypeOK, MirrorTakes
  PROVE  FileOK' /\ MemoryOK' /\ device_state' \in DeviceState
<1>1. CASE Reload /\ UNCHANGED device_state
  BY <1>1, ReloadType DEF TypeOK, IntentOK
<1>2. CASE TakesBrightness(ec.keyboard_brightness)
  <2> DEFINE b == ec.keyboard_brightness
             c == [Loaded EXCEPT !.profile[source].keyboard_brightness = b]
             session == IF LoadedAction = NoAction THEN NoAction
                        ELSE [LoadedAction EXCEPT !.effective.keyboard_brightness = b]
  <2>1. b \in Brightness /\ source \in Source
    BY DEF TypeOK, WorldOK, PowerOK, DeviceState
  <2> HIDE DEF b
  <2>2. Loaded \in Config /\ LoadedAction \in ActionSession \cup {NoAction}
    BY LoadedType DEF TypeOK
  <2>3. [Loaded.profile[source] EXCEPT !.keyboard_brightness = b] \in DeviceState
    BY <2>1, <2>2 DEF Config, DeviceState
  <2>4. c \in Config
    BY <2>1, <2>2, <2>3 DEF Config
  <2>5. session \in ActionSession \cup {NoAction}
    BY <2>1, <2>2 DEF ActionSession, DeviceState
  <2>6. Store(c, session) /\ device_state' = [device_state EXCEPT !.keyboard_brightness = b]
    BY <1>2 DEF TakesBrightness, b
  <2>7. device_state' \in DeviceState
    BY <2>1, <2>6 DEF TypeOK, IntentOK, DeviceState
  <2> HIDE DEF c, session
  <2> QED
    BY <2>4, <2>5, <2>6, <2>7, StoreType DEF TypeOK
<1> QED
  BY <1>1, <1>2 DEF MirrorTakes

LEMMA MirrorFollowsType ==
  ASSUME TypeOK, MirrorFollows
  PROVE  FileOK' /\ MemoryOK' /\ device_state' \in DeviceState
<1>1. CASE Adopts
  BY <1>1, ObserveType DEF MirrorFollows, TypeOK, WorldOK
<1>2. CASE ~Adopts
  BY <1>2, ReloadType, MatchingIntentType DEF MirrorFollows, TypeOK, WorldOK, IntentOK
<1> QED
  BY <1>1, <1>2

LEMMA MirrorReadsType ==
  ASSUME TypeOK, MirrorReads
  PROVE  TypeOK'
<1>1. FileOK' /\ MemoryOK' /\ device_state' \in DeviceState
  BY MirrorTakesType, MirrorFollowsType DEF MirrorReads
<1>2. quiet' \in BOOLEAN /\ chosen' \in [Source -> SUBSET PerfMode]
  BY NoteReadingType DEF MirrorReads, TypeOK, WorldOK, HistoryOK
<1>3. IntentOK'
  BY <1>1 DEF MirrorReads, TypeOK, WorldOK, IntentOK
<1>4. HistoryOK'
  BY <1>2 DEF MirrorReads, TypeOK, HistoryOK
<1>5. LoopOK'
  BY DEF MirrorReads, TypeOK, LoopOK, loop, Phase
<1> QED
  BY <1>1, <1>3, <1>4, <1>5, UntouchedTypes DEF MirrorReads, TypeOK

LEMMA MirrorReassertsType ==
  ASSUME TypeOK, MirrorReasserts
  PROVE  TypeOK'
<1>1. FileOK' /\ MemoryOK' /\ device_state' \in DeviceState
  BY MirrorTakesType DEF MirrorReasserts
<1>2. /\ WorldOK' /\ observed' \in DeviceState /\ wrote' = "config"
      /\ left' \in [Event -> Nat]
  <2>1. CASE ReassertFails
    BY <2>1, ReassertFailsType DEF MirrorReasserts
  <2>2. CASE ~ReassertFails
    <3> DEFINE ws == EnforcedWrites \cap Takes(device_state)
               after == Written(ec, device_state, ws)
               shown == IF device_state.perf_mode = "Custom" /\ after.perf_mode # "Custom"
                        THEN ec
                        ELSE [device_state EXCEPT !.keyboard_brightness =
                                                    ec.keyboard_brightness]
    <3>1. Reassert(ws, zones, shown) /\ UNCHANGED left
      BY <2>2 DEF MirrorReasserts
    <3>2. ec \in DeviceState /\ zones \in {"agree", "diverged"}
      BY DEF TypeOK, WorldOK
    <3>3. [device_state EXCEPT !.keyboard_brightness = ec.keyboard_brightness] \in DeviceState
      BY DEF TypeOK, WorldOK, IntentOK, DeviceState
    <3> HIDE DEF ws, after
    <3>4. shown \in DeviceState
      BY <3>2, <3>3
    <3> HIDE DEF shown
    <3>5. WorldOK' /\ observed' \in DeviceState /\ wrote' = "config"
      BY <3>1, <3>2, <3>4, ReassertType DEF MirrorReasserts
    <3> QED
      BY <3>1, <3>5 DEF TypeOK, HistoryOK
  <2> QED
    BY <2>1, <2>2
<1>3. IntentOK'
  BY <1>1, <1>2 DEF IntentOK
<1>4. HistoryOK'
  BY <1>2 DEF MirrorReasserts, TypeOK, HistoryOK
<1>5. LoopOK'
  BY DEF MirrorReasserts, TypeOK, LoopOK, loop, Phase
<1> QED
  BY <1>1, <1>2, <1>3, <1>4, <1>5, UntouchedTypes DEF MirrorReasserts, TypeOK

LEMMA MirrorGivesUpType ==
  ASSUME TypeOK, MirrorFindsDiverged \/ MirrorFails
  PROVE  TypeOK'
<1>1. SyncOK'
  <2>1. CASE MirrorFindsDiverged
    BY <2>1, UntouchedTypes DEF MirrorFindsDiverged
  <2>2. CASE MirrorFails
    <3>1. failures \in 0..3 /\ 1 \in 0..3
      BY DEF TypeOK, SyncOK
    <3> QED
      BY <2>2, <3>1 DEF MirrorFails, TypeOK, SyncOK
  <2> QED
    BY <2>1, <2>2
<1>2. LoopOK'
  <2>1. CASE MirrorFindsDiverged
    <3>1. [from |-> "mirror", write |-> TRUE, failed |-> FALSE] \in Job
      BY DEF Job, Caller
    <3> QED
      BY <2>1, <3>1 DEF MirrorFindsDiverged, TypeOK, LoopOK, loop, Phase
  <2>2. CASE MirrorFails
    BY <2>2 DEF MirrorFails, TypeOK, LoopOK, loop, Phase
  <2> QED
    BY <2>1, <2>2
<1>3. left' \in [Event -> Nat]
  BY SpendType DEF MirrorFindsDiverged, MirrorFails, TypeOK, HistoryOK, Event
<1>4. HistoryOK'
  BY <1>3 DEF MirrorFindsDiverged, MirrorFails, TypeOK, HistoryOK
<1>5. UNCHANGED <<world, file, memory, device_state, observed, power>>
  BY DEF MirrorFindsDiverged, MirrorFails
<1> QED
  BY <1>1, <1>2, <1>4, <1>5, UntouchedTypes DEF TypeOK

-----------------------------------------------------------------------------
(* The world *)

LEMMA EditType ==
  ASSUME TypeOK, EditProfile \/ EditRules \/ EditBreaks
  PROVE  FileOK' /\ chosen' \in [Source -> SUBSET PerfMode]
<1>1. disk \in [parses : BOOLEAN, config : Config] /\ disk.config \in Config
      /\ chosen \in [Source -> SUBSET PerfMode]
  BY DEF TypeOK, FileOK, HistoryOK
<1>2. CASE EditProfile
  <2>1. PICK s \in Source, p \in OtherPerf :
          /\ disk' = [parses |-> TRUE,
                      config |-> [disk.config EXCEPT !.profile[s].perf_mode = p]]
          /\ chosen' = [chosen EXCEPT ![s] = @ \cup {p}]
    BY <1>2 DEF EditProfile
  <2>2. p \in PerfMode
    BY TrayAssumption
  <2>3. [disk.config.profile[s] EXCEPT !.perf_mode = p] \in DeviceState
    BY <1>1, <2>2 DEF Config, DeviceState
  <2>4. [disk.config EXCEPT !.profile[s].perf_mode = p] \in Config
    BY <1>1, <2>3 DEF Config
  <2> QED
    BY <1>1, <1>2, <2>1, <2>2, <2>4 DEF EditProfile, FileOK
<1>3. CASE EditRules
  <2>1. PICK rules \in RuleSets :
          disk' = [parses |-> TRUE, config |-> [disk.config EXCEPT !.app_profiles = rules]]
    BY <1>3 DEF EditRules
  <2>2. [disk.config EXCEPT !.app_profiles = rules] \in Config
    BY <1>1 DEF Config, RuleLists
  <2> QED
    BY <1>1, <1>3, <2>1, <2>2 DEF EditRules, FileOK
<1>4. CASE EditBreaks
  BY <1>1, <1>4 DEF EditBreaks, FileOK
<1> QED
  BY <1>2, <1>3, <1>4

LEMMA OutsideType ==
  ASSUME TypeOK, External \/ ExternalDies \/ Plug \/ Tell \/ ProcessComesOrGoes
  PROVE  WorldOK' /\ quiet' \in BOOLEAN /\ UNCHANGED <<file, chosen>>
<1>1. /\ ec \in DeviceState /\ zones \in {"agree", "diverged"}
      /\ plugged \in Source /\ told \in BOOLEAN /\ running \subseteq Process
      /\ quiet \in BOOLEAN
  BY DEF TypeOK, WorldOK, HistoryOK
<1>2. \A p \in OtherPerf : [ec EXCEPT !.perf_mode = p, !.fan_speed = AutoFan, !.max_fan = FALSE]
                            \in DeviceState
  BY <1>1, TrayAssumption DEF DeviceState, FanSpeed, AutoFan
<1>3. CASE External
  <2>1. \A b \in Brightness : [ec EXCEPT !.keyboard_brightness = b] \in DeviceState
    BY <1>1 DEF DeviceState
  <2>2. ec' \in DeviceState
    BY <1>2, <1>3, <2>1 DEF External
  <2>3. quiet' \in BOOLEAN
    BY <1>1, <1>3 DEF External
  <2> QED
    BY <1>1, <1>3, <2>2, <2>3 DEF External, WorldOK
<1>4. CASE ExternalDies
  BY <1>1, <1>2, <1>4 DEF ExternalDies, WorldOK
<1>5. CASE Plug \/ Tell
  BY <1>1, <1>5 DEF Plug, Tell, OtherSource, Source, WorldOK
<1>6. CASE ProcessComesOrGoes
  BY <1>1, <1>6 DEF ProcessComesOrGoes, WorldOK
<1> QED
  BY <1>3, <1>4, <1>5, <1>6

LEMMA UnmovedType ==
  ASSUME TypeOK, External \/ ExternalDies \/ Plug \/ Tell \/ ProcessComesOrGoes
                 \/ EditProfile \/ EditRules \/ EditBreaks
  PROVE  TypeOK'
<1>1. left' \in [Event -> Nat]
  BY SpendType DEF External, ExternalDies, Plug, Tell, ProcessComesOrGoes, EditProfile,
                   EditRules, EditBreaks, TypeOK, HistoryOK, Event
<1>2. UNCHANGED <<memory, device_state, observed, power, sync, pc, job, loop>>
      /\ wrote' = "none"
  BY DEF External, ExternalDies, Plug, Tell, ProcessComesOrGoes, EditProfile, EditRules,
         EditBreaks, Unmoved
<1>3. WorldOK' /\ FileOK' /\ quiet' \in BOOLEAN /\ chosen' \in [Source -> SUBSET PerfMode]
  <2>1. CASE External \/ ExternalDies \/ Plug \/ Tell \/ ProcessComesOrGoes
    BY <2>1, OutsideType, UntouchedTypes DEF TypeOK, HistoryOK
  <2>2. CASE EditProfile \/ EditRules \/ EditBreaks
    <3>1. UNCHANGED world /\ quiet' = FALSE
      BY <2>2 DEF EditProfile, EditRules, EditBreaks
    <3> QED
      BY <2>2, <3>1, EditType, UntouchedTypes
  <2> QED
    BY <2>1, <2>2
<1>4. HistoryOK'
  BY <1>1, <1>2, <1>3 DEF HistoryOK
<1> QED
  BY <1>2, <1>3, <1>4, UntouchedTypes DEF TypeOK

LEMMA SettleOverType ==
  ASSUME TypeOK, SettleOver
  PROVE  TypeOK'
<1>1. PowerOK'
  BY DEF SettleOver, TypeOK, PowerOK
<1>2. HistoryOK'
  BY DEF SettleOver, TypeOK, HistoryOK
<1> QED
  BY <1>1, <1>2, UntouchedTypes DEF SettleOver, TypeOK

LEMMA CrashType ==
  ASSUME TypeOK, Crash
  PROVE  TypeOK'
<1>1. ec' \in DeviceState /\ zones' \in {"agree", "diverged"}
  <2>1. ec \in DeviceState /\ device_state \in DeviceState /\ zones \in {"agree", "diverged"}
    BY DEF TypeOK, WorldOK, IntentOK
  <2>2. \A ws : Written(ec, device_state, ws) \in DeviceState
                /\ ZonesAfter(ws) \subseteq {"agree", "diverged"}
    BY <2>1, WrittenType DEF ZonesAfter
  <2> QED
    BY <2>1, <2>2 DEF Crash
<1>2. WorldOK'
  BY <1>1 DEF Crash, TypeOK, WorldOK
<1>3. LoopOK'
  BY DEF Crash, TypeOK, LoopOK, loop, Phase
<1>4. HistoryOK'
  BY SpendType DEF Crash, TypeOK, HistoryOK, Event
<1> QED
  BY <1>2, <1>3, <1>4, UntouchedTypes DEF Crash, TypeOK

-----------------------------------------------------------------------------
(* The theorem *)

LEMMA LoopKeepsTypes ==
  ASSUME TypeOK, Loop
  PROVE  TypeOK'
<1>1. ASSUME NEW next \in {"menu", "power", "scan", "converge", "mirror", "tick"}, Skip(next)
      PROVE  TypeOK'
  <2>1. next \in Phase
    BY <1>1 DEF Phase
  <2> QED
    BY <1>1, <2>1, SkipType
<1>2. CASE ResyncNotDue \/ NoClick \/ ConfigNotDue \/ ScanNotDue \/ WakeDone \/ MirrorNotDue
  BY <1>1, <1>2 DEF ResyncNotDue, NoClick, ConfigNotDue, ScanNotDue, WakeDone, MirrorNotDue
<1>3. CASE Start \/ ResyncDue \/ SyncProbe \/ SyncApply
  BY <1>3, StartType, ResyncType, SyncProbeType, SyncApplyType
<1>4. CASE ApplyDeferred \/ ApplyDone \/ ApplyBusFails \/ ApplyRejected
  BY <1>4, ApplyDeferredType, AppliesType
<1>5. CASE ReconcileReads \/ ReconcileFails \/ ReconcileReasserts
  BY <1>5, ReconcileReadsType, ReconcileReassertsType
<1>6. CASE MenuDone \/ Hover \/ PowerPoll \/ ConfigReload \/ Scan \/ Converge \/ WakeCheck
  BY <1>6, MenuDoneType, HoverType, PowerPollType, ConfigReloadType, ScanType, ConvergeType,
     WakeType
<1>7. CASE MirrorReads \/ MirrorReasserts \/ MirrorFindsDiverged \/ MirrorFails
  BY <1>7, MirrorReadsType, MirrorReassertsType, MirrorGivesUpType
<1> QED
  BY <1>2, <1>3, <1>4, <1>5, <1>6, <1>7 DEF Loop

LEMMA OthersKeepTypes ==
  ASSUME TypeOK, User \/ World \/ UNCHANGED vars
  PROVE  TypeOK'
<1>1. CASE User
  BY <1>1, PicksType, ToggleType, ResetType DEF User
<1>2. CASE World
  BY <1>2, UnmovedType, WakeType, SettleOverType, CrashType DEF World
<1>3. CASE UNCHANGED vars
  BY <1>3, UntouchedTypes DEF vars, TypeOK
<1> QED
  BY <1>1, <1>2, <1>3

\* Whatever the laptop, the config, the rules and the order of events, every variable keeps
\* its type: a session's rule number and a profile's values are always usable, and PERF_RETRIES
\* bounds the misses (ProgramState).
THEOREM TypeCorrect == Spec => []TypeOK
<1>1. TypeOK /\ [Next]_vars => TypeOK'
  BY LoopKeepsTypes, OthersKeepTypes DEF Next
<1> QED
  BY <1>1, TypeInit, PTL DEF Spec

=============================================================================
