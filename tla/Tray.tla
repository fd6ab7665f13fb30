--------------------------------- MODULE Tray ---------------------------------
(***************************************************************************)
(* razer-tray: ProgramState and the event loop that drives it, between a   *)
(* laptop whose EC other programs write too, a config file people edit,    *)
(* Windows' power source and a user.                                       *)
(*                                                                         *)
(* The loop is single-threaded.  One pass is cut where the code talks to   *)
(* the device or looks at the world (pc names the next phase), so that the *)
(* world moves between any two phases of a pass:                           *)
(*                                                                         *)
(*   tick -> [sync -> apply -> reconcile] -> menu* -> click -> power       *)
(*        -> config -> scan -> converge -> wake -> mirror -> tick          *)
(*                                                                         *)
(* apply and reconcile are subroutines of several phases; job says who     *)
(* called them.  Timers (2 s, 5 s, backoff) are nondeterministic: a phase  *)
(* whose timer may not have run out is skipped or not.  A whole exchange   *)
(* with the device is one step with a nondeterministic outcome; what       *)
(* happens inside an exchange is in Bus, and what happens between the file *)
(* operations of one save in ConfigFile.                                   *)
(***************************************************************************)
EXTENDS Profile

CONSTANTS
  PerfRetries,        \* PERF_RETRIES
  Ignores,            \* perf modes this EC acknowledges and never takes
  Partials,           \* which writes a failing apply may leave done
  Process,            \* executables that can run
  RuleSets,           \* Action rule lists a config may hold
  PickPerf,           \* perf modes a menu pick chooses
  OtherPerf,          \* perf modes another program or an edit chooses
  ReassertOnResume,   \* reassert_on_resume
  Scenes,             \* where a behaviour starts, and how often each event may happen in it
  InitEc,             \* what the EC holds before the first start
  NoAction, NoTarget  \* None

Writes == {"perf", "max_fan", "fan", "logo", "effect", "brightness"}
Event == {"pick", "toggle", "reset", "click", "extern", "kill", "plug", "tell", "process",
          "edit", "break", "bus", "reject", "wake", "crash"}

ASSUME TrayAssumption == /\ PerfRetries \in Nat
                         /\ Ignores \subseteq PerfMode
                         /\ Partials \subseteq SUBSET Writes
                         /\ PickPerf \subseteq PerfMode
                         /\ OtherPerf \subseteq PerfMode
                         /\ ReassertOnResume \in BOOLEAN

VARIABLES
  \* the laptop, Windows, the file and the people around the tray
  ec,           \* the settings the EC holds
  zones,        \* whether its two perf zones hold the same mode
  plugged,      \* the power source the laptop really is on
  told,         \* Windows can name it
  running,      \* running executables
  disk,         \* the config file: [parses, config]
  edited,       \* the file is not the one the tray last read or wrote
  \* ProgramState
  config,       \* profile, unset, enforce and app_profiles
  health,       \* ConfigFile::health
  device_state, observed,
  source, power_known,
  settling,     \* before adopt_not_before
  action,       \* the running ActionSession
  needs_sync, sync_apply, perf_retry,
  \* the event loop
  pc, job, io_ok, scan_now,
  failures,     \* sync_failures, capped at 3: more make no difference
  wake_checks,  \* reconciles each wake source still has scheduled
  \* bound and history
  left,         \* what remains of the scene's budget
  wrote,        \* why the last step wrote the device: "none", "pick" or "config"
  quiet,        \* nothing since the last adoption asks the tray to write
  chosen        \* perf modes the user or a reading gave each profile

world == <<ec, zones, plugged, told, running>>
file == <<disk, edited>>
memory == <<config, health, action>>
power == <<source, power_known, settling>>
sync == <<needs_sync, sync_apply, perf_retry, failures>>
loop == <<io_ok, scan_now, wake_checks>>
history == <<wrote, quiet, chosen>>
vars == <<world, file, memory, device_state, observed, power, sync, pc, job, loop,
          left, history>>

WakeSource == {"Resume", "DisplayOn"}
Caller == {"none", "sync", "menu", "click", "converge", "wake", "mirror"}
Phase == {"start", "tick", "sync", "apply", "reconcile", "menu", "click", "power",
          "config", "scan", "converge", "wake", "mirror"}
Job == [from : Caller, write : BOOLEAN, failed : BOOLEAN]
NoJob == [from |-> "none", write |-> FALSE, failed |-> FALSE]
PerfRetry == [target : DeviceState \cup {NoTarget}, misses : 0..PerfRetries,
              pending : BOOLEAN, gave_up : BOOLEAN]
FreshRetry == [target |-> NoTarget, misses |-> 0, pending |-> FALSE, gave_up |-> FALSE]

\* On to the next phase with nothing done in this one.
Skip(next) ==
  /\ pc' = next /\ wrote' = "none"
  /\ UNCHANGED <<world, file, memory, device_state, observed, power, sync, job, loop, left,
                 quiet, chosen>>

Spend(event) == left[event] > 0 /\ left' = [left EXCEPT ![event] = @ - 1]

-----------------------------------------------------------------------------
(* ConfigState *)

RuleLists == RuleSets \cup {s.config.app_profiles : s \in Scenes} \cup {<< >>}
Config == [profile : [Source -> DeviceState], unset : SUBSET Source, enforce : BOOLEAN,
           app_profiles : RuleLists]
Scene == [config : Config,              \* on disk before the first start
          parses : BOOLEAN,             \* whether that file parses
          told : BOOLEAN,               \* Windows names the power source at the start
          budget : [Event -> Nat]]      \* bound: how often each kind of event may happen
ActionSession == [rule : Nat \ {0}, effective : DeviceState]

ASSUME ConfigAssumption ==
  /\ InitEc \subseteq DeviceState
  /\ Scenes \subseteq Scene
  /\ \A rules \in RuleLists : /\ DOMAIN rules \subseteq Nat \ {0}
                              /\ \A i \in DOMAIN rules : IsRule(rules[i])

DefaultState ==
  [perf_mode |-> "Performance", max_fan |-> FALSE, fan_speed |-> AutoFan,
   logo_mode |-> CHOOSE l \in Logo : TRUE,
   keyboard_brightness |-> CHOOSE b \in Brightness : TRUE,
   keyboard_effect |-> CHOOSE e \in Effect : TRUE, keyboard_color |-> NoColor]

\* ConfigState::default, whose profiles are also the placeholders of unset ones.
Placeholder ==
  [s \in Source |-> IF s = "ac" THEN DefaultState
                    ELSE [DefaultState EXCEPT !.perf_mode = "Battery"]]
DefaultConfig ==
  [profile |-> Placeholder, unset |-> {}, enforce |-> FALSE, app_profiles |-> << >>]
FirstRun == [DefaultConfig EXCEPT !.unset = Source]

\* A profile whose values were edited away from the placeholder counts as set.
UnsetIn(c) == {s \in c.unset : c.profile[s] = Placeholder[s]}

\* A config as ProgramState holds it: every profile normalized.
InMemory(c) ==
  [c EXCEPT !.profile = [s \in Source |-> normalized(c.profile[s])],
            !.unset = UnsetIn(c)]

\* config_snapshot: an unset profile is saved as the placeholder.
Snapshot(c) ==
  [c EXCEPT !.profile = [s \in Source |-> IF s \in c.unset THEN Placeholder[s]
                                          ELSE c.profile[s]]]

-----------------------------------------------------------------------------
(* ProgramState: what its other methods read. *)

ModeNow == mode(health, power_known, source, config.unset)

saved_profile == config.profile[source]

\* The rule of a running session, as adopt_config and target look it up.
RuleAt(rules, i) == IF i \in DOMAIN rules THEN rules[i] ELSE NoAction

\* What the device should be in: the session's state while its rule may run here, else
\* the saved profile.
target ==
  normalized(IF /\ action # NoAction
                /\ action.rule \in DOMAIN config.app_profiles
                /\ allowed_on(config.app_profiles[action.rule], source)
             THEN action.effective ELSE saved_profile)

\* adopt_config keeps a running Action whose rule did not change.
Kept(session, old, new) ==
  IF session # NoAction /\ RuleAt(old, session.rule) # RuleAt(new, session.rule)
  THEN NoAction ELSE session

\* reload_config_if_changed, as values: what memory holds after it.
Readable == edited /\ disk.parses
Loaded == IF Readable THEN InMemory(disk.config) ELSE config
LoadedHealth == IF Readable THEN "Usable" ELSE health
LoadedAction ==
  IF Readable THEN Kept(action, config.app_profiles, disk.config.app_profiles) ELSE action

Reload ==
  /\ config' = Loaded /\ health' = LoadedHealth /\ action' = LoadedAction
  /\ edited' = (edited /\ ~Readable)
  /\ UNCHANGED disk

\* store, after a reload: refused over an edit that does not parse and while the file
\* is corrupt or unreadable.
Store(c, session) ==
  /\ config' = c /\ action' = session /\ health' = LoadedHealth
  /\ IF (edited /\ ~disk.parses) \/ LoadedHealth # "Usable"
     THEN disk' = disk /\ edited' = (edited /\ ~Readable)
     ELSE disk' = [parses |-> TRUE, config |-> Snapshot(c)] /\ edited' = FALSE

\* persist, without a reload before it: an edit is adopted and the save skipped.
Persist(c, session) ==
  IF Readable
  THEN /\ config' = InMemory(disk.config) /\ health' = "Usable"
       /\ action' = Kept(session, c.app_profiles, disk.config.app_profiles)
       /\ edited' = FALSE /\ UNCHANGED disk
  ELSE Store(c, session)

-----------------------------------------------------------------------------
(* The device: what a set of writes leaves in the EC. *)

EnforcedWrites == {"perf", "max_fan", "fan", "logo"}

\* A perf write also sets the fan to Auto; the EC drops max fan outside Custom.
Written(old, d, ws) ==
  LET perf == IF "perf" \in ws THEN d.perf_mode ELSE old.perf_mode
  IN [perf_mode |-> perf,
      max_fan   |-> perf = "Custom" /\ (IF "max_fan" \in ws THEN d.max_fan ELSE old.max_fan),
      fan_speed |-> IF "fan" \in ws THEN d.fan_speed
                    ELSE IF "perf" \in ws THEN AutoFan ELSE old.fan_speed,
      logo_mode |-> IF "logo" \in ws THEN d.logo_mode ELSE old.logo_mode,
      keyboard_brightness |-> IF "brightness" \in ws THEN d.keyboard_brightness
                              ELSE old.keyboard_brightness,
      keyboard_effect |-> IF "effect" \in ws /\ d.keyboard_color = NoColor
                          THEN d.keyboard_effect ELSE old.keyboard_effect,
      keyboard_color |-> NoColor]

\* The writes an EC takes: one that ignores the mode stays in the old one, which still
\* takes the fan mode; max fan needs Custom first.
Takes(d) == IF d.perf_mode \in Ignores THEN Writes \ {"perf", "max_fan"} ELSE Writes

ModesTaken(d, after) ==
  after.perf_mode = d.perf_mode /\ after.fan_speed.mode = d.fan_speed.mode

-----------------------------------------------------------------------------
(* Taking a reading in: ProgramState::observe, except for observed itself. *)

\* Mutant: the profile stays unset, and every later reading replaces it.
ObserveNeverSets(reading) ==
  LET profile == normalized(matching_intent(device_state, reading))
  IN IF ModeNow = "Adopt" /\ ~settling
     THEN device_state' = profile /\ Persist([config EXCEPT !.profile[source] = profile], action)
     ELSE UNCHANGED <<device_state, memory, file>>

Observe(reading) ==
  LET profile == normalized(matching_intent(device_state, reading))
      c == [config EXCEPT !.profile[source] = profile, !.unset = @ \ {source}]
      moved == IF action # NoAction /\ action.rule \in DOMAIN config.app_profiles
               THEN [action EXCEPT !.effective =
                       power_changed(config.app_profiles[action.rule], @,
                                     saved_profile, profile)]
               ELSE action
  IN \/ /\ ModeNow = "Apply"
        /\ UNCHANGED <<device_state, memory, file>>
     \/ /\ ModeNow = "Observe"
        /\ device_state' = matching_intent(device_state, reading)
        /\ UNCHANGED <<memory, file>>
     \/ /\ ModeNow = "Adopt" /\ settling
        /\ UNCHANGED <<device_state, memory, file>>
     \/ /\ ModeNow = "Adopt" /\ ~settling
        /\ device_state' = profile
        /\ Persist(c, moved)

Adopts == ModeNow = "Adopt" /\ ~settling

\* Nobody has asked the tray to write: no Enforce, Action, unread edit, resume to re-assert
\* after, power source it has not noticed, or zones to repair.
Undisturbed ==
  /\ ~config.enforce /\ config.app_profiles = << >> /\ action = NoAction
  /\ ~edited /\ wake_checks["Resume"] = 0 /\ zones = "agree"
  /\ told => power_known /\ source = plugged

ActionShows == action # NoAction /\ ec.perf_mode = action.effective.perf_mode

\* What an adoption tells the history: the profile holds what the laptop had, unless that
\* is a running Action's mode, and until somebody asks for something nothing needs writing.
NoteReading ==
  /\ quiet' = (quiet \/ (Adopts /\ Undisturbed))
  /\ chosen' = IF Adopts /\ ~ActionShows
               THEN [chosen EXCEPT ![source] =
                       @ \cup {normalized(matching_intent(device_state, ec)).perf_mode}]
               ELSE chosen

NoRead == UNCHANGED <<device_state, observed, memory, file>>

-----------------------------------------------------------------------------
(* Start: load the config, ProgramState::new; then the first sync. *)

Boot(c, h, stale) ==
  /\ config' = InMemory(c) /\ health' = h /\ edited' = stale
  /\ source' = IF told THEN plugged ELSE "ac"
  /\ power_known' = told
  /\ device_state' = config'.profile[source']
  /\ observed' = device_state'
  /\ action' = NoAction /\ settling' = FALSE
  /\ needs_sync' = TRUE /\ sync_apply' = TRUE /\ failures' = 0
  /\ perf_retry' = FreshRetry
  /\ io_ok' = FALSE /\ scan_now' = FALSE
  /\ wake_checks' = [s \in WakeSource |-> 0]
  /\ pc' = "sync" /\ job' = NoJob

Start ==
  /\ pc = "start"
  /\ \/ disk.parses /\ Boot(disk.config, "Usable", FALSE) /\ UNCHANGED left
     \/ ~disk.parses /\ Boot(DefaultConfig, "Corrupt", FALSE) /\ UNCHANGED left
     \/ Spend("break") /\ Boot(DefaultConfig, "Unreadable", TRUE)   \* locked by another program
  /\ wrote' = "none" /\ quiet' = FALSE
  /\ UNCHANGED <<world, disk, chosen>>

-----------------------------------------------------------------------------
(* The top of a pass: retry a failed exchange once its backoff has run out. *)

\* After three failures the handle may be stale: reopening it asks for a full apply.
Reopens == failures >= 3 /\ ~perf_retry.pending

ResyncDue ==
  /\ pc = "tick" /\ needs_sync
  /\ pc' = "sync"
  /\ \/ Reopens /\ sync_apply' = TRUE /\ quiet' = FALSE      \* Device::detect found it
     \/ UNCHANGED <<sync_apply, quiet>>
  /\ wrote' = "none"
  /\ UNCHANGED <<world, file, memory, device_state, observed, power, needs_sync,
                 perf_retry, failures, job, loop, left, chosen>>

ResyncNotDue == pc = "tick" /\ Skip("menu")

\* Mutant: a probe is only what a failed read asks for.
ProbesBySyncApply == ~sync_apply

\* sync probes instead of applying after a failed read, and while the config is not applied.
Probes == ~sync_apply \/ ModeNow # "Apply"

\* The probe ends the resync with a reconcile, or stays pending.
ProbeEnds(diverged) ==
  /\ job' = [from |-> "sync", failed |-> FALSE,
             write |-> probe_may_write(ModeNow, config.enforce, diverged)]
  /\ pc' = "reconcile" /\ needs_sync' = FALSE /\ UNCHANGED failures
ProbeStays ==
  /\ pc' = "menu" /\ failures' = (IF failures < 3 THEN failures + 1 ELSE 3)
  /\ UNCHANGED <<job, needs_sync>>

\* Mutant: diverged zones count as any retryable error.
DivergedProbeStays == zones = "diverged" /\ ProbeStays /\ UNCHANGED left

\* Diverged zones end it too: they are to be repaired, and would fail every probe.
DivergedProbe == zones = "diverged" /\ ProbeEnds(TRUE) /\ UNCHANGED left

SyncProbe ==
  /\ pc = "sync" /\ Probes
  /\ wrote' = "none"
  /\ \/ /\ zones = "agree" /\ ProbeEnds(FALSE) /\ UNCHANGED left
        /\ Observe(ec) /\ observed' = ec /\ NoteReading
     \/ /\ \/ DivergedProbe
           \/ ProbeEnds(FALSE) /\ Spend("reject")
           \/ ProbeStays /\ Spend("bus")
        /\ NoRead /\ UNCHANGED <<quiet, chosen>>
  /\ UNCHANGED <<world, power, sync_apply, perf_retry, loop>>

SyncApply ==
  /\ pc = "sync" /\ ~Probes
  /\ device_state' = target
  /\ needs_sync' = FALSE
  /\ pc' = "apply" /\ job' = [from |-> "sync", write |-> FALSE, failed |-> FALSE]
  /\ wrote' = "none"
  /\ UNCHANGED <<world, file, memory, observed, power, sync_apply, perf_retry, failures,
                 loop, left, quiet, chosen>>

-----------------------------------------------------------------------------
(* apply_and_refresh: write device_state, read the modes back, judge the outcome.  *)

\* Where the pass goes on after an apply.
AfterApply(from) ==
  CASE from = "sync" -> "reconcile" [] from = "menu" -> "menu"
    [] from = "click" -> "power"    [] from = "converge" -> "wake"
    [] OTHER -> "tick"

\* A resync is pending: leave the device to it.
ApplyDeferred ==
  /\ pc = "apply" /\ needs_sync
  /\ sync_apply' = TRUE
  /\ pc' = AfterApply(job.from) /\ job' = NoJob /\ wrote' = "none"
  /\ UNCHANGED <<world, file, memory, device_state, observed, power, needs_sync,
                 perf_retry, failures, loop, left, quiet, chosen>>

\* Mutant: the misses are not counted.
RetryNeverGivesUp(result) ==
  CASE result = "ok"  -> FreshRetry
    [] result = "bus" -> [perf_retry EXCEPT !.pending = FALSE, !.gave_up = FALSE]
    [] result = "ignored" -> [target |-> device_state, misses |-> 1, pending |-> TRUE,
                              gave_up |-> FALSE]

\* Mutant: off by one, a retry too many.
RetryOnceMore(result) ==
  LET misses == 1 + (IF perf_retry.target = device_state THEN perf_retry.misses ELSE 0)
  IN CASE result = "ok"  -> FreshRetry
       [] result = "bus" -> [perf_retry EXCEPT !.pending = FALSE, !.gave_up = FALSE]
       [] result = "ignored" /\ misses > PerfRetries + 1 ->
            [FreshRetry EXCEPT !.gave_up = TRUE]
       [] result = "ignored" /\ misses <= PerfRetries + 1 ->
            [target |-> device_state, misses |-> misses, pending |-> TRUE, gave_up |-> FALSE]

\* PERF_RETRIES resyncs for a mode the EC ignores, counted per intended state.
Retry(result) ==
  LET misses == 1 + (IF perf_retry.target = device_state THEN perf_retry.misses ELSE 0)
  IN CASE result = "ok"  -> FreshRetry
       [] result = "bus" -> [perf_retry EXCEPT !.pending = FALSE, !.gave_up = FALSE]
       [] result = "ignored" /\ misses > PerfRetries -> [FreshRetry EXCEPT !.gave_up = TRUE]
       [] result = "ignored" /\ misses <= PerfRetries ->
            [target |-> device_state, misses |-> misses, pending |-> TRUE, gave_up |-> FALSE]

\* Mutant: the error handler leaves it to whatever resync is due.
ApplyReturnsProbing(err) ==
  /\ IF err /\ job.from # "sync" THEN needs_sync' = TRUE ELSE UNCHANGED needs_sync
  /\ pc' = AfterApply(job.from)
  /\ job' = IF job.from = "sync" THEN [job EXCEPT !.write = TRUE, !.failed = err] ELSE NoJob
  /\ UNCHANGED <<sync_apply, failures>>

\* A resync goes on to its reconcile with the error in hand; any other caller's error ends
\* the pass, and the handler at the end of it asks for a full resync.
ApplyReturns(err) ==
  IF err /\ job.from # "sync"
  THEN /\ needs_sync' = TRUE /\ sync_apply' = TRUE
       /\ failures' = IF failures = 0 THEN 1 ELSE failures
       /\ pc' = "tick" /\ job' = NoJob
  ELSE /\ pc' = AfterApply(job.from)
       /\ job' = IF job.from = "sync"
                 THEN [job EXCEPT !.write = ~perf_retry'.gave_up, !.failed = err]
                 ELSE NoJob
       /\ UNCHANGED <<needs_sync, sync_apply, failures>>

\* The writes ws reach the EC and leave the zones as z; bus says whether the bus failed.
Apply(ws, z, bus) ==
  LET after == Written(ec, device_state, ws)
      taken == ModesTaken(device_state, after)
      result == IF bus THEN "bus" ELSE IF z = "agree" /\ ~taken THEN "ignored" ELSE "ok"
  IN /\ pc = "apply" /\ ~needs_sync
     /\ ec' = after /\ zones' = z
     /\ perf_retry' = Retry(result)
     /\ observed' \in (IF ws = Takes(device_state) /\ result = "ok" THEN {device_state}
                       ELSE (IF z = "agree" THEN {after} ELSE {observed})
                          \cup (IF bus THEN {observed} ELSE {}))
     /\ ApplyReturns(result = "bus" \/ perf_retry'.pending)
     /\ wrote' = IF job.from \in {"menu", "click"} THEN "pick" ELSE "config"
     /\ UNCHANGED <<plugged, told, running, file, memory, device_state, power, loop,
                    quiet, chosen>>

\* What a perf write leaves of the zones: both set, unless it never got there.
ZonesAfter(ws) == IF "perf" \in ws THEN {"agree", "diverged"} ELSE {zones}

ApplyDone ==
  LET ws == Takes(device_state)
      z == IF "perf" \in ws THEN "agree" ELSE zones
  IN Apply(ws, z, z = "diverged") /\ UNCHANGED left

ApplyBusFails ==
  \E p \in Partials :
    LET ws == p \cap Takes(device_state)
    IN (\E z \in ZonesAfter(ws) : Apply(ws, z, TRUE)) /\ Spend("bus")

\* The EC rejects some of the writes; the others are still made.
ApplyRejected ==
  \E p \in Partials \ {Writes} :
    LET ws == p \cap Takes(device_state)
    IN Apply(ws, IF "perf" \in ws THEN "agree" ELSE zones, FALSE) /\ Spend("reject")

-----------------------------------------------------------------------------
(* reconcile: read back, and re-assert the enforced settings where that may be done. *)

AfterReconcile(from) ==
  CASE from = "sync" -> "menu" [] from = "wake" -> "mirror" [] OTHER -> "tick"

\* A resync ends here: it succeeded, or its apply had failed.
ReconcileReturns ==
  /\ pc' = AfterReconcile(job.from) /\ job' = NoJob
  /\ IF job.from # "sync" THEN UNCHANGED <<needs_sync, failures>>
     ELSE IF job.failed
          THEN needs_sync' = TRUE /\ failures' = IF failures < 3 THEN failures + 1 ELSE 3
          ELSE needs_sync' = FALSE /\ failures' = 0

\* Judged by the mode from before the read; a read that adopts leaves Adopt.
MayReassert == job.write /\ ModeNow = "Apply"

Drifted == zones = "diverged" \/ enforced_fields_differ(ec, device_state)

ReconcileReads ==
  /\ pc = "reconcile"
  /\ ~(MayReassert /\ Drifted)
  /\ IF zones = "agree"
     THEN Observe(ec) /\ observed' = ec /\ NoteReading
     ELSE NoRead /\ UNCHANGED <<quiet, chosen>>
  /\ ReconcileReturns /\ wrote' = "none"
  /\ UNCHANGED <<world, power, sync_apply, perf_retry, loop, left>>

ReconcileFails ==
  /\ pc = "reconcile"
  /\ \/ Spend("bus") \/ Spend("reject")
  /\ ReconcileReturns /\ wrote' = "none"
  /\ NoRead
  /\ UNCHANGED <<world, power, sync_apply, perf_retry, loop, quiet, chosen>>

\* enforce_to: the writes ws reach the EC; shown is what the display holds afterwards.
Reassert(ws, z, shown) ==
  /\ ec' = Written(ec, device_state, ws) /\ zones' = z
  /\ observed' = shown
  /\ wrote' = "config"

\* What a read just before a failed re-assert left on the display.
ReadBefore == IF zones = "agree" THEN ec ELSE observed

ReassertFails ==
  \E p \in Partials :
    LET ws == p \cap EnforcedWrites \cap Takes(device_state)
    IN (\E z \in ZonesAfter(ws) : Reassert(ws, z, ReadBefore)) /\ Spend("bus")

ReconcileReasserts ==
  /\ pc = "reconcile"
  /\ MayReassert /\ Drifted
  /\ \/ LET ws == EnforcedWrites \cap Takes(device_state)
            z == IF "perf" \in ws THEN "agree" ELSE zones
            after == Written(ec, device_state, ws)
        IN /\ Reassert(ws, z,
                       IF z = "diverged"
                       THEN [device_state EXCEPT !.keyboard_brightness =
                                                   observed.keyboard_brightness]
                       ELSE IF device_state.perf_mode = "Custom" /\ after.perf_mode # "Custom"
                       THEN ReadBefore ELSE after)
           /\ UNCHANGED left
     \/ ReassertFails
  /\ ReconcileReturns
  /\ UNCHANGED <<plugged, told, running, file, memory, device_state, power, sync_apply,
                 perf_retry, loop, quiet, chosen>>

-----------------------------------------------------------------------------
(* The menu, drained before anything else in a pass; every event reloads the file first. *)

ModeAfterReload == mode(LoadedHealth, power_known, source, Loaded.unset)

\* What a pick leaves in the saved profile: what differs from the menu it was made in; a
\* cycle during a session leaves the mode and max fan alone.
Saved(pick, session, picked) ==
  normalized(carry_changes(Loaded.profile[source], device_state,
    IF pick = "Cycle" /\ session # NoAction
    THEN [picked EXCEPT !.perf_mode = device_state.perf_mode, !.max_fan = device_state.max_fan]
    ELSE picked))

\* Saved and persisted before the device is touched; held by the session, too.
Update(wanted, pick) ==
  LET picked == normalized(wanted)
      c == IF ModeAfterReload = "Apply"
           THEN [Loaded EXCEPT !.profile[source] = Saved(pick, LoadedAction, picked)]
           ELSE Loaded
  IN /\ Store(c, IF LoadedAction = NoAction THEN NoAction
                 ELSE [LoadedAction EXCEPT !.effective = picked])
     /\ device_state' = picked
     /\ pc' = "apply"

\* The menu's items: a simple mode other than the checked one (max fan off), a Custom boost,
\* max fan (which promotes to Custom), a brightness.
MenuItems ==
  {[device_state EXCEPT !.perf_mode = p, !.max_fan = FALSE] :
     p \in PickPerf \ {"Custom", device_state.perf_mode}}
  \cup (IF "Custom" \in PickPerf
        THEN {[device_state EXCEPT !.perf_mode = "Custom"],
              [device_state EXCEPT !.perf_mode = "Custom",
                                   !.max_fan = ~(@ /\ device_state.perf_mode = "Custom")]}
        ELSE {})
  \cup {[device_state EXCEPT !.keyboard_brightness = b] : b \in Brightness}

MenuPick ==
  /\ pc = "menu" /\ Spend("pick")
  /\ \E wanted \in MenuItems :
       /\ Update(wanted, "Menu")
       /\ chosen' = IF ModeAfterReload = "Apply" /\ wanted.perf_mode # device_state.perf_mode
                    THEN [chosen EXCEPT ![source] = @ \cup {wanted.perf_mode}] ELSE chosen
  /\ job' = [NoJob EXCEPT !.from = "menu"]
  /\ wrote' = "none" /\ quiet' = FALSE
  /\ UNCHANGED <<world, observed, power, sync, loop>>

ToggleEnforce ==
  /\ pc = "menu" /\ Spend("toggle")
  /\ Store([Loaded EXCEPT !.enforce = ~@], LoadedAction)
  /\ wrote' = "none" /\ quiet' = FALSE
  /\ UNCHANGED <<world, device_state, observed, power, sync, pc, job, loop, chosen>>

\* Offered while the file does not parse; the profiles are unset then, and the resync
\* probe adopts the next reading.
ResetConfig ==
  /\ pc = "menu" /\ Spend("reset")
  /\ LoadedHealth = "Corrupt"
  /\ disk' = [parses |-> TRUE, config |-> FirstRun] /\ edited' = FALSE
  /\ config' = InMemory(FirstRun) /\ health' = "Usable"
  /\ action' = Kept(action, config.app_profiles, FirstRun.app_profiles)
  /\ needs_sync' = TRUE
  /\ wrote' = "none" /\ quiet' = FALSE
  /\ UNCHANGED <<world, device_state, observed, power, sync_apply, perf_retry, failures, pc,
                 job, loop, chosen>>

\* No device access for the rest of the pass while a resync is pending.
MenuDone ==
  /\ pc = "menu"
  /\ pc' = "click" /\ io_ok' = ~needs_sync /\ wrote' = "none"
  /\ UNCHANGED <<world, file, memory, device_state, observed, power, sync, job, scan_now,
                 wake_checks, left, quiet, chosen>>

-----------------------------------------------------------------------------
(* The tray icon: a left-click (or the hotkey) cycles, a hover reads. *)

Click ==
  LET wanted == [device_state EXCEPT !.perf_mode = next_perf_mode(@)]
  IN /\ pc = "click" /\ Spend("click")
     /\ Update(wanted, "Cycle")
     /\ chosen' = IF /\ ModeAfterReload = "Apply" /\ LoadedAction = NoAction
                     /\ device_state.perf_mode \in chosen[source]
                  THEN [chosen EXCEPT ![source] = @ \cup {wanted.perf_mode}] ELSE chosen
     /\ job' = [NoJob EXCEPT !.from = "click"]
     /\ wrote' = "none" /\ quiet' = FALSE
     /\ UNCHANGED <<world, observed, power, sync, loop>>

Hover ==
  /\ pc = "click" /\ io_ok /\ zones = "agree"
  /\ Observe(ec) /\ observed' = ec /\ NoteReading
  /\ pc' = "power" /\ wrote' = "none"
  /\ UNCHANGED <<world, power, sync, job, loop, left>>

NoClick == pc = "click" /\ Skip("power")

-----------------------------------------------------------------------------
(* The power source; a profile never seen is read through the resync probe. *)

PowerPoll ==
  LET now == IF told THEN plugged ELSE source
      changed == now # source
      became_known == told /\ ~power_known
  IN /\ pc = "power"
     /\ source' = now /\ power_known' = (power_known \/ told)
     /\ action' = IF /\ changed /\ action # NoAction
                     /\ action.rule \in DOMAIN config.app_profiles
                  THEN [action EXCEPT !.effective =
                          power_changed(config.app_profiles[action.rule], @,
                                        config.profile[source], config.profile[now])]
                  ELSE action
     /\ settling' = (settling \/ changed)
     /\ scan_now' = changed
     /\ needs_sync' = (needs_sync \/ /\ changed \/ became_known
                                     /\ mode(health, power_known', now, config.unset) = "Adopt")
     /\ pc' = "config" /\ wrote' = "none"
     /\ UNCHANGED <<world, file, config, health, device_state, observed, sync_apply,
                    perf_retry, failures, job, io_ok, wake_checks, left, quiet, chosen>>

-----------------------------------------------------------------------------
(* Every 5 s: the config file, and the process scan. *)

ConfigReload ==
  /\ pc = "config" /\ Readable
  /\ Reload
  /\ pc' = "scan" /\ wrote' = "none"
  /\ UNCHANGED <<world, device_state, observed, power, sync, job, loop, left, quiet, chosen>>

ConfigNotDue == pc = "config" /\ Skip("scan")

Matched == matching_app_profile(config.app_profiles, running, source)

Session(rule) ==
  IF rule = 0 THEN NoAction
  ELSE [rule |-> rule, effective |-> Seed(config.app_profiles[rule], saved_profile)]

\* Acts on transitions only: a session of the rule that matches goes on.
Scan ==
  /\ pc = "scan"
  /\ action' = IF config.app_profiles # << >> /\ action # NoAction /\ action.rule = Matched
               THEN action ELSE Session(Matched)
  /\ scan_now' = FALSE
  /\ pc' = "converge" /\ wrote' = "none"
  /\ UNCHANGED <<world, file, config, health, device_state, observed, power, sync, job,
                 io_ok, wake_checks, left, quiet, chosen>>

ScanNotDue == pc = "scan" /\ config.app_profiles # << >> /\ ~scan_now /\ Skip("converge")

-----------------------------------------------------------------------------
(* Converge on the target, and on a wake read the device again. *)

Off == io_ok /\ ModeNow = "Apply" /\ target # device_state

Converge ==
  /\ pc = "converge"
  /\ \/ /\ Off
        /\ device_state' = target
        /\ pc' = "apply" /\ job' = [NoJob EXCEPT !.from = "converge"]
     \/ /\ ~Off
        /\ pc' = "wake" /\ UNCHANGED <<device_state, job>>
  /\ wrote' = "none"
  /\ UNCHANGED <<world, file, memory, observed, power, sync, loop, left, quiet, chosen>>

\* A wake schedules a reconcile at +3 s and one at +15 s.
WakeArrives ==
  /\ pc = "wake" /\ Spend("wake")
  /\ \E s \in WakeSource :
       /\ wake_checks' = [wake_checks EXCEPT ![s] = 2]
       /\ quiet' = (quiet /\ s # "Resume")
  /\ wrote' = "none"
  /\ UNCHANGED <<world, file, memory, device_state, observed, power, sync, pc, job, io_ok,
                 scan_now, chosen>>

\* A resume may re-assert; a display coming back only measures, unless Enforce is on.
WakeMayWrite(s) == config.enforce \/ (s = "Resume" /\ ReassertOnResume)

WakeCheck ==
  /\ pc = "wake" /\ io_ok
  /\ \E s \in WakeSource :
       /\ wake_checks[s] > 0
       /\ wake_checks' = [wake_checks EXCEPT ![s] = @ - 1]
       /\ job' = [from |-> "wake", write |-> WakeMayWrite(s), failed |-> FALSE]
  /\ pc' = "reconcile" /\ wrote' = "none"
  /\ UNCHANGED <<world, file, memory, device_state, observed, power, sync, io_ok, scan_now,
                 left, quiet, chosen>>

WakeDone == pc = "wake" /\ Skip("mirror")

-----------------------------------------------------------------------------
(* Mirror: at most every 2 s, on new input, read the device for display. *)

\* Mutant: the brightness is not saved.
TakesBrightnessUnsaved(b) ==
  /\ device_state' = [device_state EXCEPT !.keyboard_brightness = b]
  /\ config' = [Loaded EXCEPT !.profile[source].keyboard_brightness = b]
  /\ health' = LoadedHealth /\ action' = LoadedAction
  /\ edited' = (edited /\ ~Readable) /\ UNCHANGED disk

\* The Fn keys moved the brightness: intent, profile and session take it, and it is saved.
TakesBrightness(b) ==
  /\ device_state' = [device_state EXCEPT !.keyboard_brightness = b]
  /\ Store([Loaded EXCEPT !.profile[source].keyboard_brightness = b],
           IF LoadedAction = NoAction THEN NoAction
           ELSE [LoadedAction EXCEPT !.effective.keyboard_brightness = b])

\* A reading while the config is applied, with the reload after it.
MirrorTakes ==
  IF ModeAfterReload = "Apply" /\ ec.keyboard_brightness # device_state.keyboard_brightness
  THEN TakesBrightness(ec.keyboard_brightness)
  ELSE Reload /\ UNCHANGED device_state

\* A reading while it is not: adopted, or followed with a reload after it.
MirrorFollows ==
  IF Adopts
  THEN Observe(ec)
  ELSE /\ device_state' = IF ModeNow = "Observe" THEN matching_intent(device_state, ec)
                          ELSE device_state
       /\ Reload

\* Whether Enforce re-asserts after this reading; a reading that adopts is not written back.
MirrorEnforces ==
  /\ ModeNow = "Apply" /\ ModeAfterReload = "Apply" /\ Loaded.enforce
  /\ enforced_fields_differ(ec, device_state)

MirrorReads ==
  /\ pc = "mirror" /\ io_ok /\ zones = "agree"
  /\ ~MirrorEnforces
  /\ IF ModeNow = "Apply" THEN MirrorTakes ELSE MirrorFollows
  /\ NoteReading
  /\ observed' = ec
  /\ pc' = "tick" /\ wrote' = "none"
  /\ UNCHANGED <<world, power, sync, job, loop, left>>

\* enforce_to with the brightness already taken; a failure is logged and left to the next
\* reading.
MirrorReasserts ==
  /\ pc = "mirror" /\ io_ok /\ zones = "agree"
  /\ MirrorEnforces
  /\ MirrorTakes
  /\ \/ LET ws == EnforcedWrites \cap Takes(device_state)
            after == Written(ec, device_state, ws)
        IN /\ Reassert(ws, zones,
                       IF device_state.perf_mode = "Custom" /\ after.perf_mode # "Custom"
                       THEN ec
                       ELSE [device_state EXCEPT !.keyboard_brightness =
                                                   ec.keyboard_brightness])
           /\ UNCHANGED left
     \/ ReassertFails
  /\ pc' = "tick"
  /\ UNCHANGED <<plugged, told, running, power, sync, job, loop, quiet, chosen>>

\* Diverged zones are repaired with or without Enforce.
MirrorFindsDiverged ==
  /\ pc = "mirror" /\ io_ok /\ zones = "diverged"
  /\ job' = [from |-> "mirror", write |-> TRUE, failed |-> FALSE]
  /\ pc' = "reconcile" /\ wrote' = "none"
  /\ UNCHANGED <<world, file, memory, device_state, observed, power, sync, loop, left,
                 quiet, chosen>>

\* Mutant: a failed read asks for a full apply, which undoes other programs' changes.
MirrorFailsAndApplies ==
  /\ pc = "mirror" /\ io_ok /\ Spend("bus")
  /\ needs_sync' = TRUE /\ sync_apply' = TRUE
  /\ pc' = "tick" /\ wrote' = "none"
  /\ UNCHANGED <<world, file, memory, device_state, observed, power, perf_retry, failures,
                 job, loop, quiet, chosen>>

\* Bus trouble: stop polling and probe.
MirrorFails ==
  /\ pc = "mirror" /\ io_ok /\ Spend("bus")
  /\ needs_sync' = TRUE /\ sync_apply' = FALSE
  /\ failures' = IF failures = 0 THEN 1 ELSE failures
  /\ pc' = "tick" /\ wrote' = "none"
  /\ UNCHANGED <<world, file, memory, device_state, observed, power, perf_retry, job, loop,
                 quiet, chosen>>

MirrorNotDue == pc = "mirror" /\ Skip("tick")

-----------------------------------------------------------------------------
(* The world, at any point of a pass. *)

\* The tray does nothing meanwhile.
Unmoved ==
  wrote' = "none" /\ UNCHANGED <<memory, device_state, observed, power, sync, pc, job, loop>>

Resting == /\ pc = "tick" /\ ~needs_sync /\ ModeNow = "Apply" /\ power_known
           /\ device_state = target /\ Undisturbed

\* Another program or the Fn keys: what they set is theirs to keep.
External ==
  /\ Spend("extern")
  /\ \/ \E p \in OtherPerf : ec' = [ec EXCEPT !.perf_mode = p, !.fan_speed = AutoFan,
                                              !.max_fan = FALSE]
     \/ \E b \in Brightness : ec' = [ec EXCEPT !.keyboard_brightness = b]
  /\ ec' # ec
  /\ zones = "agree"
  /\ quiet' = (quiet \/ Resting)
  /\ UNCHANGED <<zones, plugged, told, running, file, chosen>> /\ Unmoved

\* Another program dies between the writes to the two zones.
ExternalDies ==
  /\ Spend("kill")
  /\ \E p \in OtherPerf \ {ec.perf_mode} :
       ec' = [ec EXCEPT !.perf_mode = p, !.fan_speed = AutoFan, !.max_fan = FALSE]
  /\ zones' = "diverged"
  /\ quiet' = FALSE
  /\ UNCHANGED <<plugged, told, running, file, chosen>> /\ Unmoved

Plug ==
  /\ Spend("plug")
  /\ plugged' = OtherSource(plugged)
  /\ quiet' = FALSE
  /\ UNCHANGED <<ec, zones, told, running, file, chosen>> /\ Unmoved

Tell ==
  /\ ~told /\ Spend("tell")
  /\ told' = TRUE
  /\ UNCHANGED quiet
  /\ UNCHANGED <<ec, zones, plugged, running, file, chosen>> /\ Unmoved

ProcessComesOrGoes ==
  /\ Spend("process")
  /\ \E p \in Process : running' = IF p \in running THEN running \ {p} ELSE running \cup {p}
  /\ quiet' = FALSE
  /\ UNCHANGED <<ec, zones, plugged, told, file, chosen>> /\ Unmoved

EditProfile ==
  /\ Spend("edit")
  /\ \E s \in Source, p \in OtherPerf :
       /\ disk' = [parses |-> TRUE,
                   config |-> [disk.config EXCEPT !.profile[s].perf_mode = p]]
       /\ chosen' = [chosen EXCEPT ![s] = @ \cup {p}]
  /\ edited' = TRUE
  /\ quiet' = FALSE
  /\ UNCHANGED world /\ Unmoved

EditRules ==
  /\ Spend("edit")
  /\ \E rules \in RuleSets :
       disk' = [parses |-> TRUE, config |-> [disk.config EXCEPT !.app_profiles = rules]]
  /\ edited' = TRUE
  /\ quiet' = FALSE
  /\ UNCHANGED <<world, chosen>> /\ Unmoved

\* A mistyped or half-saved edit.
EditBreaks ==
  /\ Spend("break")
  /\ disk' = [disk EXCEPT !.parses = FALSE] /\ edited' = TRUE
  /\ quiet' = FALSE
  /\ UNCHANGED <<world, chosen>> /\ Unmoved

\* POWER_SETTLE runs out; a pass is shorter than that.
SettleOver ==
  /\ pc = "tick" /\ settling
  /\ settling' = FALSE
  /\ wrote' = "none"
  /\ UNCHANGED <<world, file, memory, device_state, observed, source, power_known, sync, pc,
                 job, loop, left, quiet, chosen>>

\* The tray dies, perhaps in the middle of an apply.
Crash ==
  /\ pc # "start" /\ Spend("crash")
  /\ \/ UNCHANGED <<ec, zones>>
     \/ /\ pc = "apply" /\ ~needs_sync
        /\ \E p \in Partials :
             /\ ec' = Written(ec, device_state, p \cap Takes(device_state))
             /\ zones' \in ZonesAfter(p \cap Takes(device_state))
  /\ pc' = "start" /\ wrote' = "none" /\ quiet' = FALSE
  /\ UNCHANGED <<plugged, told, running, file, memory, device_state, observed, power, sync,
                 job, loop, chosen>>

-----------------------------------------------------------------------------
(* The specification *)

Init ==
  /\ ec \in InitEc /\ zones = "agree"
  /\ plugged \in Source /\ running = {}
  /\ \E scene \in Scenes :
       /\ told = scene.told /\ left = scene.budget
       /\ disk = [parses |-> scene.parses, config |-> scene.config]
       /\ config = InMemory(scene.config)
       /\ chosen = [s \in Source |-> {Placeholder[s].perf_mode,
                                      scene.config.profile[s].perf_mode}]
  /\ edited = FALSE /\ health = "Usable" /\ action = NoAction
  /\ source = IF told THEN plugged ELSE "ac"
  /\ power_known = told /\ settling = FALSE
  /\ device_state = config.profile[source] /\ observed = device_state
  /\ needs_sync = TRUE /\ sync_apply = TRUE /\ perf_retry = FreshRetry /\ failures = 0
  /\ pc = "start" /\ job = NoJob /\ io_ok = FALSE /\ scan_now = FALSE
  /\ wake_checks = [s \in WakeSource |-> 0]
  /\ wrote = "none" /\ quiet = FALSE

Loop ==
  \/ Start \/ ResyncDue \/ ResyncNotDue \/ SyncProbe \/ SyncApply
  \/ ApplyDeferred \/ ApplyDone \/ ApplyBusFails \/ ApplyRejected
  \/ ReconcileReads \/ ReconcileFails \/ ReconcileReasserts
  \/ MenuDone \/ Hover \/ NoClick \/ PowerPoll \/ ConfigReload \/ ConfigNotDue
  \/ Scan \/ ScanNotDue \/ Converge \/ WakeCheck \/ WakeDone
  \/ MirrorReads \/ MirrorReasserts \/ MirrorFindsDiverged \/ MirrorFails \/ MirrorNotDue

User == MenuPick \/ ToggleEnforce \/ ResetConfig \/ Click

World ==
  \/ External \/ ExternalDies \/ Plug \/ Tell \/ ProcessComesOrGoes
  \/ EditProfile \/ EditRules \/ EditBreaks \/ WakeArrives \/ SettleOver \/ Crash

Next == Loop \/ User \/ World

Spec == Init /\ [][Next]_vars

\* The loop runs on, and no timer of its passes stays unexpired forever: each is a deadline
\* compared with the clock at every pass, and a pass comes at least once a second.  The
\* Mirror's timer asks for input as well: somebody uses the laptop.
FairSpec ==
  /\ Spec
  /\ WF_vars(Loop)
  /\ SF_vars(ResyncDue) /\ SF_vars(ConfigReload) /\ SF_vars(Scan) /\ SF_vars(SettleOver)
  /\ SF_vars(MirrorReads \/ MirrorReasserts \/ MirrorFindsDiverged)

-----------------------------------------------------------------------------
(* Properties *)

WorldOK ==
  /\ ec \in DeviceState /\ zones \in {"agree", "diverged"}
  /\ plugged \in Source /\ told \in BOOLEAN /\ running \subseteq Process
FileOK == disk \in [parses : BOOLEAN, config : Config] /\ edited \in BOOLEAN
MemoryOK ==
  config \in Config /\ health \in ConfigHealth /\ action \in ActionSession \cup {NoAction}
IntentOK == device_state \in DeviceState /\ observed \in DeviceState
PowerOK == source \in Source /\ power_known \in BOOLEAN /\ settling \in BOOLEAN
SyncOK ==
  /\ needs_sync \in BOOLEAN /\ sync_apply \in BOOLEAN /\ failures \in 0..3
  /\ perf_retry \in PerfRetry
LoopOK ==
  /\ pc \in Phase /\ job \in Job
  /\ io_ok \in BOOLEAN /\ scan_now \in BOOLEAN /\ wake_checks \in [WakeSource -> 0..2]
HistoryOK ==
  /\ left \in [Event -> Nat] /\ wrote \in {"none", "pick", "config"} /\ quiet \in BOOLEAN
  /\ chosen \in [Source -> SUBSET PerfMode]

\* Every variable has its type: a session's rule and an unread edit's rules are ones a file
\* holds, a failed apply counts no further than PERF_RETRIES (ProgramState).
TypeOK == /\ WorldOK /\ FileOK /\ MemoryOK /\ IntentOK
          /\ PowerOK /\ SyncOK /\ LoopOK /\ HistoryOK

\* Settings from the config reach the device only while the config is applied: never while
\* the file does not parse or cannot be read, nor while this source's profile is still
\* waiting for its first reading (ProgramState::mode).
ConfigWritesOnlyWhenApplied == [][wrote' = "config" => ModeNow = "Apply"]_vars

\* Without Enforce, once a reading has been adopted, or another program has changed a laptop
\* at rest, the tray writes nothing until somebody asks it to: not the adopted profile, not
\* after failed reads, and not to put another program's change back (observe, sync, Mirror).
QuietTray == [][wrote' = "config" => ~quiet]_vars

\* A saved profile's mode is one the user picked, edited or had on the laptop for that
\* power source: an Action's mode never ends up in it (update, Pick, carry_changes).
ActionNeverSaved == \A s \in Source : config.profile[s].perf_mode \in chosen[s]

\* What memory holds is on disk, but for an edit still to be read: a crash at any point
\* loses no pick, adopted reading or Fn-key brightness (persist before the device).
MemoryIsSaved ==
  health = "Usable" /\ ~edited /\ pc # "start" => config = InMemory(disk.config)

\* When nobody touches anything any more, every resync ends and the intent is the target: no
\* failure, crash, plug or edit leaves the tray waiting or aiming at something old.  Only
\* zones left apart under a mode the EC ignores are repaired forever (DivergedProbe).
Settles ==
  <>[](\/ ~needs_sync /\ (ModeNow = "Apply" => device_state = target)
       \/ zones = "diverged" /\ device_state.perf_mode \in Ignores)

\* Nobody but the tray writes the device and no write is rejected: then the laptop ends in
\* the mode the tray aims at, if it is one the EC takes, with both zones in it, whatever
\* failed on the way.
EcFollows ==
  left["reject"] = 0 /\ left["extern"] = 0 =>
    <>[](ModeNow = "Apply" /\ device_state.perf_mode \notin Ignores =>
           zones = "agree" /\ ec.perf_mode = device_state.perf_mode)

\* A profile that waits for its first reading gets it (observe, POWER_SETTLE, Mirror), unless
\* the zones were left diverged: no read succeeds then, and only a pick may write.
GetsAdopted == (ModeNow = "Adopt") ~> (ModeNow # "Adopt" \/ zones = "diverged")

\* An EC that acknowledges a mode and ignores it does not keep the tray writing (PERF_RETRIES):
\* only diverged zones do.
GivesUp == <>[](wrote = "none" \/ zones = "diverged")

=============================================================================
