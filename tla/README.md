# Verification of razer-ctl

razer-ctl controls the embedded controller (EC) of Razer laptops. `librazer` speaks the EC's
HID protocol and holds the rules that can be tested without Windows; `razer-cli` runs one
command at a time; `razer-tray` stays resident: it keeps an intended state per power source,
writes it to the EC, follows what other programs change, and applies per-application rules.

This directory holds TLA+ modules translated from that code, TLC configurations that check
them on small instances, and TLAPS proofs of what matters most for every instance.
`PROJECT.json` lists the runs, the mutated definitions each property was tried against, the
source lines of every definition, the hazards, the findings and the theorems.

Contents: 1 inventory, 2 modules and how they match the code, 3 runs, 4 disagreements found,
5 bounds and fairness, 6 proofs, 7 what is not modelled, 8 plan.

## 1. Inventory

| Component (source) | State it keeps | Operations | Talks to | Module |
|---|---|---|---|---|
| Tray state and event loop (`razer-tray/src/program.rs`, `main.rs`) | intended `device_state`, config in memory, power source, running Action, resync and retry bookkeeping, timers | one loop pass: resync, menu, click and hover, power poll, config check, process scan, converge, wake checks, Mirror | EC, settings file, Windows, the user | Tray, Laptop |
| Observation rules (`librazer/src/observe.rs`) | none (pure) | `mode`, `on_reading`, `matching_intent`, `probe_may_write` | called by the tray | Profile, Tray |
| Device state, profiles, Actions (`librazer/src/state.rs`) | values: `DeviceState`, `ConfigState`, `ActionSession` | `normalized`, `carry_changes`, rule matching, `seed`, `power_changed`, perf cycle | called by the tray | Profile |
| Applying and reading a state (`state.rs`, `unsupported.rs`, `command.rs`) | the record of settings a laptop lacks, `Zone2DriftGuard` | `apply`, `read`, `enforce_to`, `drifted_from`, the commands they are made of | EC | Laptop |
| Settings file (`razer-tray/src/config.rs`) | the file, stamp of the last look, `corrupt`, `persist_blocked` | `load`, `salvage`, `check_disk`, `reset`, `store` | file system; the person who edits the file | ConfigFile, SettingsFile |
| Exchange with the EC (`librazer/src/device.rs`, `retry.rs`, `packet.rs`, `error.rs`, `transport.rs`) | attempt counter, last error | `send`, `send_once`, `classify_response`, `after_rejection` | EC; other processes, through the one answer the EC holds | Bus, PerfService |
| Detection (`device.rs`, `matching.rs`, `descriptor.rs`) | none | `detect`, fallback order, reopening | HID interfaces | Laptop |
| Probe (`librazer/src/probe.rs`, `razer-cli` `probe`) | snapshot, recovery file, cancel flag | `snapshot`, `run_writes`, `restore`, `verify`, `--restore` | EC commands, file system | Probe |
| Command line (`razer-cli/src/main.rs`, `laptop.rs`) | none between runs | one command per process, its exit code | EC commands | Laptop |
| Windows power mode (`program.rs`, `platform.rs`) | the slider's place before matching, per power source | override, put back, forget | Windows | PowerMode |
| Wake signals (`platform.rs`, `main.rs`) | four statics of the hidden window; checks scheduled | set by window messages, taken by the loop | Windows, the loop | Wake |
| Keyboard color (`program.rs`, `keyboard.rs`, `main.rs`) | the frame sent last, the last input seen | render, paint, repaint after a pause, keep-alive | EC, battery | Keyboard |
| GPU and fan readings (`platform.rs`, `program.rs`, `state.rs`) | a shared snapshot, failure counts; the fan filter's two samples | poll two sources, drop one, publish; filter | graphics kernel, nvidia-smi, EC | Telemetry |
| Simulator (`sim.rs`), conformance, capture | an EC in memory, its faults | apply a command, inject faults | tests | (the EC's reactions) |
| Tables, process guard | none | lookups | all | - |

How they interact. The tray is one thread: a loop pass calls everything in order, so within
it nothing interleaves but the hidden window's and the GPU monitor's threads. What
interleaves is the world: another program writes the EC between two phases, between the two
zone writes of one command, or between a request and its answer; the charger comes and goes;
a person edits, breaks, deletes or locks the settings file between two file-system calls; any
exchange is lost, late or refused; the process dies anywhere.

What is hard, and what makes each part correct:

* **Tray.** The intended state, the saved profile, the settings file, a running Action and the
  EC are five copies of one thing, updated in different phases. Correct means: settings are
  written only when the config stands (not for a new install, not for a file that does not
  parse); what was read and adopted is not written back; an Action's overlay never gets into
  a saved profile; a pick is on disk before it is on the device; resyncs end; the EC ends in
  the intended mode; an EC that ignores a mode is given up on.
* **Laptop.** An apply is a dozen commands on a machine that may lack some of the settings,
  may acknowledge and ignore a write, and is shared. Correct means: what is shown as applied
  is on the EC, in both zones; one refusal costs no other setting; only what is lacking is
  remembered as lacking, and never adopted; zones left apart by a killed program are mended;
  Enforce wins and then rests.
* **Exchange and commands.** A retry may act twice; an answer may be another process's; a
  read of two zones may be torn. Correct means: a single-shot command acts at most once; an
  answer taken is the answer to the request; a mode read was in both zones at one moment.
* **Settings file.** Correct means: never a truncated file, never a save over a hand edit,
  never a reset without a copy, and no block that outlasts its reason.
* **Probe.** It overwrites registers to find out what the EC does. Correct means: at every
  moment a whole recovery file holds what it takes to put everything back.
* **Windows.** What the tray overrides it must be able to put back, after a crash too; every
  wake is followed by both of its checks; what is shown, on the keyboard and in the tooltip,
  is not older than what is known.

## 2. Modules

```
Profile  <- Tray <- MCTray          settings, rules, the tray       (state.rs, observe.rs, program.rs, main.rs)
Laptop   <- MCLaptop                commands, what a laptop lacks   (state.rs, unsupported.rs, command.rs, CLI)
Bus      <- MCBus                   processes, EC, perf zones       (device.rs, retry.rs, packet.rs, command.rs)
  `- implements PerfService         what a caller of them sees
ConfigFile                          the file, one call at a time    (config.rs, with the tray's use of it)
  `- implements SettingsFile        one value at a path
Probe    <- MCProbe                 probe --writes and --restore    (probe.rs, razer-cli main.rs)
PowerMode, Wake, Keyboard, Telemetry <- Desktop <- MCDesktop        (program.rs, main.rs, platform.rs, keyboard.rs)
ProfileProofs, TrayTypeProofs <- TrayProofs, LaptopProofs, BusProofs, ConfigFileProofs, ProbeProofs,
DesktopProofs
```

**Profile** is the pure part of the tray: `normalized` (the nearest state the EC can hold),
`carry_changes` (what a pick changes in the saved profile), `drift`, `next_perf_mode`, Action
rules (`matching_app_profile`, `allowed_on`, `Seed`, `power_changed`), `mode` and
`matching_intent`. Brightness, color, logo and effect are members of small sets.

**Tray** is `ProgramState` and the loop. `pc` names the phase a pass is in:

    tick -> [sync -> apply -> reconcile] -> menu* -> click -> power -> config -> scan
         -> converge -> wake -> mirror -> tick

`apply` and `reconcile` are called from several phases; `job` says by whom. One phase is one
action, or one per outcome where the code branches on the device's answer (`ApplyDone`,
`ApplyBusFails`, `ApplyRejected`, `ApplyDeferred`, ...). What follows in the same handler,
such as the save after a pick or the reload in front of every save, is part of the action.
World actions may come between any two phases. An apply is one step here, with a
nondeterministic outcome and, when it fails, a nondeterministic set of writes already done.
A behaviour starts in one of `Scenes`: the config on disk, whether it parses, whether Windows
names the power source, and how many events of each kind may happen. Three history variables
carry properties: `wrote` (why the last step wrote the device), `quiet` (nothing since an
adoption asks the tray to write), `chosen` (modes the user or a reading gave each profile).

**Laptop** opens that apply up. `Prog` gives the commands of each operation as data, in the
order the code sends them, with the condition each is sent under (`opt`: the optional setting
it belongs to; `when`: the mode just read) and what becomes of its error (`part`, `keep`:
`continue_after_rejection`, `apply_perf_fan_logo`'s first error, the probing reads of `info`
and JSON). `Step` executes the next one against the EC's registers and may be refused, lost
before or after it acted, or acknowledged and ignored. Around it are the tray's
`apply_and_refresh`, `sync`, `reconcile`, `poll`, zone-2 guard and the record of what the
laptop lacks, and one razer-cli command with `set_fan_rpm_manual`'s undo and its exit code.
What the tray decides about profiles and Actions stays in Tray: here its mode is `apply`,
`follow` or `adopt`. Each scene is a machine, a state of its registers, an intent and what
happens to them.

**Bus** opens one command up: `Device::exchange` as one send and one read-back per step, up
to `MAX_ATTEMPTS`, for several processes on an EC that holds a single answer, with
`classify_response` and `after_rejection` between them, and on top `set_perf_mode`,
`get_perf_mode` with its second pass, `set_perf_mode_confirmed` and `send_once`. An answer
is the request it answers, a status and a mode. Every fault may happen at any time and any
number of times.

**PerfService** is the contract of those commands: a call is made, the EC may take it in each
zone by itself, and it returns once. `ok` from a read or a confirmation names a mode both
zones were in at one moment of the call, `not_applied` another than the one asked for, `ok`
from a raw command that it ran once; `ok` from a plain set promises nothing of the zones. Bus
implements it (`ServesCalls`): attempts, answers and passes are hidden by mapping `call` to
five fields of `job` and `seen` to the history `held`. `seen` may shrink, since `held` starts
anew at each pass.

**ConfigFile** opens up the settings file: `load`, `salvage`, `check_disk`, `reset` and
`store` with one file-system call per step. A version of the file is a number (also its
stamp), whether it parses, and `base`, the last hand edit whose settings it holds. `file` is
what a read returns, `disk` what a power loss leaves; data that was not synced may be torn
under a name that was.

**SettingsFile** is what the rest of the tray takes the file for: one value at a path, read
whole and replaced whole by what memory holds or by the defaults, edited or deleted by people,
and after a power loss a value that was at the path before. ConfigFile implements it
(`OneValue`): the temporary file, stamps, locks and copies are hidden, `path` and `lasting` are
what a reader finds in `file` and `disk`, and only the rename, an edit, a deletion and a power
loss change `path`.

**Probe** is `probe --writes`: snapshot, recovery file (`create_new`, `write_all`), the write
set as data (`Plan`), the restore register by register, verification, removal of the file,
and `--restore` after a death. Each write has an adversarial outcome: any of its zones took
it, and the answer came back or not.

**PowerMode** is `sync_windows_power_mode`: one slider per power source, moved by people,
Windows and the tray; the note of where each stood is saved (`Noted`) before `SyncSets` moves
it and forgotten after `SyncPutsBack`. `ac_power` is the source polled last, `plugged` the one
in effect; between a plug and the poll (`NoticesSource`) every sync acts on the first and reads
or moves the slider of the second. `stood`, `moved` and `astray` are histories: where a
slider stood when it was noted, which ones the tray has moved, and which sources such a stale
sync noted from, or put back to, the other's place or moved unnoted.

**Wake** is the hidden window's procedure and the loop
that takes its signal: `DISPLAY_ON`, `DISPLAY_OFF_AT` and `WAKE` are the statics, and times are
ages. **Keyboard** is a pass of the loop as far as the custom color goes: `wanted`, `painted`
and `shows` are the frame to show, the one sent last and the one on the keys; seconds count
to the EC's fade. **Telemetry** is the GPU monitor's thread (`gpu_step`) and `FanRpmFilter`.
**Desktop** runs the four in one specification. They share no variable, so `part` picks whose
steps a behaviour takes.

Every module is translated from the code; the EC's own reaction is taken from `sim.rs`, which
is how the repository describes it. Definitions keep the source's names.

## 3. Runs

| Run | Question | Answer | Distinct states |
|---|---|---|---|
| `use` | a new install on a laptop somebody set up, with failing reads, a charger, a broken file, a reset, another program, Enforce toggled; and two rules, a pick, the charger, edited rules, a late power source, a failing bus | `MemoryIsSaved`, `ActionNeverSaved`, `ConfigWritesOnlyWhenApplied`, `QuietTray` hold | 6.0 M |
| `live` | a new install, un- and replugged, failing bus, a program that dies between two zone writes; and profiles in use with an EC that acknowledges a mode and ignores it, crashes, wakes, rejections | `TypeOK` holds; `Settles`, `EcFollows`, `GetsAdopted`, `GivesUp` hold under fairness | 162 k |
| `cycle` | a left-click after an Action ended while a resync is pending | `ActionNeverSaved` violated | (finding) |
| `adopts_action` | a new install with a rule, unplugged while its program runs | `ActionNeverSaved` violated | (finding) |
| `laptop` | twelve laptops and moments: failing, late, ignored and refused commands, killed programs, missing settings, a busy interface, an odd zone 2 | `TypeOK`, `OnlyLackingLearnt`, `OkMeansApplied`, `RejectionIsolated`, `ExitMeansApplied`, `AdoptsWhatIsSet`, `KeepsItsOwn`, `BindsTheLaptop` hold; `ZonesMend`, `EnforceWins`, `EnforceRests` hold under fairness | 120 k |
| `placeholder` | a new install on an unlisted laptop without a logo | `PlaceholdersStayOut` violated | (finding) |
| `bus` | the tray reads and confirms, another program writes and sends raw commands | `TypeOK`, `ReadWasTrue`, `OnceActsOnce`, `GenuineSuccess`, `ServesCalls` hold | 1.3 M |
| `config` | loads, polls, saves, resets against edits, deletion, a lock, a crash or power loss | `TypeOK`, `OneValue` (SettingsFile is implemented), `SavesKeepEdits`, `ResetsWhatWasCopied`, `FinallyAdopted` hold | 1.8 M |
| `config_deleted` | a broken file is deleted while the tray runs | `NextSaveRecreates` violated | (finding) |
| `probe` | a run and its restore with any failing write or read, a cancel, a death anywhere | `TypeOK`, `Restorable`, `ObedientRestored`, `SweepsWhereItCounts` hold | 79 k |
| `desktop` | the slider over crashes and plugging at any moment; wakes among passes; the keyboard over standby and fades; readings that fail | `TypeOK`, `KnowsWhatToPutBack`, `KnowsWhatShows`, `GpuShown`, `FansShown` hold, `WakesChecked` under fairness | 1.9 M |
| `slider` | settings are reset while the slider is matched | `KnowsWhatToPutBack` violated | (finding) |

What the properties say is in the comment above each. Those with a history:

* `QuietTray` concerns a tray without Enforce that has adopted a reading, or that is at rest
  when another program changes the EC: it must not write until a pick, a plug, an edit, a
  rule or a wake asks it to. Failed reads and the probes they cause are the hard part.
* `ReadWasTrue` compares the mode a read returns with the modes both zones were in at one
  moment between the two answers, so a torn read is not excused by luck. `ServesCalls` says
  more: every answer of every call, and that nothing happens outside the calls.
* `OkMeansApplied` is what the green tray icon rests on: with nobody else writing, an apply
  the tray takes for done has reached every register of every setting the laptop has,
  commands acknowledged and ignored included. It holds because `confirm_modes` reads back
  what can be ignored. `ExitMeansApplied` is the same of the command line's exit code 0.
* `EnforceWins` and `EnforceRests` belong together: re-asserting whatever differs must win
  against another program and yet end where zone 2 never reads back as written.
* `SavesKeepEdits` leaves out two windows the code has: an edit made after the save began,
  and one made between an earlier save's rename and its `stamp_of`, which is taken for the
  tray's own version. `program.rs:618` says hand edits are never written over; for an edit
  that stood when the save looked, that is what is checked and proved.
* `Restorable` asks more than that a recovery file exists: a restore of it must give every
  register its old value, those the snapshot could not read included. It is also why the
  file may only be removed when all is back.
* `ObedientRestored` says the order of the restore's writes is enough: in an EC that does
  what it is told, from any state a dead run or a failed restore left behind, `verify` finds
  nothing.
* `KnowsWhatShows` has three excuses: the keyboard has been still for longer than the pause
  that makes the next input a repaint, that input is about to be seen, or it found a resync
  pending, when the loop leaves it alone (`dropped`; a resync that only probes paints
  nothing, so the color stays wrong until the next pause or pick).

Each property of a passing run was also checked against a mutated definition, one plausible
slip of the code it is about, and fails there (`PROJECT.json`, "mutants").

## 4. Disagreements found

* **cycle** (`program.rs:1010`). After an Action ended and before the device has converged, a
  left-click cycles from the mode still shown, the Action's, with no session running, and the
  result is saved. `program.rs:30` says a result derived from the Action's mode must not be.
* **adopts_action** (`program.rs:411`). A profile that still waits for its first reading can get
  it while an Action runs: install, start a game that has a rule, unplug. The laptop is in the
  Action's mode, so that is what the battery profile adopts and keeps when the game ends.
  `README.md:42` says Actions never change the saved profile; `program.rs:426` takes the reading
  to be what the laptop has without the Action.
* **config_deleted** (`config.rs:205`). Deleting a broken file clears the stamp but not
  `corrupt`: the next save is refused, where the comment says it "recreates it".
* **placeholder** (`program.rs:495`). `sync`'s probe hands its reading to `observe` without
  calling `track_unsupported`, which `program.rs:331` asks for after each read. On the first
  run of an unlisted laptop that reading is the one that is adopted, and a setting it has
  just shown to be lacking is saved with the placeholder's value.
* **slider** (`program.rs:447`). `reset_config` replaces the settings, `match` and the note of
  the slider's place with them, while the slider is where matching moved it: nothing puts it
  back, where `state.rs:981` says the note is what it is put back by.

Other limits met, which are premises or exceptions of the properties above:

* Two processes that read the perf mode (`packet.rs:232`): answers are matched by command, not
  by arguments, and `get_perf_mode` does not look at the zone in the answer, so zone 2's may
  pass for zone 1's. `bus` and the proofs have one reader.
* Windows names the power source only after the start (`main.rs:510`): `PowerPoll` asks for a
  resync while `io_ok`, computed earlier in the pass, still lets Mirror adopt the profile; the
  resync then applies what was just adopted. `QuietTray` is checked, and proved, with a source
  named at the start when a profile waits for a reading (`NamedForFirstRuns`).
* A second broken edit (`config.rs:245`): `reset` relies on the copy made at load, so a file
  edited from one broken state into another is replaced without a copy of the second.
  `ResetsWhatWasCopied` is about the file that was loaded.
* The zone 2 guard (`state.rs:1306`) counts a detection whether or not the caller may write,
  so a tray without Enforce may give up on zone 2 without one repair. `EnforceWins` allows it.
* `put_fan_back` (razer-cli `main.rs:851`) begins with a read of the perf mode, which fails
  when the switch it is to undo left the zones apart; the exit code tells.
* A stale power source (`main.rs:474`): `ac_power` changes only in the loop's poll, after the
  resync, menu and click phases, and is AC at the start when Windows does not name the source.
  A toggle, apply or adoption in that window, or one a plug falls into, passes the old source to
  `sync_windows_power_mode` (`program.rs:936`), which then notes the new source's slider under
  the old one and moves the new source's slider with no note, or puts it back to the old one's
  place and forgets that. The poll's own sync afterwards notes the moved place as the
  original, and turning matching off puts back the wrong one, against `state.rs:981`.
  `KnowsWhatToPutBack` excepts the sources so hit (`astray`), each until it has been put back
  and forgotten; without the exception TLC finds it violated after four steps. A slider noted
  before keeps its note through such a sync, and is not excepted. What people move once it is
  noted goes back to the note's place.
* A pick during an Action (`state.rs:1253`) "holds until the process exits" (`state.rs:1246`), but
  one that is also the mode the session has on the other power source is lost on the way back:
  `power_changed` tells picks by comparing with the old source's seed. `OnlyCoincidingPickLost`
  proves that no other picked mode is lost so, `OnlyCoincidingFanLost` the same of fan speeds.
  Max Fan is lost in more cases (`MaxFanPickKept`): it goes with the mode wherever the session
  starts in Custom on one of the sources only.
* Zones left apart by a program that died, under a mode the EC ignores (`program.rs:486`): the
  resync reads them as diverged, writes, and starts over, with no end. `Settles` excepts it.
* Enforce with a mode the EC ignores re-asserts it at every Mirror reading, with nothing to
  count the misses (`main.rs:764`); this is what Enforce asks for, so `GivesUp` is about a tray
  without it.

## 5. Bounds and fairness

*Tray.* The scene's `budget` caps each kind of event; every run names its own in `MCTray`.
The loop itself is not bounded. Two occurrences of an event matter only where one undoes the
other (a process that comes and goes); plug starts on either source. `PerfRetries = 1` keeps
a first and a last miss apart. `sync_failures` is capped at 3, above which only a delay
grows. `EcFollows` speaks of behaviours without other writers or rejections and of modes the EC
takes: otherwise it is not true and not promised. `GetsAdopted` and `GivesUp` except zones left
diverged: only a pick may then write, resp. the repair is repeated. `ActionNeverSaved` is
checked in `use` with an Action on saved profiles; `cycle` and `adopts_action` are the ways found
past it. Its history `chosen` counts a reading unless its mode is the running Action's.

*Laptop.* Each scene of `MCLaptop` has one or two faults, commands, picks or wakes, enough to
set each recovery going and for a second fault to fall into it; `MaxRepairs` and `ReopenAfter`
are the code's. Four lost answers in one scene make the handle be reopened. Fewer faults than
`PERF_RETRIES`: giving up on a mode is Tray's. Values are names, two or three of each.

*Bus.* `MaxAttempts = 2` distinguishes first and last attempt; the code's is larger, and the
proofs hold for any. Modes: one taken, one ignored, one more. An EC that ignores a mode
ignores it always; the simulator's windows of time are not modelled. One process sends raw
commands (two could not tell their `Busy` answers apart), and one other process writes: with
two, a second pass can fall between their writes.

*ConfigFile.* Two edits, two picks, one crash, one lock, two loads (the code retries 11
times). Two edits give broken-then-broken, broken-then-fixed and edit-during-save. Stamps are
taken to be distinct. The proofs hold for any bounds.

*Probe.* One laptop, one `--out` path, one process at a time, any number of runs one after
the other. Two sweep points and three set-point values (one not in the sweep). Four initial
states: set points left over in Auto, Manual with zones that differ, Custom with Max Fan,
Custom with a manual fan. Perf modes are those `PerfMode` names: wire values another tool may
leave that read as one of them (1, 3) are put back as the canonical value.

*Desktop.* Each outside event once or twice (`MC...Budget`); two toggles and two plugs bring a
slider back under the tray's hand on either source, and let a plug fall between any two steps
of a sync. Sliders begin at two of their three places, one that matching uses and one not.
`EcFade = 4` and a pause of 3 keep the
order of the code's constants; standby is taken to last longer than the fade. Three failures
give a source up, in place of 12. One reading in which both fans are wrong (`Flukes`): the
filter promises nothing of two in a row. The proofs hold for any of these but `Flukes`.

*Fairness.* Tray: `WF(Loop)`, and strong fairness on `ResyncDue`, `ConfigReload`, `Scan`,
`SettleOver` and a Mirror reading: their timers are deadlines compared with the clock at
every pass, and a pass comes at least once a second (`main.rs`, the wait's timeout). Mirror
needs new input as well, so `GetsAdopted` and `EcFollows` assume that somebody uses the
laptop. Laptop: `WF(TrayStep)` for the same reason, and `WF(CliStep)`: a command that is not
killed gets to its end, every exchange having a timeout. Wake: weak fairness on each step of
a pass, and strong fairness on `RunCheck`, whose deadline passes and which a resync, budgeted,
can only hold up. Events are never fair. ConfigFile: `WF(Works \/ Poll)` and `WF(Unlocks)`,
locks by editors and antivirus being short; starting the tray is not fair, and
`FinallyAdopted` speaks of a tray that runs. Bus and Probe state safety only.

Deadlock is checked in every run but `desktop` and `slider`, where a behaviour of the power
mode alone stops when its events are used up.

## 6. Proofs

TLAPS proves these for every value of the constants, under the assumptions named in the
modules that declare them (`...Assumption`); TLC evaluates those in every run.

* **ProfileProofs**: `NormalizedIdempotent` (what the tray calls holdable is stable, so
  re-reading a file it saved gives back memory),
  `UnchangedCarriesNothing` (a pick that changes nothing saves nothing, whatever overlay the
  menu showed), `UntouchedSessionReseeds` (a session nobody picked in follows the charger
  exactly), `OnlyCoincidingPickLost`, `OnlyCoincidingFanLost` and `MaxFanPickKept` (which
  modes, fan speeds and Max Fan picked in a session do not outlast a charger event and its
  reverse; the last two for what a session holds, which is normalized: `update`
  normalizes a pick before the session takes it).
* **TrayTypeProofs** `TypeCorrect`, one lemma per action.
* **TrayProofs** `MemoryAlwaysSaved`, from the inductive `SavedInv`: types, a holdable
  config, and, once started, a file that holds what memory does unless an edit is unread or
  the file is broken. It rests on the lemma `SnapshotRestores`, that writing a profile and
  loading it loses nothing a holdable one has. `ConfigWritesOnlyWhenAppliedHolds`, from
  `ApplyAllowed`: an apply on its way was asked for by the user, or decided on in a mode that no
  step changes before it is done. Two more follow the tray through a whole pass:
  - `QuietTrayHolds`, from `QuietInv`. A quiet tray is *calm*: nothing is unread, enforced or
    running, and it is at rest on the applied profile of the source the laptop really is on
    (`CalmMind`, `CalmWorld`), with no full apply, resume check or write on its way (`CalmWork`).
    That an adoption leaves it so needs more: who called the apply and the reconcile in hand, and
    that a resync asked for in a pass which still reads the device waits for the charger to settle,
    before which nothing is adopted (`PassInv`); and that Windows names the source whenever a
    profile can wait for a reading (`FirstRunInv`, from the premise `NamedForFirstRuns`: without it
    the property is false, section 4).
  - `ActionNeverSavedHolds`, from `ChosenInv`: every mode in memory, in the file and in the
    defaults was chosen for its source (`Fits`), in every config the tray can load, carry changes
    into, adopt or save. The premise `NoActionAdopted` leaves out the ways past it that `cycle` and
    `adopts_action` find: there is no click, and either every profile is set, so that no reading is
    adopted, or no rule is ever loaded, so that no session begins. The two kinds of scenes of `use`
    meet it, one each way.
* **BusProofs**: `OnceActsOnceHolds` (one process sending raw commands), `GenuineSuccessHolds`
  (one reader), `ReadWasTrueHolds` (one reader and one other writer). The invariants say which
  answers may sit in the pipe (`Base`), that a raw command's effects are counted by its process
  (`RawInv`), that the answer a reader takes for a zone's is that zone's (`Own`), and that a mode
  zone 1 was read to be in is one both zones were in, or that zone 2 has yet to reach (`ReadInv`).
  The theorems' premises are the limits of section 4.
  `ServesCallsHolds` is that Bus implements PerfService, under the premises of the three together:
  each step of Bus is a step of the service or changes no `call` and adds to
  `seen` no more than what both zones are in. What the service demands of
  an answer that ends a call follows from those invariants.
* **LaptopProofs**, for any set of scenes (laptops, intents, commands, faults, attached devices):
  - `TypeCorrect`, from `TypeInv`: the types, and that a program which runs is at a command of its
    operation (`PlacedAt`). Every operation of `Prog` is shown to be a sequence of commands once,
    and a `Step` is taken apart once (`Does`, `Goes`, `Stepped`).
  - `OnlyLackingLearntHolds` and `KeepsItsOwnHolds` are about one step each, given the types.
  - `BindsTheLaptopHolds` has a premise, `LaptopComesFirst`: an unlisted laptop is attached and
    `fallback_pid_order` puts it before every other attached device. It is what the order is for;
    a Razer device that is not a laptop but has the highest PID would be taken for one.
  - `ExitMeansAppliedHolds`, from `ExitInv`: what a confirmed switch left in both zones stays while
    `fan rpm` writes the set points, and an operation ends without an error only past its confirm.
    `CliLeftAlone` says what the others can change of a command's run.
  - `RejectionIsolatedHolds` and `OkMeansAppliedHolds`, from `ApplyInv` and `ConfirmInv`. An apply has
    up to nineteen commands, so the invariant does not list its prefixes. `Rank` gives a command its
    place, and `ApplyShape` says of every intent that its apply is ordered by rank, that each
    command fits the intent (its value, its setting, its part), and which ones are there.
    `ApplyInv` then says of every command already passed what it has left behind: a write is in its
    register, or its setting is lacking, or (for the first theorem) it was refused with a command of
    its part. `LeavesWritten` is why that lasts: a later command has a higher rank and so another
    register; the effect, which resets the brightness, comes before it; and a fan mode written
    after Max Fan keeps Custom, since the mode held was read after the Custom one was confirmed
    (`StaysCustom`). `ConfirmInv` carries the writes over the final confirm, which adds both zones.
  - `AdoptsWhatIsSetHolds`, if the scenes that adopt and can show a false "off" of the charge limit
    hold one fault at most (`OneFalseOff`; two in a row would be adopted, which is what a second
    reading buys and no more). `ReadShape` gives a reading's eleven commands. `AdoptInv` says that a
    tray which adopts only reads, from the laptop once its mode was read, and that what it takes for
    lacking is known or really lacking. `ReadInv` says of every command already passed that its
    setting is left out, without meaning in this mode, or read as the register shows it, and that a
    charge limit read wrongly as off is still to be read again, with no fault left.
* **ConfigFileProofs**: `TypeCorrect`, `SavesKeepEditsHolds`,
  `ResetsWhatWasCopiedHolds`, `OneValueHolds`, all from one inductive invariant: a new version's
  number is new (`Numbered`), only whole, synced files get the name (`Whole`), what is written is
  what was to be saved (`Saving`), a file whose stamp the tray holds is in memory or known not to
  be (`Known`), a save past its check has seen what was there when it began (`Checked`), and a
  broken file whose stamp is held was copied or is known not to be (`Copied`).
  `OneValueHolds` is that ConfigFile implements SettingsFile: each group of actions maps to a
  step of it or to a stutter (`LoadReads`, `CheckReads`, `StoreSaves`, `WorldMoves`), which
  needs of the invariant that what gets the name is whole and is what was to be saved, and
  that no version holds an edit not yet made (`Based`), so that an edit is news.
* **ProbeProofs**: `TypeCorrect`, `RestorableHolds`, `SweepsWhereItCountsHolds`,
  `ObedientRestoredHolds`, for any sweep and any settings found. `Held` says what file and
  snapshot are at each point, so that no write of a test or a restore can move the EC to where
  the file does not lead back: every write leaves alone the boosts the snapshot does not know,
  and Max Fan, which it does not know outside Custom, is off there. `Swept` says that what the
  Manual test read back stands to the end of the sweep; `Back` lists, for each step of a
  restore that met no fault, what is already back, and that the next write does not undo it.
* **DesktopProofs**: `TypeCorrect`. Each part has an invariant of its own, and `Parted` says the others' steps
  leave it alone. `KnowsWhatToPutBackHolds`, if no reset takes a note (the `slider` finding),
  with people and the charger free to act between any two steps, from `NotesInv`: while the
  tray runs the notes are on disk, no slider is set before the source polled last is noted and,
  but for sources `astray`, none is forgotten while moved, what is noted is true, and what was
  moved is noted. `SliderMoves` says that a stale sync's move is of a noted slider or leaves
  its source astray.
  `KnowsWhatShowsHolds`, where the property with the order of the times is inductive.
  `GpuShownHolds`, from `GpuCounts`: no source has been silent for longer than it has failed, or
  is given up. `FansShownHolds`, from `FansInv`: the filter's memory is its last two samples,
  of which a fluke uses up the only one there is.

Every invariant and action property the runs check is so proved, under the premises named above.
Only model-checked is everything about liveness (`Settles`, `EcFollows`, `GetsAdopted`, `GivesUp`,
`FinallyAdopted`, `ZonesMend`, `EnforceWins`, `EnforceRests`, `WakesChecked`), because fairness and
ENABLED are outside the prover's reach.

## 7. What is not modelled

* Tray: failures of the store inside the tray's own steps (ConfigFile has them), refresh rate,
  EC temperatures, the tooltip's text and fitting, autostart, the Synapse warning, hotkey
  parsing, ending of GPU processes. The menu is modelled by what a click does, not by its items.
* Laptop: the custom color frame, `cmd`, `manual` and `watch` of the command line, "keep
  keyboard lit" as a setting, the tray's give-up of a mode (Tray has it), a reading of a mouse
  bound while the laptop's interface is held by somebody else.
* Bus: an EC that ignores writes for a time, two processes sending raw commands, back-off
  times, liveness of retries.
* ConfigFile: a rename whose directory entry is lost with the power, two versions with one
  stamp, several trays.
* Probe: a tray or another probe started after `tray_closed` looked, several `--out` paths, the
  read-only capture and its conformance report, aliases of perf modes on the wire.
* PowerMode: a save that fails (the note is then in memory only, and a crash loses it), a
  power mode Windows has no name for (nothing is noted, and the slider is moved all the
  same), a hand edit that takes the note out. Keyboard: colors, presets and dimming beyond
  the frame's rows and its battery bar.
* The device tables, conformance and capture reports, the simulator's dynamics and the
  single-instance guard: data, reports or straight-line code, listed in `PROJECT.json`.

## 8. Plan

In this order:

1. *Session*: runs of a running Action with rules that force more than the mode, which the
   theorems of ProfileProofs cover for one charger event and its reverse, and not in Tray.
2. An abstract apply, Tray's, that Laptop implements.
