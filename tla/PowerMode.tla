------------------------------- MODULE PowerMode -------------------------------
(***************************************************************************)
(* The Windows power mode slider, which the tray moves along with the perf *)
(* mode when asked to.  Windows keeps one slider per power source; the     *)
(* tray notes where each one stood before it first moved it, saves the     *)
(* note before moving it, and puts it back once matching is turned off.    *)
(*                                                                         *)
(* The tray knows the power source by a poll, once a pass: until the next  *)
(* one it takes the slider in effect for the other source's.               *)
(*                                                                         *)
(* Saving is one step here and reaches the disk: ConfigFile has the rest.  *)
(***************************************************************************)
EXTENDS Naturals

CONSTANTS
  PerfModes,         \* the perf modes synchronised with
  SliderBudget,      \* how often each outside event happens
  ResetsWhileNoted   \* whether settings are reset while a note is kept

SliderEvent == {"move", "plug", "toggle", "apply", "crash", "reset", "refuse"}

ASSUME PowerAssumption ==
  /\ PerfModes \subseteq {"Battery", "Silent", "Balanced", "Performance", "Hyperboost", "Custom"}
  /\ SliderBudget \in [SliderEvent -> Nat]
  /\ ResetsWhileNoted \in BOOLEAN

POWER_MODES == {"Best power efficiency", "Balanced", "Best performance"}
NoMode == "none"

\* On AC, and on battery.
Plugged == BOOLEAN
Notes == [Plugged -> POWER_MODES \cup {NoMode}]

VARIABLES
  plugged, slider,       \* Windows: the power source, and the slider of each
  ac_power, match, power_mode_before, sync_step,   \* the tray
  saved_power,           \* match and power_mode_before, as saved
  slider_left,           \* what is left of SliderBudget
  stood, moved,          \* where sliders stood when noted, and those the tray has moved
  astray                 \* sources a sync got wrong, taking the other for the one in effect

tray_power == <<ac_power, match, power_mode_before, sync_step>>
seen_power == <<stood, moved, astray>>
power_vars == <<plugged, slider, tray_power, saved_power, slider_left, seen_power>>

PowerTypeOK ==
  /\ plugged \in Plugged /\ ac_power \in Plugged
  /\ slider \in [Plugged -> POWER_MODES]
  /\ match \in BOOLEAN
  /\ power_mode_before \in Notes
  /\ sync_step \in {"off", "idle", "sync", "set", "forget"}
  /\ saved_power \in [match : BOOLEAN, before : Notes]
  /\ slider_left \in [SliderEvent -> Nat]
  /\ stood \in Notes
  /\ moved \subseteq Plugged /\ astray \subseteq Plugged

NoNotes == [source \in Plugged |-> NoMode]

\* What the tray starts with: AC when Windows cannot say.
FirstPolled(source) == source \in {plugged, TRUE}

PowerInit ==
  /\ plugged \in Plugged /\ ac_power \in Plugged /\ FirstPolled(ac_power)
  /\ slider \in [Plugged -> POWER_MODES]
  /\ match = FALSE /\ power_mode_before = NoNotes
  /\ sync_step = "idle"
  /\ saved_power = [match |-> FALSE, before |-> NoNotes]
  /\ slider_left = SliderBudget
  /\ stood = NoNotes /\ moved = {} /\ astray = {}

Spend(what) ==
  /\ slider_left[what] > 0
  /\ slider_left' = [slider_left EXCEPT ![what] = @ - 1]

\* Mutant: the note waits for the next save.
PersistLater(on, notes) == saved_power' = [saved_power EXCEPT !.match = on]

Persist(on, notes) == saved_power' = [match |-> on, before |-> notes]

power_mode_for(perf) ==
  CASE perf \in {"Battery", "Silent"} -> "Best power efficiency"
    [] perf = "Balanced" -> "Balanced"
    [] OTHER -> "Best performance"

-----------------------------------------------------------------------------
(* What Windows and people do.                                              *)

\* Windows puts the slider of the new source in effect.
Plug ==
  /\ Spend("plug")
  /\ plugged' = ~plugged
  /\ UNCHANGED <<slider, tray_power, saved_power, seen_power>>

UserMoves ==
  /\ Spend("move")
  /\ \E mode \in POWER_MODES \ {slider[plugged]} : slider' = [slider EXCEPT ![plugged] = mode]
  /\ UNCHANGED <<plugged, tray_power, saved_power, seen_power>>

-----------------------------------------------------------------------------
(* The tray.  It acts on the power source it last noticed.                  *)

toggle_power_mode ==
  /\ sync_step = "idle" /\ Spend("toggle")
  /\ match' = ~match /\ Persist(~match, power_mode_before)
  /\ sync_step' = "sync"
  /\ UNCHANGED <<plugged, slider, ac_power, power_mode_before, seen_power>>

\* Every apply ends with the settings that live in Windows, and so does an adoption.
apply_os_settings ==
  /\ sync_step = "idle" /\ Spend("apply")
  /\ sync_step' = "sync"
  /\ UNCHANGED <<plugged, slider, ac_power, match, power_mode_before, saved_power, seen_power>>

\* Synchronised with the new source's slider, unless its profile is not applied.
NoticesSource ==
  /\ sync_step = "idle" /\ ac_power # plugged
  /\ ac_power' = plugged
  /\ sync_step' \in {"idle", "sync"}
  /\ UNCHANGED <<plugged, slider, match, power_mode_before, saved_power, slider_left, seen_power>>

Slot == power_mode_before[ac_power]
Stale == ac_power # plugged

\* Noted for the source polled last, read from the one in effect.
SyncNotes ==
  /\ sync_step = "sync" /\ match
  /\ sync_step' = "set"
  /\ IF Slot = NoMode
     THEN /\ power_mode_before' = [power_mode_before EXCEPT ![ac_power] = slider[plugged]]
          /\ Persist(match, power_mode_before')
          /\ stood' = IF ac_power \in moved THEN stood
                      ELSE [stood EXCEPT ![ac_power] = slider[ac_power]]
          /\ astray' = IF Stale THEN astray \cup {ac_power} ELSE astray
     ELSE UNCHANGED <<power_mode_before, saved_power, stood, astray>>
  /\ UNCHANGED <<plugged, slider, ac_power, match, slider_left, moved>>

\* set_power_overlay leaves alone what is in effect already.
Sets(mode) ==
  /\ slider' = [slider EXCEPT ![plugged] = mode]
  /\ moved' = IF slider[plugged] = mode THEN moved ELSE moved \cup {plugged}

\* Moved by a sync that looked for the note under the other source.
MovedUnnoted ==
  IF Stale /\ power_mode_before[plugged] = NoMode THEN moved' \ moved ELSE {}

SyncSets ==
  /\ sync_step = "set"
  /\ sync_step' = "idle"
  /\ \E perf \in PerfModes : Sets(power_mode_for(perf))
  /\ astray' = astray \cup MovedUnnoted
  /\ UNCHANGED <<plugged, ac_power, match, power_mode_before, saved_power, slider_left, stood>>

\* Logged; the next sync tries again.
SyncSetRefused ==
  /\ sync_step = "set" /\ Spend("refuse")
  /\ sync_step' = "idle"
  /\ UNCHANGED <<plugged, slider, ac_power, match, power_mode_before, saved_power, seen_power>>

SyncPutsBack ==
  /\ sync_step = "sync" /\ ~match /\ Slot # NoMode
  /\ sync_step' = "forget"
  /\ \/ /\ ~Stale
        /\ slider' = [slider EXCEPT ![plugged] = Slot]
        /\ moved' = moved \ {plugged} /\ astray' = astray
     \/ /\ Stale
        /\ Sets(Slot)
        /\ astray' = astray \cup {ac_power} \cup MovedUnnoted
  /\ UNCHANGED <<plugged, ac_power, match, power_mode_before, saved_power, slider_left, stood>>

SyncPutBackRefused ==
  /\ sync_step = "sync" /\ ~match /\ Slot # NoMode /\ Spend("refuse")
  /\ sync_step' = "idle"
  /\ UNCHANGED <<plugged, slider, ac_power, match, power_mode_before, saved_power, seen_power>>

SyncNothing ==
  /\ sync_step = "sync" /\ ~match /\ Slot = NoMode
  /\ sync_step' = "idle"
  /\ UNCHANGED <<plugged, slider, ac_power, match, power_mode_before, saved_power,
                 slider_left, seen_power>>

\* Only once it is back; the source then starts over.
Forgets ==
  /\ sync_step = "forget"
  /\ sync_step' = "idle"
  /\ power_mode_before' = [power_mode_before EXCEPT ![ac_power] = NoMode]
  /\ Persist(match, power_mode_before')
  /\ astray' = IF ac_power \in moved THEN astray ELSE astray \ {ac_power}
  /\ UNCHANGED <<plugged, slider, ac_power, match, slider_left, stood, moved>>

\* Offered while the file does not parse; the settings of a first run match nothing and hold
\* no note.
reset_config ==
  /\ sync_step = "idle" /\ Spend("reset")
  /\ ResetsWhileNoted \/ power_mode_before = NoNotes
  /\ match' = FALSE /\ power_mode_before' = NoNotes
  /\ Persist(FALSE, NoNotes)
  /\ UNCHANGED <<plugged, slider, ac_power, sync_step, seen_power>>

Crash ==
  /\ sync_step # "off" /\ Spend("crash")
  /\ sync_step' = "off"
  /\ UNCHANGED <<plugged, slider, ac_power, match, power_mode_before, saved_power, seen_power>>

\* Startup ends with a sync when the profile is applied.
Start ==
  /\ sync_step = "off"
  /\ ac_power' \in Plugged /\ FirstPolled(ac_power')
  /\ match' = saved_power.match /\ power_mode_before' = saved_power.before
  /\ sync_step' \in {"idle", "sync"}
  /\ UNCHANGED <<plugged, slider, saved_power, slider_left, seen_power>>

PowerNext ==
  \/ Plug \/ UserMoves
  \/ toggle_power_mode \/ apply_os_settings \/ NoticesSource
  \/ SyncNotes \/ SyncSets \/ SyncSetRefused
  \/ SyncPutsBack \/ SyncPutBackRefused \/ SyncNothing \/ Forgets
  \/ reset_config \/ Crash \/ Start

-----------------------------------------------------------------------------

\* Where the sliders are noted to have stood: on disk while the tray is not running.
Noted == IF sync_step = "off" THEN saved_power.before ELSE power_mode_before

\* Every slider the tray has moved, through crashes, refusals, plugging at any moment and a
\* source Windows does not name at the start, is still noted where it stood before, so turning
\* matching off puts it back (sync_windows_power_mode).  Excepted are sources a sync got wrong
\* between a plug and the poll that notices it: noted or put back at the other's place, or
\* moved while unnoted; each until it is put back, forgotten and starts over.
KnowsWhatToPutBack == \A source \in moved \ astray : Noted[source] = stood[source]
===============================================================================
