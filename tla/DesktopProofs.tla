----------------------------- MODULE DesktopProofs -----------------------------
(***************************************************************************)
(* What holds of Desktop for any bounds, levels, fades and failure counts. *)
(* Each part has an invariant of its own, which the other parts' steps     *)
(* leave alone.                                                            *)
(***************************************************************************)
EXTENDS Desktop, TLAPS

\* Every step is one of a part's, or leaves it alone.
LEMMA Parted ==
  ASSUME [Next]_desktop_vars
  PROVE  /\ PowerNext \/ UNCHANGED power_vars
         /\ WakeNext \/ UNCHANGED wake_vars
         /\ KeyboardNext \/ UNCHANGED keyboard_vars
         /\ TelemetryNext \/ UNCHANGED telemetry_vars
         /\ part' = part
  BY DEF Next, desktop_vars

-----------------------------------------------------------------------------
(* The fans *)

\* The filter's memory is what the samples said, and of two that said the fans had stopped
\* one was true: the one wrong sample there may be uses up Flukes.
FansInv ==
  /\ stopped \in BOOLEAN /\ published \in FanReadings
  /\ stop_pending \in BOOLEAN /\ fan_paused \in BOOLEAN
  /\ sampled \in [before : FanReadings, last : FanReadings]
  /\ truth \in [before : BOOLEAN, last : BOOLEAN]
  /\ flukes \in 0 .. Flukes
  /\ stop_pending = (sampled.last = "stopped")
  /\ sampled.last = "running" => published = "running"
  /\ published = "stopped" <=> sampled.before = "stopped" /\ sampled.last = "stopped"
  /\ sampled.before = "stopped" /\ sampled.last = "stopped" => truth.before \/ truth.last
  /\ flukes > 0 => /\ sampled.before = "stopped" => truth.before
                   /\ sampled.last = "stopped" => truth.last

LEMMA FansInit == TelemetryInit => FansInv
<1> SUFFICES ASSUME TelemetryInit PROVE FansInv
  OBVIOUS
<1>1. /\ sampled.before = "none" /\ sampled.last = "none"
      /\ truth.before = FALSE /\ truth.last = FALSE
  BY DEF TelemetryInit
<1>2. /\ sampled \in [before : FanReadings, last : FanReadings]
      /\ truth \in [before : BOOLEAN, last : BOOLEAN]
  BY DEF TelemetryInit, FanReadings
<1>3. flukes \in 0 .. Flukes
  BY TelemetryAssumption DEF TelemetryInit
<1> QED
  BY <1>1, <1>2, <1>3 DEF TelemetryInit, FansInv, FanReadings

LEMMA Accepted ==
  ASSUME FansInv, NEW sample \in {"running", "stopped"}, accept(sample),
         flukes' \in 0 .. Flukes, stopped' = stopped, fan_paused' \in BOOLEAN,
         \/ flukes' = flukes /\ (sample = "stopped" => stopped)
         \/ flukes = 1 /\ flukes' = 0
  PROVE  FansInv'
<1> USE DEF FanReadings
<1>1. /\ sampled' = [before |-> sampled.last, last |-> sample]
      /\ truth' = [before |-> truth.last, last |-> stopped]
  BY DEF accept, Take
<1>2. /\ sampled'.before = sampled.last /\ sampled'.last = sample
      /\ truth'.before = truth.last /\ truth'.last = stopped
  BY <1>1
<1>3. /\ sampled' \in [before : FanReadings, last : FanReadings]
      /\ truth' \in [before : BOOLEAN, last : BOOLEAN]
  BY <1>1 DEF FansInv
<1>4. /\ published' \in FanReadings /\ stop_pending' \in BOOLEAN
      /\ stop_pending' = (sample = "stopped")
  BY DEF FansInv, accept
<1>5. /\ sample = "running" => published' = "running"
      /\ published' = "stopped" <=> sampled.last = "stopped" /\ sample = "stopped"
  BY DEF FansInv, accept
<1>6. CASE flukes' = flukes /\ (sample = "stopped" => stopped)
  BY <1>2, <1>3, <1>4, <1>5, <1>6 DEF FansInv
<1>7. CASE flukes = 1 /\ flukes' = 0
  BY <1>2, <1>3, <1>4, <1>5, <1>7 DEF FansInv
<1> QED
  BY <1>6, <1>7

LEMMA FansNext ==
  ASSUME FansInv, TelemetryNext \/ UNCHANGED telemetry_vars
  PROVE  FansInv'
<1>1. CASE UNCHANGED fans
  BY <1>1 DEF FansInv, fans
<1>2. CASE SpinUpOrDown
  BY <1>2 DEF FansInv, SpinUpOrDown
<1>3. CASE FansRead
  <2>1. Really \in {"running", "stopped"} /\ (Really = "stopped" => stopped)
    BY DEF FansInv, Really
  <2> QED
    BY <1>3, <2>1, Accepted DEF FansRead, FansInv
<1>4. CASE FansMisread
  <2>1. flukes = 1 /\ flukes' = 0
    BY <1>4, TelemetryAssumption DEF FansMisread, FansInv
  <2>2. PICK sample \in {"running", "stopped"} :
          sample = IF stopped THEN "running" ELSE "stopped"
    OBVIOUS
  <2>3. /\ flukes' \in 0 .. Flukes
        /\ stopped' = stopped
        /\ fan_paused' \in BOOLEAN
    <3>1. flukes' \in 0 .. Flukes
      BY <2>1, TelemetryAssumption
    <3>2. stopped' = stopped
      BY <1>4, Zenon DEF FansMisread
    <3>3. fan_paused' = FALSE
      BY <1>4, Zenon DEF FansMisread
    <3> QED
      BY <3>1, <3>2, <3>3
  <2>4. accept(sample)
    <3>1. accept(IF stopped THEN "running" ELSE "stopped")
      BY <1>4 DEF FansMisread
    <3> QED
      BY <2>2, <3>1
  <2> QED
    BY <2>1, <2>2, <2>3, <2>4, Accepted
<1>5. CASE FansLoneZero
  BY <1>5 DEF FansInv, FansLoneZero, LoneZeroTells
<1>6. CASE FansFail
  BY <1>6 DEF FansInv, FansFail
<1>7. CASE UNCHANGED telemetry_vars
  BY <1>1, <1>7 DEF telemetry_vars
<1>8. ASSUME NEW answers \in BOOLEAN, LooksAwake(answers)
      PROVE  UNCHANGED fans
  BY <1>8 DEF LooksAwake
<1>9. ASSUME NEW watts \in BOOLEAN, SampleOk(watts)
      PROVE  UNCHANGED fans
  BY <1>9 DEF SampleOk
<1>10. CASE LooksAsleep \/ SampleFails \/ NoSample \/ GoesOn \/ Ends
  BY <1>1, <1>10 DEF LooksAsleep, SampleFails, NoSample, GoesOn, Ends
<1> QED
  BY <1>1, <1>2, <1>3, <1>4, <1>5, <1>6, <1>7, <1>8, <1>9, <1>10 DEF TelemetryNext

\* What is shown of the fans follows the last reading that can be true; that they are
\* stopped takes two in a row, of which one was true, and no more (FanRpmFilter).
THEOREM FansShownHolds == Spec => []FansShown
<1>1. Init => FansInv
  BY FansInit DEF Init
<1>2. FansInv /\ [Next]_desktop_vars => FansInv'
  BY Parted, FansNext
<1>3. FansInv => FansShown
  <2> SUFFICES ASSUME FansInv PROVE FansShown
    OBVIOUS
  <2>1. sampled = [before |-> "stopped", last |-> "stopped"]
          => sampled.before = "stopped" /\ sampled.last = "stopped"
    OBVIOUS
  <2> QED
    BY <2>1 DEF FansInv, FansShown
<1> QED
  BY <1>1, <1>2, <1>3, PTL DEF Spec

-----------------------------------------------------------------------------
(* The keyboard *)

\* The backlight rests no longer than there is no input, and what is shown is known of.
KeyboardInv ==
  /\ still \in 0 .. EcFade /\ rest \in 0 .. still /\ unseen \in 0 .. EcFade
  /\ dropped \in BOOLEAN
  /\ KnowsWhatShows

LEMMA KeyboardStarts == KeyboardInit => KeyboardInv
<1> SUFFICES ASSUME KeyboardInit PROVE KeyboardInv
  OBVIOUS
<1>1. still = 0 /\ rest = 0 /\ unseen = 0 /\ shows = painted /\ dropped = FALSE
  BY Zenon DEF KeyboardInit
<1>2. KnowsWhatShows
  BY <1>1 DEF KnowsWhatShows
<1>3. still \in 0 .. EcFade /\ rest \in 0 .. still /\ unseen \in 0 .. EcFade
  BY <1>1, KeyboardAssumption
<1> QED
  BY <1>1, <1>2, <1>3 DEF KeyboardInv

\* Waking the backlight shows the stored effect only after a rest as long as the fade.
LEMMA WokenKnown ==
  ASSUME KeyboardInv, shows' \in Woken
  PROVE  shows' = shows \/ still >= KEYBOARD_FADE
  BY KeyboardAssumption DEF Woken, KeyboardInv

\* A frame sent is shown, or known not to be.
LEMMA Painted ==
  ASSUME NEW force \in BOOLEAN, paint_keyboard(force), dropped \in BOOLEAN
  PROVE  /\ rest' = 0 /\ dropped' \in BOOLEAN
         /\ \/ painted' = NotPainted \/ shows' = painted'
            \/ /\ force = FALSE
               /\ painted' = painted /\ dropped' = dropped /\ shows' \in Woken
  BY Zenon DEF paint_keyboard

\* A step that leaves the input alone, and shows what is painted or wakes the backlight.
LEMMA StaysKnown ==
  ASSUME KeyboardInv,
         still' = still, unseen' = unseen, rest' = 0, dropped' \in BOOLEAN,
         \/ painted' = NotPainted \/ shows' = painted'
         \/ painted' = painted /\ dropped' = dropped /\ shows' \in Woken
  PROVE  KeyboardInv'
<1>1. CASE painted' = NotPainted \/ shows' = painted'
  BY <1>1 DEF KeyboardInv, KnowsWhatShows
<1>2. CASE painted' = painted /\ dropped' = dropped /\ shows' \in Woken
  BY <1>2, WokenKnown DEF KeyboardInv, KnowsWhatShows
<1> QED
  BY <1>1, <1>2

LEMMA KeyboardStep ==
  ASSUME KeyboardInv, KeyboardNext \/ UNCHANGED keyboard_vars
  PROVE  KeyboardInv'
<1> DEFINE Seen == <<still, rest, unseen, painted, shows, dropped>>
<1>1. CASE UNCHANGED Seen
  BY <1>1 DEF KeyboardInv, KnowsWhatShows
<1>2. CASE Second
  BY <1>2, KeyboardAssumption DEF Second, KeyboardInv, KnowsWhatShows, Fade
<1>3. CASE Input
  <2>1. /\ unseen' = Fade(unseen + still) /\ still' = 0 /\ rest' = 0
        /\ painted' = painted /\ dropped' = dropped
    BY <1>3 DEF Input
  <2>2. /\ unseen' \in 0 .. EcFade
        /\ still >= KEYBOARD_FADE \/ unseen >= KEYBOARD_FADE => unseen' >= KEYBOARD_FADE
    BY <2>1, KeyboardAssumption DEF Fade, KeyboardInv
  <2>3. shows' = shows \/ still >= KEYBOARD_FADE
    BY <1>3, WokenKnown DEF Input
  <2> QED
    BY <2>1, <2>2, <2>3, KeyboardAssumption DEF KeyboardInv, KnowsWhatShows
<1>4. CASE Standby
  BY <1>4, KeyboardAssumption DEF Standby, KeyboardInv, KnowsWhatShows
<1>5. ASSUME NEW force \in BOOLEAN, paint_keyboard(force),
             still' = still, unseen' = unseen
      PROVE  KeyboardInv'
  BY <1>5, Painted, StaysKnown DEF KeyboardInv
<1>6. CASE ResyncApplies \/ WakeCheckPaints \/ Poll
  BY <1>5, <1>6 DEF ResyncApplies, WakeCheckPaints, Poll
<1>7. CASE ResyncProbes \/ ResyncFails \/ KeepAlive
  <2>1. /\ still' = still /\ unseen' = unseen /\ rest' = 0
        /\ painted' = painted /\ dropped' = dropped /\ shows' \in Woken
    BY <1>7, Zenon DEF ResyncProbes, ResyncFails, KeepAlive
  <2>2. dropped' \in BOOLEAN
    BY <2>1 DEF KeyboardInv
  <2> QED
    BY <2>1, <2>2, StaysKnown
<1>8. CASE PickApplies
  <2>1. /\ still' = still /\ unseen' = unseen /\ rest' = 0
        /\ \/ painted' = NotPainted \/ shows' = painted'
           \/ painted' = painted /\ dropped' = dropped /\ shows' \in Woken
    BY <1>8 DEF PickApplies
  <2>2. dropped' = FALSE \/ dropped' = dropped
    BY <1>8 DEF PickApplies
  <2>3. dropped' \in BOOLEAN
    BY <2>2 DEF KeyboardInv
  <2> QED
    BY <2>1, <2>3, StaysKnown
<1>9. CASE SeesPause
  <2>1. still' = still /\ unseen' = 0 /\ paint_keyboard(TRUE)
    BY <1>9 DEF SeesPause, Repaints
  <2>2. /\ rest' = 0 /\ dropped' \in BOOLEAN
        /\ painted' = NotPainted \/ shows' = painted'
    BY <2>1, Painted DEF KeyboardInv
  <2> QED
    BY <2>1, <2>2, KeyboardAssumption DEF KeyboardInv, KnowsWhatShows
<1>10. CASE SeesInput
  <2>1. /\ still' = still /\ rest' = rest /\ unseen' = 0
        /\ painted' = painted /\ shows' = shows
        /\ dropped' = (dropped \/ Paused)
    BY <1>10 DEF SeesInput
  <2>2. CASE Paused
    <3>1. dropped' = TRUE
      BY <2>1, <2>2
    <3> QED
      BY <2>1, <3>1, KeyboardAssumption DEF KeyboardInv, KnowsWhatShows
  <2>3. CASE ~Paused
    <3>1. dropped' = dropped
      BY <2>1, <2>3 DEF KeyboardInv
    <3> QED
      BY <2>1, <2>3, <3>1, KeyboardAssumption DEF KeyboardInv, KnowsWhatShows, Paused
  <2> QED
    BY <2>2, <2>3
<1>11. CASE Look
  BY <1>1, <1>11 DEF Look
<1>12. CASE NothingPending \/ PickDuringResync \/ NoWakeCheck \/ NoKeepAlive \/ NoPoll
  BY <1>1, <1>12 DEF NothingPending, PickDuringResync, NoWakeCheck, NoKeepAlive, NoPoll
<1>13. CASE UNCHANGED keyboard_vars
  BY <1>1, <1>13 DEF keyboard_vars
<1> QED
  BY <1>2, <1>3, <1>4, <1>6, <1>7, <1>8, <1>9, <1>10, <1>11, <1>12, <1>13 DEF KeyboardNext

\* What the keyboard shows is the frame sent last, unless it has been still long enough for
\* the next input to be seen as one after a pause, such an input is about to be seen, or one
\* found a resync pending (the repaint in the event loop).
THEOREM KnowsWhatShowsHolds == Spec => []KnowsWhatShows
<1>1. Init => KeyboardInv
  BY KeyboardStarts DEF Init
<1>2. KeyboardInv /\ [Next]_desktop_vars => KeyboardInv'
  BY Parted, KeyboardStep
<1>3. KeyboardInv => KnowsWhatShows
  BY DEF KeyboardInv
<1> QED
  BY <1>1, <1>2, <1>3, PTL DEF Spec

-----------------------------------------------------------------------------
(* The power mode slider *)

PowerTypes ==
  /\ plugged \in Plugged /\ ac_power \in Plugged
  /\ slider \in [Plugged -> POWER_MODES]
  /\ match \in BOOLEAN /\ power_mode_before \in Notes
  /\ sync_step \in {"off", "idle", "sync", "set", "forget"}
  /\ saved_power \in [match : BOOLEAN, before : Notes]
  /\ stood \in Notes /\ moved \subseteq Plugged /\ astray \subseteq Plugged

\* The notes are on disk, a sync sets no slider before its source is noted and forgets none
\* that is still moved, and, but for sources gone astray, what is noted is true and what was
\* moved is noted: what KnowsWhatToPutBack rests on from one step of a sync to the next.
NotesInv ==
  /\ PowerTypes
  /\ sync_step # "off" => saved_power.before = power_mode_before
  /\ sync_step = "set" => power_mode_before[ac_power] # NoMode
  /\ sync_step = "forget" => ac_power \notin moved \ astray
  /\ \A source \in Plugged \ astray : Noted[source] # NoMode => Noted[source] = stood[source]
  /\ \A source \in moved \ astray : Noted[source] # NoMode

LEMMA NoModeIsNone == NoMode \notin POWER_MODES
  BY DEF NoMode, POWER_MODES

LEMMA NoNotesType == NoNotes \in Notes
  BY DEF NoNotes, Notes

LEMMA Kept ==
  ASSUME NotesInv PROVE saved_power.before \in Notes /\ power_mode_before \in Notes
  BY DEF NotesInv, PowerTypes

LEMMA PersistKeeps ==
  ASSUME NEW on \in BOOLEAN, NEW notes \in Notes, Persist(on, notes)
  PROVE  saved_power' \in [match : BOOLEAN, before : Notes] /\ saved_power'.before = notes
  BY DEF Persist

LEMMA NotesInit == PowerInit => NotesInv
<1> SUFFICES ASSUME PowerInit PROVE NotesInv
  OBVIOUS
<1>1. /\ power_mode_before = NoNotes /\ sync_step = "idle" /\ match = FALSE
      /\ saved_power = [match |-> FALSE, before |-> NoNotes]
      /\ stood = NoNotes /\ moved = {} /\ astray = {}
      /\ plugged \in Plugged /\ ac_power \in Plugged /\ slider \in [Plugged -> POWER_MODES]
  BY DEF PowerInit
<1>2. saved_power \in [match : BOOLEAN, before : Notes] /\ saved_power.before = NoNotes
  BY <1>1, NoNotesType
<1>3. Noted = NoNotes
  BY <1>1 DEF Noted
<1> QED
  BY <1>1, <1>2, <1>3, NoNotesType DEF NotesInv, PowerTypes

\* A step outside a sync that keeps the notes and what they are about.
LEMMA NotesStay ==
  ASSUME NotesInv, Noted' = Noted, UNCHANGED seen_power, PowerTypes',
         sync_step' # "off" => saved_power'.before = power_mode_before',
         sync_step' \notin {"set", "forget"}
  PROVE  NotesInv'
  BY DEF NotesInv, seen_power

\* A source is noted where its slider stands, or goes astray.
LEMMA NotesTaken ==
  ASSUME NotesInv, SyncNotes
  PROVE  NotesInv'
<1> USE DEF NotesInv, PowerTypes
<1>1. /\ sync_step = "sync" /\ sync_step' = "set" /\ match = TRUE
      /\ UNCHANGED <<plugged, slider, ac_power, match, moved>>
  BY DEF SyncNotes
<1>2. CASE Slot = NoMode
  <2> DEFINE there == slider[plugged]
  <2>1. /\ power_mode_before' = [power_mode_before EXCEPT ![ac_power] = there]
        /\ Persist(match, power_mode_before')
        /\ stood' = IF ac_power \in moved THEN stood
                    ELSE [stood EXCEPT ![ac_power] = slider[ac_power]]
        /\ astray' = IF Stale THEN astray \cup {ac_power} ELSE astray
    BY <1>2 DEF SyncNotes
  <2>2. there \in POWER_MODES /\ there # NoMode
    BY NoModeIsNone
  <2>3. power_mode_before' \in Notes /\ power_mode_before'[ac_power] = there
    BY <2>1, <2>2 DEF Notes
  <2>4. \A source \in Plugged \ {ac_power} :
          power_mode_before'[source] = power_mode_before[source]
    BY <2>1 DEF Notes
  <2>5. /\ saved_power' \in [match : BOOLEAN, before : Notes]
        /\ saved_power'.before = power_mode_before'
    BY <2>1, <2>3, PersistKeeps
  <2>6. Noted = power_mode_before /\ Noted' = power_mode_before'
    BY <1>1 DEF Noted
  <2>7. ac_power \notin moved \ astray
    BY <1>2, <2>6 DEF Slot
  <2>8. stood' \in Notes
    BY <2>1, <2>2 DEF Notes
  <2>9. \A source \in Plugged \ {ac_power} : stood'[source] = stood[source]
    BY <2>1 DEF Notes
  <2>10. CASE Stale
    <3>1. astray' = astray \cup {ac_power}
      BY <2>1, <2>10
    <3> QED
      BY <1>1, <2>2, <2>3, <2>4, <2>5, <2>6, <2>8, <2>9, <3>1
  <2>11. CASE ~Stale
    <3>1. astray' = astray /\ there = slider[ac_power]
      BY <2>1, <2>11 DEF Stale
    <3>2. ac_power \notin astray => stood'[ac_power] = there
      BY <2>1, <2>7, <3>1 DEF Notes
    <3> QED
      BY <1>1, <2>2, <2>3, <2>4, <2>5, <2>6, <2>7, <2>8, <2>9, <3>1, <3>2
  <2> QED
    BY <2>10, <2>11
<1>3. CASE Slot # NoMode
  <2>1. UNCHANGED <<power_mode_before, saved_power, stood, astray>>
    BY <1>3 DEF SyncNotes
  <2>2. Noted' = Noted
    BY <1>1, <2>1 DEF Noted
  <2> QED
    BY <1>1, <1>3, <2>1, <2>2 DEF Slot
<1> QED
  BY <1>2, <1>3

\* A slider moved under a note that is not its own was noted before, or goes astray.
LEMMA SliderMoves ==
  ASSUME NotesInv, NEW mode \in POWER_MODES, Sets(mode)
  PROVE  /\ slider' \in [Plugged -> POWER_MODES]
         /\ moved' \subseteq moved \cup {plugged}
         /\ Stale => \A source \in moved' \ (astray \cup MovedUnnoted) :
                      source \in moved \ astray \/ power_mode_before[source] # NoMode
<1> USE DEF NotesInv, PowerTypes
<1>1. /\ slider' = [slider EXCEPT ![plugged] = mode]
      /\ moved' = IF slider[plugged] = mode THEN moved ELSE moved \cup {plugged}
  BY DEF Sets
<1>2. slider' \in [Plugged -> POWER_MODES] /\ moved' \subseteq moved \cup {plugged}
  BY <1>1
<1>3. ASSUME Stale, NEW source \in moved' \ (astray \cup MovedUnnoted), source \notin moved
      PROVE  power_mode_before[source] # NoMode
  <2>1. source = plugged /\ source \in moved' \ moved
    BY <1>2, <1>3
  <2> QED
    BY <1>3, <2>1 DEF MovedUnnoted
<1> QED
  BY <1>2, <1>3

LEMMA SliderSet ==
  ASSUME NotesInv, SyncSets
  PROVE  NotesInv'
<1> USE DEF NotesInv, PowerTypes
<1>1. /\ sync_step = "set" /\ sync_step' = "idle"
      /\ astray' = astray \cup MovedUnnoted
      /\ UNCHANGED <<plugged, ac_power, match, power_mode_before, saved_power, stood>>
  BY DEF SyncSets
<1>2. PICK perf \in PerfModes : Sets(power_mode_for(perf))
  BY DEF SyncSets
<1>3. power_mode_for(perf) \in POWER_MODES
  BY DEF power_mode_for, POWER_MODES
<1>4. /\ slider' \in [Plugged -> POWER_MODES]
      /\ moved' \subseteq moved \cup {plugged}
      /\ Stale => \A source \in moved' \ (astray \cup MovedUnnoted) :
                   source \in moved \ astray \/ power_mode_before[source] # NoMode
  BY <1>2, <1>3, SliderMoves
<1>5. Noted' = Noted /\ Noted = power_mode_before
  BY <1>1 DEF Noted
<1>6. MovedUnnoted \subseteq Plugged
  BY <1>4 DEF MovedUnnoted
<1>7. \A source \in moved' \ astray' : Noted'[source] # NoMode
  <2>1. CASE Stale
    BY <1>1, <1>4, <1>5, <2>1
  <2>2. CASE ~Stale
    BY <1>1, <1>4, <1>5, <2>2 DEF Stale
  <2> QED
    BY <2>1, <2>2
<1> QED
  BY <1>1, <1>4, <1>5, <1>6, <1>7

LEMMA SliderPutBack ==
  ASSUME NotesInv, SyncPutsBack
  PROVE  NotesInv'
<1> USE DEF NotesInv, PowerTypes
<1>1. /\ sync_step = "sync" /\ sync_step' = "forget" /\ Slot # NoMode
      /\ UNCHANGED <<plugged, ac_power, match, power_mode_before, saved_power, stood>>
  BY DEF SyncPutsBack
<1>2. Slot \in POWER_MODES
  BY <1>1 DEF Slot, Notes
<1>3. Noted' = Noted /\ Noted = power_mode_before
  BY <1>1 DEF Noted
<1>4. CASE ~Stale
  <2>1. /\ slider' = [slider EXCEPT ![plugged] = Slot]
        /\ moved' = moved \ {plugged} /\ astray' = astray /\ ac_power = plugged
    BY <1>4 DEF SyncPutsBack, Stale
  <2>2. slider' \in [Plugged -> POWER_MODES]
    BY <1>2, <2>1
  <2> QED
    BY <1>1, <1>3, <2>1, <2>2
<1>5. CASE Stale
  <2>1. Sets(Slot) /\ astray' = astray \cup {ac_power} \cup MovedUnnoted
    BY <1>5 DEF SyncPutsBack
  <2>2. /\ slider' \in [Plugged -> POWER_MODES]
        /\ moved' \subseteq moved \cup {plugged}
        /\ \A source \in moved' \ (astray \cup MovedUnnoted) :
              source \in moved \ astray \/ power_mode_before[source] # NoMode
    BY <1>2, <1>5, <2>1, SliderMoves
  <2>3. MovedUnnoted \subseteq Plugged
    BY <2>2 DEF MovedUnnoted
  <2>4. \A source \in moved' \ astray' : Noted'[source] # NoMode
    BY <1>1, <1>3, <2>1, <2>2
  <2> QED
    BY <1>1, <1>3, <2>1, <2>2, <2>3, <2>4
<1> QED
  BY <1>4, <1>5

LEMMA NoteForgotten ==
  ASSUME NotesInv, Forgets
  PROVE  NotesInv'
<1> USE DEF NotesInv, PowerTypes
<1>1. /\ sync_step = "forget" /\ sync_step' = "idle"
      /\ power_mode_before' = [power_mode_before EXCEPT ![ac_power] = NoMode]
      /\ Persist(match, power_mode_before')
      /\ astray' = IF ac_power \in moved THEN astray ELSE astray \ {ac_power}
      /\ UNCHANGED <<plugged, slider, ac_power, match, stood, moved>>
  BY DEF Forgets
<1>2. power_mode_before' \in Notes /\ power_mode_before'[ac_power] = NoMode
  BY <1>1 DEF Notes
<1>3. \A source \in Plugged \ {ac_power} :
        power_mode_before'[source] = power_mode_before[source]
  BY <1>1 DEF Notes
<1>4. /\ saved_power' \in [match : BOOLEAN, before : Notes]
      /\ saved_power'.before = power_mode_before'
  BY <1>1, <1>2, PersistKeeps
<1>5. Noted = power_mode_before /\ Noted' = power_mode_before' 
  BY <1>1 DEF Noted
<1>6. ac_power \notin moved \ astray /\ astray' \subseteq astray
  BY <1>1
<1>7. \A source \in Plugged \ astray' : source \in Plugged \ astray \/ source = ac_power
  BY <1>1
<1>8. \A source \in moved' \ astray' : source \in moved \ astray /\ source # ac_power
  BY <1>1
<1> QED
  BY <1>1, <1>2, <1>3, <1>4, <1>5, <1>6, <1>7, <1>8

\* No reset takes a note.
LEMMA NotesNext ==
  ASSUME ResetsWhileNoted = FALSE,
         NotesInv, PowerNext \/ UNCHANGED power_vars
  PROVE  NotesInv'
<1>1. CASE Plug
  <2>1. plugged' = ~plugged /\ UNCHANGED <<slider, tray_power, saved_power, seen_power>>
    BY <1>1 DEF Plug
  <2>2. plugged' \in Plugged /\ Noted' = Noted
    BY <2>1 DEF tray_power, Noted, Plugged
  <2> QED
    BY <2>1, <2>2, NotesStay DEF tray_power, NotesInv, PowerTypes, seen_power
<1>2. CASE UserMoves
  <2>1. /\ \E mode \in POWER_MODES \ {slider[plugged]} : slider' = [slider EXCEPT ![plugged] = mode]
        /\ UNCHANGED <<plugged, tray_power, saved_power, seen_power>>
    BY <1>2 DEF UserMoves
  <2>2. slider' \in [Plugged -> POWER_MODES] /\ Noted' = Noted
    BY <2>1 DEF tray_power, Noted, NotesInv, PowerTypes
  <2> QED
    BY <2>1, <2>2, NotesStay DEF tray_power, NotesInv, PowerTypes, seen_power
<1>3. CASE toggle_power_mode
  <2>1. /\ sync_step = "idle" /\ sync_step' = "sync"
        /\ match' = ~match /\ Persist(~match, power_mode_before)
        /\ UNCHANGED <<plugged, slider, ac_power, power_mode_before, seen_power>>
    BY <1>3 DEF toggle_power_mode
  <2>2. match' \in BOOLEAN /\ (~match) \in BOOLEAN
    <3>1. CASE match = TRUE
      BY <2>1, <3>1
    <3>2. CASE match = FALSE
      BY <2>1, <3>2
    <3> QED
      BY <3>1, <3>2 DEF NotesInv, PowerTypes
  <2>3. /\ saved_power' \in [match : BOOLEAN, before : Notes]
        /\ saved_power'.before = power_mode_before
    BY <2>1, <2>2, Kept, PersistKeeps
  <2>4. Noted' = Noted
    BY <2>1 DEF Noted
  <2>5. PowerTypes'
    BY <2>1, <2>2, <2>3 DEF NotesInv, PowerTypes, seen_power
  <2> QED
    BY <2>1, <2>3, <2>4, <2>5, NotesStay
<1>4. CASE apply_os_settings
  <2>1. /\ sync_step = "idle" /\ sync_step' = "sync"
        /\ UNCHANGED <<plugged, slider, ac_power, match, power_mode_before, saved_power,
                       seen_power>>
    BY <1>4 DEF apply_os_settings
  <2>2. Noted' = Noted
    BY <2>1 DEF Noted
  <2> QED
    BY <2>1, <2>2, NotesStay DEF NotesInv, PowerTypes, seen_power
<1>5. CASE NoticesSource
  <2>1. /\ sync_step = "idle" /\ ac_power' = plugged /\ sync_step' \in {"idle", "sync"}
        /\ UNCHANGED <<plugged, slider, match, power_mode_before, saved_power, seen_power>>
    BY <1>5 DEF NoticesSource
  <2>2. Noted' = Noted
    BY <2>1 DEF Noted
  <2> QED
    BY <2>1, <2>2, NotesStay DEF NotesInv, PowerTypes, seen_power
<1>6. CASE SyncSetRefused \/ SyncPutBackRefused \/ SyncNothing
  <2>1. /\ sync_step \in {"sync", "set"} /\ sync_step' = "idle"
        /\ UNCHANGED <<plugged, slider, ac_power, match, power_mode_before, saved_power,
                       seen_power>>
    BY <1>6 DEF SyncSetRefused, SyncPutBackRefused, SyncNothing
  <2>2. Noted' = Noted
    BY <2>1 DEF Noted
  <2> QED
    BY <2>1, <2>2, NotesStay DEF NotesInv, PowerTypes, seen_power
<1>7. CASE reset_config
  <2>1. /\ sync_step = "idle" /\ power_mode_before = NoNotes
        /\ match' = FALSE /\ power_mode_before' = NoNotes
        /\ Persist(FALSE, NoNotes)
        /\ UNCHANGED <<plugged, slider, ac_power, sync_step, seen_power>>
    BY <1>7 DEF reset_config
  <2>2. /\ saved_power' \in [match : BOOLEAN, before : Notes]
        /\ saved_power'.before = NoNotes
    BY <2>1, NoNotesType, PersistKeeps
  <2>3. Noted' = Noted
    BY <2>1 DEF Noted
  <2>4. PowerTypes'
    BY <2>1, <2>2, NoNotesType DEF NotesInv, PowerTypes, seen_power
  <2> QED
    BY <2>1, <2>2, <2>3, <2>4, NotesStay
<1>8. CASE Crash
  <2>1. /\ sync_step # "off" /\ sync_step' = "off"
        /\ UNCHANGED <<plugged, slider, ac_power, match, power_mode_before, saved_power,
                       seen_power>>
    BY <1>8 DEF Crash
  <2>2. Noted' = Noted
    BY <2>1 DEF Noted, NotesInv
  <2> QED
    BY <2>1, <2>2, NotesStay DEF NotesInv, PowerTypes, seen_power
<1>9. CASE Start
  <2>1. /\ sync_step = "off" /\ sync_step' \in {"idle", "sync"} /\ ac_power' \in Plugged
        /\ match' = saved_power.match /\ power_mode_before' = saved_power.before
        /\ UNCHANGED <<plugged, slider, saved_power, seen_power>>
    BY <1>9 DEF Start
  <2>2. Noted' = Noted
    BY <2>1 DEF Noted
  <2>3. match' \in BOOLEAN /\ power_mode_before' \in Notes
    BY <2>1 DEF NotesInv, PowerTypes
  <2>4. PowerTypes'
    BY <2>1, <2>3 DEF NotesInv, PowerTypes, seen_power
  <2> QED
    BY <2>1, <2>2, <2>4, NotesStay
<1>10. CASE UNCHANGED power_vars
  <2>1. UNCHANGED <<plugged, slider, ac_power, match, power_mode_before, sync_step,
                    saved_power, stood, moved, astray>>
    BY <1>10 DEF power_vars, tray_power, seen_power
  <2>2. Noted' = Noted
    BY <2>1 DEF Noted
  <2> QED
    BY <2>1, <2>2 DEF NotesInv, PowerTypes
<1> QED
  BY <1>1, <1>2, <1>3, <1>4, <1>5, <1>6, <1>7, <1>8, <1>9, <1>10,
     NotesTaken, SliderSet, SliderPutBack, NoteForgotten DEF PowerNext

\* Every slider the tray has moved, through crashes, refusals and plugging at any moment, is
\* still noted where it stood before, so turning matching off puts it back
\* (sync_windows_power_mode), but for sources a sync got wrong between a plug and the poll
\* that notices it; as long as no reset takes the note.
THEOREM KnowsWhatToPutBackHolds ==
  ASSUME ResetsWhileNoted = FALSE
  PROVE  Spec => []KnowsWhatToPutBack
<1>1. Init => NotesInv
  BY NotesInit DEF Init
<1>2. NotesInv /\ [Next]_desktop_vars => NotesInv'
  BY Parted, NotesNext
<1>3. NotesInv => KnowsWhatToPutBack
  BY DEF NotesInv, PowerTypes, KnowsWhatToPutBack
<1> QED
  BY <1>1, <1>2, <1>3, PTL DEF Spec

-----------------------------------------------------------------------------
(* The GPU monitor *)

\* A temperature goes with the GPU awake.
GpuFlags ==
  /\ gpu_step \in {"look", "sample", "end", "off"}
  /\ asleep \in BOOLEAN /\ temp_shown \in BOOLEAN
  /\ kmt_temp \in BOOLEAN /\ smi_dropped \in BOOLEAN
  /\ temp_shown = TRUE => asleep = FALSE
  /\ gpu_step \in {"sample", "end"} => asleep = FALSE

\* No source has been silent for longer than it has failed, or is given up, so that a round
\* that starts has one that is still in time.
GpuCounts ==
  /\ kmt_failures \in 0 .. Max /\ smi_failures \in 0 .. Max
  /\ silent \in Nat /\ silent <= kmt_failures
  /\ gpu_step = "sample" /\ kmt_temp = FALSE => silent < kmt_failures
  /\ smi_dropped = FALSE => silent <= smi_failures /\ smi_failures < Max
  /\ gpu_step = "look" /\ smi_dropped = TRUE => kmt_failures < Max

GpuInv == GpuFlags /\ GpuCounts

LEMMA MaxPositive == Max \in Nat \ {0}
  BY TelemetryAssumption DEF Max

LEMMA GpuInit == TelemetryInit => GpuInv
<1> SUFFICES ASSUME TelemetryInit PROVE GpuInv
  OBVIOUS
<1>1. /\ gpu_step = "look" /\ asleep = FALSE /\ kmt_temp = FALSE /\ temp_shown = FALSE
      /\ kmt_failures = 0 /\ smi_failures = 0 /\ smi_dropped = FALSE /\ silent = 0
  BY DEF TelemetryInit
<1>2. GpuFlags
  BY <1>1 DEF GpuFlags
<1>3. GpuCounts
  BY <1>1, MaxPositive DEF GpuCounts
<1> QED
  BY <1>2, <1>3 DEF GpuInv

LEMMA AwakeKeeps ==
  ASSUME GpuInv, NEW answers \in BOOLEAN, LooksAwake(answers)
  PROVE  GpuInv'
<1> USE DEF GpuInv, GpuFlags, GpuCounts
<1>1. /\ gpu_step = "look" /\ gpu_step' = "sample" /\ asleep' = FALSE
      /\ kmt_temp' = answers
      /\ kmt_failures' = IF answers THEN 0 ELSE Upto(kmt_failures, Max)
      /\ temp_shown' = (temp_shown \/ answers)
      /\ silent' = IF answers THEN 0 ELSE silent
      /\ smi_failures' = smi_failures /\ smi_dropped' = smi_dropped
  BY Zenon DEF LooksAwake
<1>2. temp_shown' \in BOOLEAN
  BY <1>1
<1>3. CASE answers = TRUE
  <2>1. GpuFlags'
    BY <1>1, <1>2, <1>3
  <2>2. GpuCounts'
    BY <1>1, <1>3, MaxPositive
  <2> QED
    BY <2>1, <2>2
<1>4. CASE answers = FALSE
  <2>1. kmt_temp' = FALSE /\ silent' = silent /\ kmt_failures' = Upto(kmt_failures, Max)
    BY <1>1, <1>4
  <2>2. silent < Max
    BY <1>1, MaxPositive
  <2>3. kmt_failures' \in 0 .. Max /\ silent < kmt_failures'
    BY <2>1, <2>2, MaxPositive DEF Upto
  <2>4. temp_shown' = temp_shown
    BY <1>1, <1>4
  <2>5. GpuFlags'
    BY <1>1, <2>1, <2>4
  <2>6. GpuCounts'
    BY <1>1, <2>1, <2>3
  <2> QED
    BY <2>5, <2>6
<1> QED
  BY <1>3, <1>4

LEMMA FailKeeps ==
  ASSUME GpuInv, SampleFails
  PROVE  GpuInv'
<1> USE DEF GpuInv, GpuFlags, GpuCounts
<1>1. /\ gpu_step = "sample" /\ gpu_step' = "end" /\ smi_dropped = FALSE
      /\ smi_failures' = smi_failures + 1
      /\ smi_dropped' = (smi_failures + 1 >= Max)
      /\ silent' = IF kmt_temp THEN 0 ELSE silent + 1
      /\ UNCHANGED <<asleep, kmt_temp, kmt_failures, temp_shown>>
  BY DEF SampleFails
<1>2. smi_dropped' \in BOOLEAN /\ (smi_dropped' = FALSE => smi_failures' < Max)
  <2>1. CASE smi_failures + 1 >= Max
    <3>1. smi_dropped' = TRUE
      BY <1>1, <2>1
    <3> QED
      BY <3>1
  <2>2. CASE ~(smi_failures + 1 >= Max)
    <3>1. smi_dropped' = FALSE
      BY <1>1, <2>2
    <3> QED
      BY <1>1, <2>2, <3>1, MaxPositive
  <2> QED
    BY <2>1, <2>2
<1>3. smi_failures' \in 0 .. Max
  BY <1>1, MaxPositive
<1>4. silent' \in Nat /\ silent' <= kmt_failures /\ silent' <= smi_failures'
  BY <1>1, MaxPositive
<1> QED
  BY <1>1, <1>2, <1>3, <1>4, MaxPositive

LEMMA NoSampleKeeps ==
  ASSUME GpuInv, NoSample
  PROVE  GpuInv'
<1> USE DEF GpuInv, GpuFlags, GpuCounts
<1>1. /\ gpu_step = "sample" /\ gpu_step' = "end"
      /\ silent' = IF smi_dropped /\ ~kmt_temp THEN silent + 1 ELSE silent
      /\ UNCHANGED <<asleep, kmt_temp, kmt_failures, smi_failures, smi_dropped, temp_shown>>
  BY DEF NoSample, gpu_counts
<1>2. /\ silent' \in Nat /\ silent' <= kmt_failures
      /\ (smi_dropped = FALSE => silent' = silent)
  BY <1>1, MaxPositive
<1> QED
  BY <1>1, <1>2, MaxPositive

LEMMA GpuNext ==
  ASSUME GpuInv, TelemetryNext \/ UNCHANGED telemetry_vars
  PROVE  GpuInv'
<1> DEFINE Rest == <<kmt_failures, smi_failures, smi_dropped, kmt_temp, asleep, silent>>
<1>1. CASE UNCHANGED gpu
  BY <1>1 DEF GpuInv, GpuFlags, GpuCounts, gpu, gpu_counts
<1>2. CASE LooksAsleep
  <2>1. /\ gpu_step = "look" /\ gpu_step' = "look" /\ asleep' = TRUE
        /\ temp_shown' = FALSE /\ silent' = 0
        /\ UNCHANGED <<kmt_temp, kmt_failures, smi_failures, smi_dropped>>
    BY <1>2 DEF LooksAsleep, Blanks
  <2>2. GpuFlags'
    BY <2>1 DEF GpuInv, GpuFlags
  <2>3. GpuCounts'
    BY <2>1, MaxPositive DEF GpuInv, GpuFlags, GpuCounts
  <2> QED
    BY <2>2, <2>3 DEF GpuInv
<1>3. ASSUME NEW watts \in BOOLEAN, SampleOk(watts)
      PROVE  GpuInv'
  <2>1. /\ gpu_step = "sample" /\ gpu_step' = "end" /\ smi_failures' = 0
        /\ temp_shown' = TRUE /\ silent' = 0
        /\ UNCHANGED <<asleep, kmt_temp, kmt_failures, smi_dropped>>
    BY <1>3, Zenon DEF SampleOk
  <2> QED
    BY <2>1, MaxPositive DEF GpuInv, GpuFlags, GpuCounts
<1>4. CASE GoesOn
  <2>1. /\ gpu_step = "end" /\ gpu_step' = "look" /\ ~BothOut
        /\ UNCHANGED Rest /\ temp_shown' = temp_shown
    BY <1>4 DEF GoesOn, gpu_counts
  <2> QED
    BY <2>1, MaxPositive DEF GpuInv, GpuFlags, GpuCounts, BothOut
<1>5. CASE Ends
  <2>1. gpu_step' = "off" /\ temp_shown' = FALSE /\ UNCHANGED Rest
    BY <1>5 DEF Ends, gpu_counts
  <2> QED
    BY <2>1, MaxPositive DEF GpuInv, GpuFlags, GpuCounts
<1>6. CASE FansRead \/ FansMisread
  BY <1>1, <1>6 DEF FansRead, FansMisread
<1>7. CASE SpinUpOrDown \/ FansLoneZero \/ FansFail \/ UNCHANGED telemetry_vars
  BY <1>1, <1>7 DEF SpinUpOrDown, FansLoneZero, FansFail, telemetry_vars
<1> QED
  BY <1>2, <1>3, <1>4, <1>5, <1>6, <1>7, AwakeKeeps, FailKeeps, NoSampleKeeps
     DEF TelemetryNext

\* A temperature is shown only while the GPU was last seen awake, and not once both sources
\* have been out for as long as each is given (spawn_gpu_telemetry_monitor).
THEOREM GpuShownHolds == Spec => []GpuShown
<1>1. Init => GpuInv
  BY GpuInit DEF Init
<1>2. GpuInv /\ [Next]_desktop_vars => GpuInv'
  BY Parted, GpuNext
<1>3. GpuInv => GpuShown
  BY MaxPositive DEF GpuInv, GpuFlags, GpuCounts, GpuShown
<1> QED
  BY <1>1, <1>2, <1>3, PTL DEF Spec
-----------------------------------------------------------------------------
(* Types *)

LEMMA PowerTyped ==
  ASSUME PowerTypeOK, PowerNext \/ UNCHANGED power_vars
  PROVE  PowerTypeOK'
<1> USE DEF PowerTypeOK
<1>1. ASSUME NEW what \in SliderEvent, Spend(what)
      PROVE  slider_left' \in [SliderEvent -> Nat]
  BY <1>1 DEF Spend
<1>2. \A what \in SliderEvent : Spend(what) => slider_left' \in [SliderEvent -> Nat]
  BY <1>1
<1>3. ASSUME NEW on \in BOOLEAN, NEW notes \in Notes, Persist(on, notes)
      PROVE  saved_power' \in [match : BOOLEAN, before : Notes]
  BY <1>3, PersistKeeps
<1>4. \A perf \in PerfModes : power_mode_for(perf) \in POWER_MODES
  BY DEF power_mode_for, POWER_MODES
<1>5. Slot \in POWER_MODES \cup {NoMode}
  BY DEF Slot, Notes
<1>6. CASE Plug \/ UserMoves \/ SyncSetRefused \/ SyncPutBackRefused \/ Crash
  <2>1. slider_left' \in [SliderEvent -> Nat]
    BY <1>2, <1>6 DEF Plug, UserMoves, SyncSetRefused, SyncPutBackRefused, Crash, SliderEvent
  <2>2. plugged' \in Plugged
    BY <1>6, Zenon DEF Plug, UserMoves, SyncSetRefused, SyncPutBackRefused, Crash, Plugged
  <2>3. slider' \in [Plugged -> POWER_MODES]
    BY <1>6 DEF Plug, UserMoves, SyncSetRefused, SyncPutBackRefused, Crash
  <2> QED
    BY <1>6, <2>1, <2>2, <2>3
       DEF Plug, UserMoves, SyncSetRefused, SyncPutBackRefused, Crash, tray_power, seen_power
<1>7. CASE toggle_power_mode
  <2>1. Spend("toggle") /\ Persist(~match, power_mode_before) /\ match' = ~match
    BY <1>7 DEF toggle_power_mode
  <2>2. (~match) \in BOOLEAN
    OBVIOUS
  <2>3. /\ slider_left' \in [SliderEvent -> Nat]
        /\ saved_power' \in [match : BOOLEAN, before : Notes]
    BY <1>1, <1>3, <2>1, <2>2 DEF SliderEvent
  <2> QED
    BY <1>7, <2>1, <2>3 DEF toggle_power_mode, seen_power
<1>8. CASE apply_os_settings \/ NoticesSource
  BY <1>2, <1>8 DEF apply_os_settings, NoticesSource, SliderEvent, seen_power
<1>9. CASE SyncNotes
  <2>1. slider[plugged] \in POWER_MODES \cup {NoMode}
        /\ slider[ac_power] \in POWER_MODES \cup {NoMode}
    OBVIOUS
  <2>2. power_mode_before' \in Notes /\ stood' \in Notes
    BY <1>9, <2>1 DEF SyncNotes, Notes
  <2>3. saved_power' = saved_power \/ Persist(match, power_mode_before')
    BY <1>9 DEF SyncNotes
  <2>4. saved_power' \in [match : BOOLEAN, before : Notes]
    BY <1>3, <2>2, <2>3
  <2> QED
    BY <1>9, <2>2, <2>4 DEF SyncNotes
<1>10. CASE SyncSets
  <2>1. \E perf \in PerfModes : Sets(power_mode_for(perf))
    BY <1>10 DEF SyncSets
  <2>2. slider' \in [Plugged -> POWER_MODES] /\ moved' \subseteq Plugged
    BY <1>4, <2>1 DEF Sets
  <2> QED
    BY <1>10, <2>2 DEF SyncSets, MovedUnnoted
<1>11. CASE SyncPutsBack
  <2>1. slider' \in [Plugged -> POWER_MODES] /\ moved' \subseteq Plugged
    BY <1>5, <1>11 DEF SyncPutsBack, Sets
  <2> QED
    BY <1>11, <2>1 DEF SyncPutsBack, MovedUnnoted
<1>16. CASE SyncNothing
  BY <1>16 DEF SyncNothing, seen_power
<1>12. CASE Forgets
  <2>1. power_mode_before' \in Notes /\ Persist(match, power_mode_before')
    BY <1>12 DEF Forgets, Notes
  <2>2. saved_power' \in [match : BOOLEAN, before : Notes]
    BY <1>3, <2>1
  <2> QED
    BY <1>12, <2>1, <2>2 DEF Forgets
<1>13. CASE reset_config
  <2>1. Spend("reset") /\ Persist(FALSE, NoNotes)
    BY <1>13 DEF reset_config
  <2>2. /\ slider_left' \in [SliderEvent -> Nat]
        /\ saved_power' \in [match : BOOLEAN, before : Notes]
    BY <1>1, <1>3, <2>1, NoNotesType DEF SliderEvent
  <2> QED
    BY <1>13, <2>2, NoNotesType DEF reset_config, seen_power
<1>14. CASE Start
  <2>1. saved_power.match \in BOOLEAN /\ saved_power.before \in Notes
    OBVIOUS
  <2> QED
    BY <1>14, <2>1 DEF Start, seen_power
<1>15. CASE UNCHANGED power_vars
  BY <1>15 DEF power_vars, tray_power, seen_power
<1> QED
  BY <1>6, <1>7, <1>8, <1>9, <1>10, <1>11, <1>12, <1>13, <1>14, <1>15,
     <1>16 DEF PowerNext

LEMMA WakeTyped ==
  ASSUME WakeTypeOK, WakeNext \/ UNCHANGED wake_vars
  PROVE  WakeTypeOK'
<1> USE DEF WakeTypeOK, WakeSource, Age
<1>1. \A what \in WakeEvent : SpendWake(what) => wake_left' \in [WakeEvent -> Nat]
  BY DEF SpendWake
<1>2. CASE MinutePasses
  BY <1>2 DEF MinutePasses
<1>3. CASE DisplayOff
  BY <1>1, <1>3 DEF DisplayOff, WakeEvent
<1>4. CASE DisplayOn
  <2>1. owed' \in [WakeSource -> 0 .. 2] /\ WAKE' \in WakeSource \cup {"none"}
    BY <1>4 DEF DisplayOn
  <2> QED
    BY <1>1, <1>4, <2>1 DEF DisplayOn, WakeEvent
<1>5. CASE signal_resume
  <2>1. owed' \in [WakeSource -> 0 .. 2]
    BY <1>5 DEF signal_resume
  <2> QED
    BY <1>1, <1>5, <2>1 DEF signal_resume, WakeEvent
<1>6. CASE SyncStep
  BY <1>1, <1>6 DEF SyncStep, WakeEvent, window
<1>7. CASE TakeWake
  <2>1. wake_checks' \in [WakeSource -> 0 .. 2]
    BY <1>7 DEF TakeWake, Scheduled
  <2> QED
    BY <1>7, <2>1 DEF TakeWake
<1>8. CASE RunCheck
  <2>1. PICK source \in WakeSource :
          /\ wake_checks[source] > 0
          /\ wake_checks' = [wake_checks EXCEPT ![source] = @ - 1]
          /\ owed' = IF WAKE = source \/ owed[source] = 0 THEN owed
                     ELSE [owed EXCEPT ![source] = @ - 1]
    BY <1>8, Zenon DEF RunCheck
  <2>2. wake_checks' \in [WakeSource -> 0 .. 2] /\ owed' \in [WakeSource -> 0 .. 2]
    BY <2>1
  <2> QED
    BY <1>8, <2>2 DEF RunCheck, window
<1>9. CASE NoCheckYet
  BY <1>9 DEF NoCheckYet, window
<1>10. CASE UNCHANGED wake_vars
  BY <1>10 DEF wake_vars, window
<1> QED
  BY <1>2, <1>3, <1>4, <1>5, <1>6, <1>7, <1>8, <1>9, <1>10 DEF WakeNext

\* The bar is one the digit keys can show, at every charge.
LEMMA Rendered ==
  ASSUME NEW perf \in {"Silent", "Custom"}, NEW level \in Levels \cup {NoLevel}
  PROVE  render(perf, level) \in Frames
<1>1. level \in [percent : 0 .. 100, charging : BOOLEAN]
  <2>1. NoLevel \in [percent : 0 .. 100, charging : BOOLEAN]
    BY DEF NoLevel
  <2> QED
    BY <2>1, KeyboardAssumption
<1>2. (level.percent + 9) \div 10 \in 0 .. 10
  <2>1. level.percent \in 0 .. 100
    BY <1>1
  <2> QED
    BY <2>1
<1>3. BarColor(level) \in BarColors
  BY DEF BarColor, BarColors
<1>4. draw_battery_bar(level) \in (0 .. 10) \X BarColors
  BY <1>2, <1>3 DEF draw_battery_bar
<1> QED
  BY <1>4 DEF render, Frames

LEMMA KeyboardTyped ==
  ASSUME KeyboardTypeOK, KeyboardInv', KeyboardNext \/ UNCHANGED keyboard_vars
  PROVE  KeyboardTypeOK'
<1> DEFINE Framed == /\ wanted \in Frames /\ painted \in Frames \cup {NotPainted}
                     /\ shows \in Frames \cup {StoredEffect}
           Passed == /\ resync \in {"none", "probe", "apply"}
                     /\ pass \in {"sync", "check", "input", "keep", "poll"}
                     /\ always_on \in BOOLEAN
                     /\ keyboard_left \in [KeyboardEvent -> Nat]
<1> SUFFICES Framed' /\ Passed'
  BY DEF KeyboardTypeOK, KeyboardInv
<1>1. Framed /\ Passed
  BY DEF KeyboardTypeOK
<1>2. \A what \in KeyboardEvent : SpendKey(what) => keyboard_left' \in [KeyboardEvent -> Nat]
  BY <1>1 DEF SpendKey
<1>3. shows' \in Woken => shows' \in Frames \cup {StoredEffect}
  BY <1>1 DEF Woken
<1>4. ASSUME NEW force \in BOOLEAN, paint_keyboard(force), wanted' = wanted
      PROVE  Framed' /\ keyboard_left' \in [KeyboardEvent -> Nat]
  BY <1>1, <1>2, <1>3, <1>4 DEF paint_keyboard, KeyboardEvent
<1>5. CASE ResyncApplies \/ WakeCheckPaints \/ Poll
  <2>1. PICK force \in BOOLEAN : paint_keyboard(force) /\ wanted' = wanted
    BY <1>5 DEF ResyncApplies, WakeCheckPaints, Poll
  <2>2. Framed' /\ keyboard_left' \in [KeyboardEvent -> Nat]
    BY <1>4, <2>1
  <2>3. Passed'
    BY <1>1, <1>5, <2>2 DEF ResyncApplies, WakeCheckPaints, Poll
  <2> QED
    BY <2>2, <2>3
<1>6. CASE SeesPause
  <2>1. Framed' /\ keyboard_left' \in [KeyboardEvent -> Nat]
    BY <1>4, <1>6 DEF SeesPause, Repaints
  <2>2. Passed'
    BY <1>1, <1>6, <2>1 DEF SeesPause
  <2> QED
    BY <2>1, <2>2
<1>7. CASE Look
  <2>1. wanted' \in Frames
    BY <1>7, Rendered DEF Look
  <2> QED
    BY <1>1, <1>2, <1>7, <2>1 DEF Look, KeyboardEvent
<1>8. CASE PickApplies
  <2>1. Framed'
    BY <1>1, <1>3, <1>8 DEF PickApplies
  <2>2. Passed'
    BY <1>1, <1>8 DEF PickApplies, KeyboardEvent
  <2> QED
    BY <2>1, <2>2
<1>9. CASE Second \/ Input \/ Standby \/ ResyncProbes \/ ResyncFails \/ KeepAlive
  <2>1. Framed'
    BY <1>1, <1>3, <1>9 DEF Second, Input, Standby, ResyncProbes, ResyncFails, KeepAlive
  <2>2. Passed'
    BY <1>1, <1>2, <1>9
       DEF Second, Input, Standby, ResyncProbes, ResyncFails, KeepAlive, KeyboardEvent
  <2> QED
    BY <2>1, <2>2
<1>10. CASE NothingPending \/ PickDuringResync \/ NoWakeCheck \/ SeesInput \/ NoKeepAlive \/ NoPoll
  <2>1. Framed'
    BY <1>1, <1>10
       DEF NothingPending, PickDuringResync, NoWakeCheck, SeesInput, NoKeepAlive, NoPoll
  <2>2. Passed'
    BY <1>1, <1>2, <1>10
       DEF NothingPending, PickDuringResync, NoWakeCheck, SeesInput, NoKeepAlive, NoPoll,
           KeyboardEvent
  <2> QED
    BY <2>1, <2>2
<1>11. CASE UNCHANGED keyboard_vars
  BY <1>1, <1>11 DEF keyboard_vars
<1> QED
  BY <1>5, <1>6, <1>7, <1>8, <1>9, <1>10, <1>11 DEF KeyboardNext

LEMMA TelemetryTyped ==
  ASSUME TelemetryTypeOK, GpuInv', FansInv', TelemetryNext \/ UNCHANGED telemetry_vars
  PROVE  TelemetryTypeOK'
<1> DEFINE Sampled == awake_polls \in 0 .. SMI_AWAKE_POLLS /\ watts_shown \in BOOLEAN
<1> SUFFICES Sampled'
  BY DEF TelemetryTypeOK, GpuInv, GpuFlags, GpuCounts, FansInv
<1>1. Sampled
  BY DEF TelemetryTypeOK
<1>2. ASSUME NEW answers \in BOOLEAN, LooksAwake(answers)
      PROVE  Sampled'
  BY <1>1, <1>2, TelemetryAssumption DEF LooksAwake, Upto
<1>3. ASSUME NEW watts \in BOOLEAN, SampleOk(watts)
      PROVE  Sampled'
  BY <1>1, <1>3 DEF SampleOk
<1>4. CASE LooksAsleep
  <2>1. awake_polls' = 0 /\ watts_shown' = FALSE
    BY <1>4, Zenon DEF LooksAsleep
  <2>2. awake_polls' \in 0 .. SMI_AWAKE_POLLS
    BY <2>1, TelemetryAssumption
  <2>3. watts_shown' \in BOOLEAN
    BY <2>1
  <2> QED
    BY <2>2, <2>3
<1>5. CASE SampleFails
  BY <1>1, <1>5 DEF SampleFails
<1>6. CASE NoSample \/ GoesOn \/ Ends
  BY <1>1, <1>6 DEF NoSample, GoesOn, Ends, gpu_counts
<1>7. CASE SpinUpOrDown \/ FansRead \/ FansMisread \/ FansLoneZero \/ FansFail
  BY <1>1, <1>7 DEF SpinUpOrDown, FansRead, FansMisread, FansLoneZero, FansFail, gpu, gpu_counts
<1>8. CASE UNCHANGED telemetry_vars
  BY <1>1, <1>8 DEF telemetry_vars, gpu, gpu_counts
<1> QED
  BY <1>2, <1>3, <1>4, <1>5, <1>6, <1>7, <1>8 DEF TelemetryNext

LEMMA DesktopStarts == Init => TypeOK
<1> SUFFICES ASSUME Init PROVE TypeOK
  OBVIOUS
<1>1. PowerTypeOK
  <2>1. [match |-> FALSE, before |-> NoNotes] \in [match : BOOLEAN, before : Notes]
    BY NoNotesType
  <2> QED
    BY <2>1, NoNotesType, PowerAssumption DEF Init, PowerInit, PowerTypeOK
<1>2. WakeTypeOK
  <2>1. [source \in WakeSource |-> 0] \in [WakeSource -> 0 .. 2]
    OBVIOUS
  <2> QED
    BY <2>1, WakeAssumption DEF Init, WakeInit, WakeTypeOK, Age, WakeSource
<1>3. KeyboardTypeOK
  <2>1. render("Silent", NoLevel) \in Frames
    BY Rendered
  <2>2. KeyboardInit
    BY DEF Init
  <2>3. /\ wanted \in Frames /\ painted \in Frames /\ shows \in Frames
        /\ resync = "none" /\ pass = "sync" /\ always_on \in BOOLEAN
        /\ keyboard_left \in [KeyboardEvent -> Nat]
    BY <2>1, <2>2, KeyboardAssumption DEF KeyboardInit
  <2> QED
    BY <2>2, <2>3, KeyboardStarts DEF KeyboardTypeOK, KeyboardInv
<1>4. TelemetryTypeOK
  <2>1. GpuInv /\ FansInv
    BY GpuInit, FansInit DEF Init
  <2>2. awake_polls = 0 /\ watts_shown = FALSE
    BY DEF Init, TelemetryInit
  <2>3. awake_polls \in 0 .. SMI_AWAKE_POLLS
    BY <2>2, TelemetryAssumption
  <2> QED
    BY <2>1, <2>2, <2>3
       DEF TelemetryTypeOK, GpuInv, GpuFlags, GpuCounts, FansInv
<1> QED
  BY <1>1, <1>2, <1>3, <1>4 DEF Init, TypeOK

\* Every variable of the slider, the wakes, the keyboard and the tooltip keeps its type: the
\* counts their bounds, the bar its ten keys, the fade its clock.
THEOREM TypeCorrect == Spec => []TypeOK
<1> DEFINE DesktopInv == TypeOK /\ KeyboardInv /\ GpuInv /\ FansInv
<1>1. Init => DesktopInv
  BY DesktopStarts, KeyboardStarts, GpuInit, FansInit DEF Init
<1>2. DesktopInv /\ [Next]_desktop_vars => DesktopInv'
  <2> SUFFICES ASSUME DesktopInv, [Next]_desktop_vars PROVE DesktopInv'
    OBVIOUS
  <2>1. KeyboardInv' /\ GpuInv' /\ FansInv'
    BY Parted, KeyboardStep, GpuNext, FansNext
  <2> QED
    BY <2>1, Parted, PowerTyped, WakeTyped, KeyboardTyped, TelemetryTyped DEF TypeOK
<1>3. DesktopInv => TypeOK
  OBVIOUS
<1> QED
  BY <1>1, <1>2, <1>3, PTL DEF Spec
===============================================================================
