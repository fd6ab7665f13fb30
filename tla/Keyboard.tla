------------------------------- MODULE Keyboard -------------------------------
(***************************************************************************)
(* The custom keyboard color.  The EC does not store the frame: it loses   *)
(* it in standby, and may lose it once the backlight has faded.  The event *)
(* loop sends it after an apply and after a wake check, whenever the frame *)
(* to show is another one, and at the first input after a pause.           *)
(*                                                                         *)
(* Time is counted in seconds, up to EcFade.                               *)
(***************************************************************************)
EXTENDS Naturals

CONSTANTS
  EcFade,         \* the EC fades the backlight after this long
  KEYBOARD_FADE,  \* a pause that may have let it fade
  Levels,         \* charges of the battery
  KeyboardBudget  \* how often each outside event happens

KeyboardEvent == {"standby", "input", "look", "fail", "pick"}
NoLevel == [percent |-> 0, charging |-> FALSE]

ASSUME KeyboardAssumption ==
  /\ EcFade \in Nat /\ KEYBOARD_FADE \in 1 .. EcFade
  /\ Levels \subseteq [percent : 0 .. 100, charging : BOOLEAN]
  /\ KeyboardBudget \in [KeyboardEvent -> Nat]

BarColors == {"cyan", "green", "amber", "red"}
NoBar == <<0, "none">>
Frames == [rows : {"Silent", "Custom"}, bar : ((0 .. 10) \X BarColors) \cup {NoBar}]
NotPainted == [rows |-> "none", bar |-> NoBar]
StoredEffect == [rows |-> "effect", bar |-> NoBar]

VARIABLES
  still,          \* since the last input
  rest,           \* since the last input or access to the EC
  unseen,         \* from the last input the loop has seen to the last one
  wanted, painted, shows,   \* frames: to show, sent last, on the keyboard
  resync, pass,   \* the event loop: a resync pending, and where it is in its pass
  always_on,      \* "Keep keyboard lit"
  dropped,        \* an input after a pause found a resync pending
  keyboard_left   \* what is left of KeyboardBudget

keyboard_vars == <<still, rest, unseen, wanted, painted, shows, resync, pass, always_on, dropped,
                   keyboard_left>>

KeyboardTypeOK ==
  /\ still \in 0 .. EcFade /\ rest \in 0 .. still /\ unseen \in 0 .. EcFade
  /\ wanted \in Frames /\ painted \in Frames \cup {NotPainted}
  /\ shows \in Frames \cup {StoredEffect}
  /\ resync \in {"none", "probe", "apply"}
  /\ pass \in {"sync", "check", "input", "keep", "poll"}
  /\ always_on \in BOOLEAN /\ dropped \in BOOLEAN
  /\ keyboard_left \in [KeyboardEvent -> Nat]

-----------------------------------------------------------------------------
(* The digit keys show the charge over the color of the perf mode.          *)

BarColor(level) ==
  CASE level.charging -> "cyan"
    [] ~level.charging /\ level.percent >= 50 -> "green"
    [] ~level.charging /\ level.percent \in 20 .. 49 -> "amber"
    [] OTHER -> "red"

\* Mutant: one key more when the tenth is full.
TenthAndOne(level) == <<level.percent \div 10 + 1, BarColor(level)>>

\* A key for every started tenth.
draw_battery_bar(level) == <<(level.percent + 9) \div 10, BarColor(level)>>

render(perf, level) ==
  [rows |-> perf, bar |-> IF level = NoLevel THEN NoBar ELSE draw_battery_bar(level)]

KeyboardInit ==
  /\ still = 0 /\ rest = 0 /\ unseen = 0
  /\ wanted = render("Silent", NoLevel) /\ painted = wanted /\ shows = wanted
  /\ resync = "none" /\ pass = "sync"
  /\ always_on \in BOOLEAN /\ dropped = FALSE
  /\ keyboard_left = KeyboardBudget

SpendKey(what) ==
  /\ keyboard_left[what] > 0
  /\ keyboard_left' = [keyboard_left EXCEPT ![what] = @ - 1]

\* Time, up to what is told apart.
Fade(t) == IF t < EcFade THEN t ELSE EcFade

-----------------------------------------------------------------------------
(* The keyboard and the world.                                              *)

Second ==
  /\ still' = Fade(still + 1) /\ rest' = Fade(rest + 1)
  /\ UNCHANGED <<unseen, wanted, painted, shows, resync, pass, always_on, dropped, keyboard_left>>

\* A backlight that has faded may come back on the stored effect, whatever wakes it: input,
\* or reading or writing the EC.
Woken == IF rest < EcFade THEN {shows} ELSE {shows, StoredEffect}

Input ==
  /\ SpendKey("input")
  /\ unseen' = Fade(unseen + still) /\ still' = 0
  /\ rest' = 0 /\ shows' \in Woken
  /\ UNCHANGED <<wanted, painted, resync, pass, always_on, dropped>>

\* Longer than the fade.
Standby ==
  /\ SpendKey("standby")
  /\ still' = EcFade /\ rest' = EcFade /\ shows' = StoredEffect
  /\ UNCHANGED <<unseen, wanted, painted, resync, pass, always_on, dropped>>

\* The perf mode shown or the charge changes.
Look ==
  /\ SpendKey("look")
  /\ \E perf \in {"Silent", "Custom"}, level \in Levels \cup {NoLevel} :
       wanted' = render(perf, level)
  /\ UNCHANGED <<still, rest, unseen, painted, shows, resync, pass, always_on, dropped>>

-----------------------------------------------------------------------------
(* A pass of the event loop.                                                *)

io_ok == resync = "none"

\* Not sent if it is what was sent last, unless forced.
paint_keyboard(force) ==
  /\ rest' = 0
  /\ \/ /\ force \/ painted # wanted
        /\ painted' = wanted /\ shows' = wanted /\ dropped' = FALSE
        /\ UNCHANGED keyboard_left
     \/ /\ force \/ painted # wanted
        /\ SpendKey("fail")
        /\ painted' = NotPainted /\ shows' \in Woken
        /\ UNCHANGED dropped
     \/ /\ ~force /\ painted = wanted
        /\ shows' \in Woken
        /\ UNCHANGED <<painted, dropped, keyboard_left>>

NothingPending ==
  /\ pass = "sync" /\ io_ok
  /\ pass' = "check"
  /\ UNCHANGED <<still, rest, unseen, wanted, painted, shows, resync, always_on, dropped,
                 keyboard_left>>

\* An apply may drop the frame, and paints it.  A device reopened meanwhile is applied to.
ResyncApplies ==
  /\ pass = "sync" /\ ~io_ok
  /\ pass' = "check" /\ resync' = "none"
  /\ paint_keyboard(TRUE)
  /\ UNCHANGED <<still, unseen, wanted, always_on>>

ResyncProbes ==
  /\ pass = "sync" /\ resync = "probe"
  /\ pass' = "check" /\ resync' = "none"
  /\ rest' = 0 /\ shows' \in Woken
  /\ UNCHANGED <<still, unseen, wanted, painted, always_on, dropped, keyboard_left>>

ResyncFails ==
  /\ pass = "sync" /\ ~io_ok /\ SpendKey("fail")
  /\ pass' = "check"
  /\ resync' \in {resync, "apply"}
  /\ rest' = 0 /\ shows' \in Woken
  /\ UNCHANGED <<still, unseen, wanted, painted, always_on, dropped>>

\* Left to the resync while one is pending; else painted even if the apply failed.
PickDuringResync ==
  /\ pass = "check" /\ ~io_ok /\ SpendKey("pick")
  /\ resync' = "apply"
  /\ UNCHANGED <<still, rest, unseen, wanted, painted, shows, pass, always_on, dropped>>

PickApplies ==
  /\ pass = "check" /\ io_ok /\ keyboard_left["pick"] > 0
  /\ rest' = 0
  /\ \/ painted' = wanted /\ shows' = wanted /\ dropped' = FALSE
     \/ painted' = NotPainted /\ shows' \in Woken /\ UNCHANGED dropped
  /\ resync' \in {"none", "apply"}
  /\ keyboard_left' = [keyboard_left EXCEPT !["pick"] = @ - 1]
  /\ UNCHANGED <<still, unseen, wanted, pass, always_on>>

\* Whatever the check decided about the laptop.
WakeCheckPaints ==
  /\ pass = "check" /\ io_ok
  /\ pass' = "input"
  /\ paint_keyboard(TRUE)
  /\ UNCHANGED <<still, unseen, wanted, resync, always_on>>

NoWakeCheck ==
  /\ pass = "check"
  /\ pass' = "input"
  /\ UNCHANGED <<still, rest, unseen, wanted, painted, shows, resync, always_on, dropped,
                 keyboard_left>>

\* Mutant: the frame is taken to be there still.
PaintsIfOther == paint_keyboard(FALSE)

Repaints == paint_keyboard(TRUE)

Paused == unseen >= KEYBOARD_FADE

SeesPause ==
  /\ pass = "input" /\ Paused /\ io_ok
  /\ pass' = "keep" /\ unseen' = 0
  /\ Repaints
  /\ UNCHANGED <<still, wanted, resync, always_on>>

SeesInput ==
  /\ pass = "input" /\ ~(Paused /\ io_ok)
  /\ pass' = "keep" /\ unseen' = 0
  /\ dropped' = (dropped \/ Paused)
  /\ UNCHANGED <<still, rest, wanted, painted, shows, resync, always_on, keyboard_left>>

\* Every few seconds while the display is on.
KeepAlive ==
  /\ pass = "keep" /\ io_ok /\ always_on
  /\ pass' = "poll"
  /\ rest' = 0 /\ shows' \in Woken
  /\ UNCHANGED <<still, unseen, wanted, painted, resync, always_on, dropped, keyboard_left>>

NoKeepAlive ==
  /\ pass = "keep"
  /\ pass' = "poll"
  /\ UNCHANGED <<still, rest, unseen, wanted, painted, shows, resync, always_on, dropped,
                 keyboard_left>>

\* The reading that follows may fail, which starts a probe.
Poll ==
  /\ pass = "poll" /\ io_ok
  /\ pass' = "sync"
  /\ paint_keyboard(FALSE)
  /\ resync' \in {"none", "probe"}
  /\ UNCHANGED <<still, unseen, wanted, always_on>>

NoPoll ==
  /\ pass = "poll"
  /\ pass' = "sync"
  /\ UNCHANGED <<still, rest, unseen, wanted, painted, shows, resync, always_on, dropped,
                 keyboard_left>>

KeyboardNext ==
  \/ Second \/ Input \/ Standby \/ Look
  \/ NothingPending \/ ResyncApplies \/ ResyncProbes \/ ResyncFails
  \/ PickDuringResync \/ PickApplies
  \/ WakeCheckPaints \/ NoWakeCheck \/ SeesPause \/ SeesInput
  \/ KeepAlive \/ NoKeepAlive \/ Poll \/ NoPoll

-----------------------------------------------------------------------------

\* What the keyboard shows is the frame sent last, unless it has been still long enough for
\* the next input to be seen as one after a pause, such an input is about to be seen, or one
\* found a resync pending (the repaint in the event loop).
KnowsWhatShows ==
  painted # NotPainted /\ shows # painted =>
    still >= KEYBOARD_FADE \/ unseen >= KEYBOARD_FADE \/ dropped
===============================================================================
