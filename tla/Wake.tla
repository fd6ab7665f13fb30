--------------------------------- MODULE Wake ---------------------------------
(***************************************************************************)
(* What tells the tray of a wake, and the checks that follow.  A hidden    *)
(* window on a thread of its own is told when the display goes off or on   *)
(* and when the machine resumes, and leaves one signal; the event loop     *)
(* takes it and schedules two checks, which wait for a resync to end.      *)
(***************************************************************************)
EXTENDS Naturals

CONSTANT WakeBudget      \* how often each outside event happens

WakeEvent == {"off", "on", "resume", "resync"}

ASSUME WakeAssumption == WakeBudget \in [WakeEvent -> Nat]

WakeSource == {"resume", "display"}
Age == {"none", "short", "long"}

VARIABLES
  dark,            \* how long the display has been off
  DISPLAY_ON, DISPLAY_OFF_AT, WAKE,   \* the window's statics; the time as an age
  registered,      \* what the window is told of
  wake_checks,     \* checks scheduled, by what woke the machine
  needs_sync,      \* a resync is pending
  wake_pass,       \* where the event loop is in its pass
  owed,            \* checks that the signals so far still owe
  wake_left        \* what is left of WakeBudget

window == <<DISPLAY_ON, DISPLAY_OFF_AT, WAKE, registered>>
wake_vars == <<dark, window, wake_checks, needs_sync, wake_pass, owed, wake_left>>

WakeTypeOK ==
  /\ dark \in Age /\ DISPLAY_ON \in BOOLEAN /\ DISPLAY_OFF_AT \in Age
  /\ WAKE \in WakeSource \cup {"none"}
  /\ registered \subseteq WakeSource
  /\ wake_checks \in [WakeSource -> 0 .. 2] /\ owed \in [WakeSource -> 0 .. 2]
  /\ needs_sync \in BOOLEAN
  /\ wake_pass \in {"sync", "wake", "check"}
  /\ wake_left \in [WakeEvent -> Nat]

\* The two registrations are independent; with neither there is nothing to take.
WakeInit ==
  /\ dark = "none" /\ DISPLAY_ON = TRUE /\ DISPLAY_OFF_AT = "none" /\ WAKE = "none"
  /\ registered \in {WakeSource, {"display"}, {"resume"}}
  /\ wake_checks = [source \in WakeSource |-> 0] /\ owed = wake_checks
  /\ needs_sync = FALSE /\ wake_pass = "sync"
  /\ wake_left = WakeBudget

SpendWake(what) ==
  /\ wake_left[what] > 0
  /\ wake_left' = [wake_left EXCEPT ![what] = @ - 1]

-----------------------------------------------------------------------------
(* The window's messages, each handled on its thread.                       *)

\* The minute after which a display that comes back counts as a wake.
MinutePasses ==
  /\ dark = "short" /\ dark' = "long"
  /\ DISPLAY_OFF_AT' = IF DISPLAY_OFF_AT = "short" THEN "long" ELSE DISPLAY_OFF_AT
  /\ UNCHANGED <<DISPLAY_ON, WAKE, registered, wake_checks, needs_sync, wake_pass, owed, wake_left>>

\* Repeated while off, it keeps the time of the first.
DisplayOff ==
  /\ "display" \in registered /\ SpendWake("off")
  /\ DISPLAY_ON' = FALSE
  /\ DISPLAY_OFF_AT' = IF DISPLAY_ON THEN "short" ELSE DISPLAY_OFF_AT
  /\ dark' = IF dark = "none" THEN "short" ELSE dark
  /\ UNCHANGED <<WAKE, registered, wake_checks, needs_sync, wake_pass, owed>>

\* On, or dimmed; it does not replace a resume that is still to be taken.
DisplayOn ==
  /\ "display" \in registered /\ SpendWake("on")
  /\ DISPLAY_ON' = TRUE /\ DISPLAY_OFF_AT' = "none" /\ dark' = "none"
  /\ WAKE' = IF ~DISPLAY_ON /\ DISPLAY_OFF_AT = "long" /\ WAKE = "none" THEN "display" ELSE WAKE
  /\ owed' = IF dark = "long" /\ WAKE = "none" THEN [owed EXCEPT !["display"] = 2] ELSE owed
  /\ UNCHANGED <<registered, wake_checks, needs_sync, wake_pass>>

\* The automatic and the suspend message alike; it replaces a display that came back.
signal_resume ==
  /\ "resume" \in registered /\ SpendWake("resume")
  /\ WAKE' = "resume"
  /\ owed' = [owed EXCEPT !["resume"] = 2, !["display"] = IF WAKE = "display" THEN 0 ELSE @]
  /\ UNCHANGED <<dark, DISPLAY_ON, DISPLAY_OFF_AT, registered, wake_checks, needs_sync, wake_pass>>

-----------------------------------------------------------------------------
(* A pass of the event loop.                                                *)

\* Something in the pass may start a resync; the next ones retry it until it succeeds.
SyncStep ==
  /\ wake_pass = "sync" /\ wake_pass' = "wake"
  /\ \/ needs_sync' = FALSE /\ UNCHANGED wake_left
     \/ needs_sync' = TRUE /\ SpendWake("resync")
  /\ UNCHANGED <<dark, window, wake_checks, owed>>

\* Mutant: the checks of the other source go too.
OnlyThisWake == [source \in WakeSource |-> IF source = WAKE THEN 2 ELSE 0]

\* In place of those of an earlier wake from the same source.
Scheduled == [wake_checks EXCEPT ![WAKE] = 2]

TakeWake ==
  /\ wake_pass = "wake" /\ wake_pass' = "check"
  /\ WAKE' = "none"
  /\ wake_checks' = IF WAKE = "none" THEN wake_checks ELSE Scheduled
  /\ UNCHANGED <<dark, DISPLAY_ON, DISPLAY_OFF_AT, registered, needs_sync, owed, wake_left>>

\* One a pass, once its time has come: 3 s or 15 s after the wake was taken.
RunCheck ==
  /\ wake_pass = "check" /\ wake_pass' = "sync"
  /\ ~needs_sync
  /\ \E source \in WakeSource :
       /\ wake_checks[source] > 0
       /\ wake_checks' = [wake_checks EXCEPT ![source] = @ - 1]
       /\ owed' = IF WAKE = source \/ owed[source] = 0 THEN owed
                  ELSE [owed EXCEPT ![source] = @ - 1]
  /\ UNCHANGED <<dark, window, needs_sync, wake_left>>

NoCheckYet ==
  /\ wake_pass = "check" /\ wake_pass' = "sync"
  /\ UNCHANGED <<dark, window, wake_checks, needs_sync, owed, wake_left>>

WakeNext ==
  \/ MinutePasses \/ DisplayOff \/ DisplayOn \/ signal_resume
  \/ SyncStep \/ TakeWake \/ RunCheck \/ NoCheckYet

-----------------------------------------------------------------------------

\* Every signal of the window, however it falls among others and among the loop's passes, is
\* followed by both checks of its kind, or was folded into a resume.
WakesChecked == \A source \in WakeSource : owed[source] > 0 ~> owed[source] = 0
===============================================================================
