-------------------------------- MODULE Desktop --------------------------------
(***************************************************************************)
(* What the tray does with Windows beside the EC: the power mode slider,   *)
(* wakes, the keyboard color and the tooltip's readings.  The four share   *)
(* no variable, so a behaviour that takes the steps of one of them and     *)
(* leaves the others where they began shows all there is to see.           *)
(***************************************************************************)
EXTENDS PowerMode, Wake, Keyboard, Telemetry

CONSTANT Parts      \* the parts whose behaviours are looked at

ASSUME DesktopAssumption == Parts \subseteq {"power mode", "wake", "keyboard", "telemetry"}

VARIABLE part       \* whose steps are taken

desktop_vars == <<part, power_vars, wake_vars, keyboard_vars, telemetry_vars>>

TypeOK ==
  /\ part \in Parts
  /\ PowerTypeOK /\ WakeTypeOK /\ KeyboardTypeOK /\ TelemetryTypeOK

Init ==
  /\ part \in Parts
  /\ PowerInit /\ WakeInit /\ KeyboardInit /\ TelemetryInit

Next ==
  /\ part' = part
  /\ \/ /\ part = "power mode" /\ PowerNext
        /\ UNCHANGED <<wake_vars, keyboard_vars, telemetry_vars>>
     \/ /\ part = "wake" /\ WakeNext
        /\ UNCHANGED <<power_vars, keyboard_vars, telemetry_vars>>
     \/ /\ part = "keyboard" /\ KeyboardNext
        /\ UNCHANGED <<power_vars, wake_vars, telemetry_vars>>
     \/ /\ part = "telemetry" /\ TelemetryNext
        /\ UNCHANGED <<power_vars, wake_vars, keyboard_vars>>

\* The loop keeps passing, a resync that can succeed does, and a check's time comes.
Fairness ==
  /\ WF_wake_vars(part = "wake" /\ SyncStep)
  /\ WF_wake_vars(part = "wake" /\ TakeWake)
  /\ WF_wake_vars(part = "wake" /\ NoCheckYet)
  /\ SF_wake_vars(part = "wake" /\ RunCheck)

Spec == Init /\ [][Next]_desktop_vars /\ Fairness
===============================================================================
