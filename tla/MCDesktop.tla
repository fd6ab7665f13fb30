------------------------------- MODULE MCDesktop -------------------------------
(* Values for the constants of Desktop in its runs. *)
EXTENDS Desktop

AllParts == {"power mode", "wake", "keyboard", "telemetry"}
OnlyPowerMode == {"power mode"}

\* The slider twice out of the tray's hands, over a crash and a refusal.
MCPerfModes == {"Silent", "Custom"}
MCSliderBudget ==
  [event \in SliderEvent |-> IF event \in {"toggle", "plug"} THEN 2 ELSE 1]
ResetBudget == [event \in SliderEvent |-> IF event \in {"toggle", "reset"} THEN 1 ELSE 0]

\* Two of every signal, and of resyncs in their way.
MCWakeBudget == [event \in WakeEvent |-> 2]

\* A full charge, which lights all ten keys.
MCLevels == {[percent |-> 100, charging |-> FALSE]}
MCKeyboardBudget == [event \in KeyboardEvent |-> IF event = "input" THEN 2 ELSE 1]

\* Sliders begin where matching may put them, or where it never does.  A part that is not
\* looked at has one initial state.
MCInit ==
  /\ Init
  /\ \A source \in Plugged : slider[source] # "Best power efficiency"
  /\ part # "power mode" =>
       plugged /\ ac_power /\ slider = [source \in Plugged |-> "Balanced"]
  /\ part # "wake" => registered = WakeSource
  /\ part # "keyboard" => ~always_on
  /\ part # "telemetry" => ~stopped

MCSpec == MCInit /\ [][Next]_desktop_vars /\ Fairness
===============================================================================
