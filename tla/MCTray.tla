-------------------------------- MODULE MCTray --------------------------------
(* Values for the constants of Tray in its runs. *)
EXTENDS Tray

MCLogo == {"off"}
MCEffect == {"none"}
MCBrightness == {0, 1}
MCOneBrightness == {0}
MCColor == {NoColor}

\* A failing apply has written nothing, the perf mode alone, or everything.
MCPartials == {{}, {"perf"}, Writes}

\* A laptop somebody set up before: the perf mode, and a manual fan below the floor.
MCEc(perf) ==
  [perf_mode |-> perf, max_fan |-> FALSE, fan_speed |-> ManualFan(800), logo_mode |-> "off",
   keyboard_brightness |-> 0, keyboard_effect |-> "none", keyboard_color |-> NoColor]
LaptopEc == {MCEc("Silent")}

NoEvents == [e \in Event |-> 0]
SceneOf(saved, readable, named, events) ==
  [config |-> saved, parses |-> readable, told |-> named, budget |-> events]

\* Installed today: both profiles wait for a reading.
FirstRunScenes ==
  {SceneOf(FirstRun, readable, TRUE,
           [NoEvents EXCEPT !["pick"] = 1, !["toggle"] = 1, !["plug"] = 1, !["extern"] = 1,
                            !["bus"] = 1, !["break"] = 1, !["reset"] = 1]) :
     readable \in BOOLEAN}

\* In use: profiles set, and a rule for a game, with one for a movie on AC behind it.
\* Windows names the power source only after the tray has started.
Forces(perf) == [f \in {"perf_mode"} |-> perf]
GameRule == [processes |-> {"game"}, enabled |-> TRUE, priority |-> 1,
             require_ac |-> Source, sets |-> Forces("Custom")]
MovieRule == [processes |-> {"movie", "game"}, enabled |-> TRUE, priority |-> 0,
              require_ac |-> {"ac"}, sets |-> Forces("Silent")]
WithRules == [DefaultConfig EXCEPT !.app_profiles = <<MovieRule, GameRule>>]
OtherRules == {<<MovieRule>>}
ActionsScenes ==
  {SceneOf(WithRules, TRUE, FALSE,
           [NoEvents EXCEPT !["pick"] = 1, !["plug"] = 1, !["process"] = 2,
                            !["edit"] = 1, !["tell"] = 1, !["bus"] = 1])}
UseScenes == FirstRunScenes \cup ActionsScenes

\* The same with the hotkey: what a cycle saves once a session has ended.
CycleScenes ==
  {SceneOf(WithRules, TRUE, TRUE,
           [NoEvents EXCEPT !["click"] = 1, !["process"] = 2, !["bus"] = 1])}

\* A new install with the game's rule: an Action runs while the battery profile waits.
AdoptsActionScenes ==
  {SceneOf([FirstRun EXCEPT !.app_profiles = <<GameRule>>], TRUE, TRUE,
           [NoEvents EXCEPT !["plug"] = 1, !["process"] = 1])}

\* A new install, unplugged and replugged, on a bus that fails; or profiles in use, and a
\* click that moves on to Hyperboost, which the EC acknowledges and ignores.
LiveScenes ==
  {SceneOf(FirstRun, TRUE, TRUE,
           [NoEvents EXCEPT !["pick"] = 1, !["plug"] = 1, !["bus"] = 2, !["kill"] = 1]),
   SceneOf(DefaultConfig, TRUE, TRUE,
           [NoEvents EXCEPT !["pick"] = 1, !["click"] = 1, !["bus"] = 1, !["reject"] = 1,
                            !["wake"] = 1, !["crash"] = 1])}
===============================================================================
