------------------------------- MODULE Profile -------------------------------
(***************************************************************************)
(* The values the tray computes with, and the pure functions it computes   *)
(* with them: librazer's DeviceState, AppProfile and ActionSession, and    *)
(* the decisions of observe.rs.                                            *)
(*                                                                         *)
(* A DeviceState has ten settings in the code.  The model keeps one of     *)
(* each kind the properties tell apart:                                    *)
(*   perf_mode, max_fan, fan_speed  tied together by normalized            *)
(*   logo_mode            enforced and nothing else (battery_care, too)    *)
(*   keyboard_brightness  written, but adopted from a reading on drift     *)
(*   keyboard_effect      written, never enforced                          *)
(*   keyboard_color       kept in the intent only: it cannot be read back  *)
(*                        (display_refresh_hz, too)                        *)
(* The two boosts inside Custom are left out.                              *)
(***************************************************************************)
EXTENDS Integers, Sequences, FiniteSets

CONSTANTS
  MinRpm, MaxRpm,     \* fan_rpm_range of this chassis
  Logo, Brightness, Effect, Color,   \* the values of the plain settings
  NoColor             \* keyboard_color: None

ASSUME RangeAssumption == /\ MinRpm \in Nat
                          /\ MaxRpm \in Nat
                          /\ MinRpm <= MaxRpm
ASSUME SettingAssumption == /\ Logo # {} /\ Brightness # {} /\ Effect # {}
                            /\ NoColor \in Color

PerfMode == {"Battery", "Silent", "Balanced", "Performance", "Hyperboost", "Custom"}

AutoFan == [mode |-> "Auto", rpm |-> 0]
ManualFan(rpm) == [mode |-> "Manual", rpm |-> rpm]
FanSpeed == [mode : {"Auto", "Manual"}, rpm : Nat]

DeviceState ==
  [perf_mode : PerfMode, max_fan : BOOLEAN, fan_speed : FanSpeed, logo_mode : Logo,
   keyboard_brightness : Brightness, keyboard_effect : Effect, keyboard_color : Color]

Source == {"ac", "battery"}
OtherSource(s) == IF s = "ac" THEN "battery" ELSE "ac"

-----------------------------------------------------------------------------
(* DeviceState *)

\* What the cycle (left-click, hotkey) moves to after each mode.
next_perf_mode(p) ==
  CASE p = "Battery"     -> "Silent"
    [] p = "Silent"      -> "Balanced"
    [] p = "Balanced"    -> "Performance"
    [] p = "Performance" -> "Hyperboost"
    [] p = "Hyperboost"  -> "Custom"
    [] p = "Custom"      -> "Battery"

\* u16::clamp, then rounded down to the 100 RPM step the wire carries.
Clamped(rpm) == IF rpm < MinRpm THEN MinRpm ELSE IF rpm > MaxRpm THEN MaxRpm ELSE rpm
Snapped(rpm) == (Clamped(rpm) \div 100) * 100

\* The nearest state the EC can hold.
normalized(s) ==
  [s EXCEPT !.max_fan = @ /\ s.perf_mode = "Custom",
            !.fan_speed = IF @.mode = "Manual" THEN ManualFan(Snapped(@.rpm)) ELSE @]

\* One setting of carry_changes: after's where the user changed it, else base's.
Carried(base, before, after) == IF after # before THEN after ELSE base

\* Mutant: the overlay the menu was built from is saved wholesale.
CarryEverything(base, before, after) == after

carry_changes(base, before, after) ==
  [perf_mode |-> Carried(base.perf_mode, before.perf_mode, after.perf_mode),
   max_fan   |-> Carried(base.max_fan, before.max_fan, after.max_fan),
   fan_speed |-> Carried(base.fan_speed, before.fan_speed, after.fan_speed),
   logo_mode |-> Carried(base.logo_mode, before.logo_mode, after.logo_mode),
   keyboard_brightness |-> Carried(base.keyboard_brightness, before.keyboard_brightness,
                                   after.keyboard_brightness),
   keyboard_effect |-> Carried(base.keyboard_effect, before.keyboard_effect,
                               after.keyboard_effect),
   keyboard_color  |-> Carried(base.keyboard_color, before.keyboard_color,
                               after.keyboard_color)]

\* The settings Enforce owns differ: never the brightness, the effect or the color.
enforced_fields_differ(real, intended) ==
  \/ real.perf_mode # intended.perf_mode
  \/ real.fan_speed # intended.fan_speed
  \/ real.max_fan # intended.max_fan
  \/ real.logo_mode # intended.logo_mode

-----------------------------------------------------------------------------
(* AppProfile: an Action rule.  A rule is [processes, enabled, priority,     *)
(* require_ac, sets], where require_ac is the set of sources it may run on   *)
(* and sets maps the settings it forces to their values.                     *)

\* The settings a rule may force and their values, and what kind of rule a config holds.
Forced == [perf_mode |-> PerfMode, max_fan |-> BOOLEAN, fan_speed |-> FanSpeed,
           logo_mode |-> Logo, keyboard_effect |-> Effect, keyboard_color |-> Color]
IsRule(rule) ==
  /\ rule.enabled \in BOOLEAN /\ rule.priority \in Int /\ rule.require_ac \subseteq Source
  /\ \A f \in DOMAIN rule.sets : f \in DOMAIN Forced /\ rule.sets[f] \in Forced[f]

Sets(rule, f, otherwise) == IF f \in DOMAIN rule.sets THEN rule.sets[f] ELSE otherwise

\* A rule that sets an effect and no color clears the color, which would hide the effect.
overlay(rule, base) ==
  [perf_mode |-> Sets(rule, "perf_mode", base.perf_mode),
   max_fan   |-> Sets(rule, "max_fan", base.max_fan),
   fan_speed |-> Sets(rule, "fan_speed", base.fan_speed),
   logo_mode |-> Sets(rule, "logo_mode", base.logo_mode),
   keyboard_brightness |-> base.keyboard_brightness,
   keyboard_effect |-> Sets(rule, "keyboard_effect", base.keyboard_effect),
   keyboard_color  |-> Sets(rule, "keyboard_color",
                            IF "keyboard_effect" \in DOMAIN rule.sets
                            THEN NoColor ELSE base.keyboard_color)]

allowed_on(rule, source) == source \in rule.require_ac

matches(rule, running) == rule.processes \cap running # {}

\* The rule that should run: the highest priority, and the earliest in the file among
\* equals; 0 when none may.
matching_app_profile(rules, running, source) ==
  LET candidates == {i \in DOMAIN rules : /\ rules[i].enabled
                                          /\ allowed_on(rules[i], source)
                                          /\ matches(rules[i], running)}
      Wins(i, j) == \/ rules[i].priority > rules[j].priority
                    \/ rules[i].priority = rules[j].priority /\ i <= j
      best == {i \in candidates : \A j \in candidates : Wins(i, j)}
  IN IF best = {} THEN 0 ELSE CHOOSE i \in best : TRUE

-----------------------------------------------------------------------------
(* ActionSession: what the device should be in while a rule's process runs. *)

Seed(rule, base) == normalized(overlay(rule, base))

\* Re-seeded from the new source's profile, with what differs from the old seed carried.
power_changed(rule, effective, old_base, new_base) ==
  normalized(carry_changes(Seed(rule, new_base), Seed(rule, old_base), effective))

-----------------------------------------------------------------------------
(* observe.rs: what the tray may do with the device. *)

ConfigHealth == {"Usable", "Corrupt", "Unreadable"}
Mode == {"Apply", "Adopt", "Observe"}

\* unset is the set of sources whose profile waits for its first reading; source counts
\* only once Windows has named it (known).
mode(health, known, source, unset) ==
  CASE health # "Usable"                -> "Observe"
    [] health = "Usable" /\ ~known      -> IF unset # {} THEN "Observe" ELSE "Apply"
    [] health = "Usable" /\ known       -> IF source \in unset THEN "Adopt" ELSE "Apply"

\* The intent that matches a reading, keeping what a reading cannot report.
matching_intent(intent, observed) ==
  [observed EXCEPT !.keyboard_color = intent.keyboard_color]

\* Whether the read-back after a resync probe may write; before is the mode before it.
probe_may_write(before, enforce, diverged) == (enforce \/ diverged) /\ before = "Apply"
=============================================================================
