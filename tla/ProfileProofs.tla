---------------------------- MODULE ProfileProofs ----------------------------
(* What the pure functions of Profile guarantee for every fan range, setting and rule. *)
EXTENDS Profile, TLAPS

LEMMA Quotient ==
  ASSUME NEW a \in Nat, NEW q \in Nat, q * 100 <= a, a < q * 100 + 100
  PROVE  a \div 100 = q
  OBVIOUS

\* A fan speed rounded to what the wire carries stays there: clamping it up to a floor that
\* is no multiple of 100 and rounding again gives the same value.
LEMMA SnappedIdempotent ==
  ASSUME NEW rpm \in Nat
  PROVE  Snapped(rpm) \in Nat /\ Snapped(Snapped(rpm)) = Snapped(rpm)
<1>1. Clamped(rpm) \in Nat /\ MinRpm <= Clamped(rpm) /\ Clamped(rpm) <= MaxRpm
  BY RangeAssumption DEF Clamped
<1> DEFINE c == Clamped(rpm)
           s == (c \div 100) * 100
<1>2. s \in Nat /\ s <= c /\ c < s + 100
  BY <1>1
<1>3. CASE s >= MinRpm
  <2>1. Clamped(s) = s
    BY <1>1, <1>2, <1>3, RangeAssumption DEF Clamped
  <2>2. s \div 100 = c \div 100
    BY <1>1, <1>2
  <2> QED
    BY <1>2, <2>1, <2>2 DEF Snapped
<1>4. CASE s < MinRpm
  <2>1. Clamped(s) = MinRpm
    BY <1>1, <1>2, <1>4, RangeAssumption DEF Clamped
  <2>2. MinRpm \div 100 = c \div 100
    <3> DEFINE q == c \div 100
    <3>1. q \in Nat /\ q * 100 <= MinRpm /\ MinRpm < q * 100 + 100
      BY <1>1, <1>2, <1>4, RangeAssumption
    <3> HIDE DEF q
    <3>2. MinRpm \div 100 = q
      BY <3>1, Quotient, RangeAssumption
    <3> QED
      BY <3>2 DEF q
  <2> QED
    BY <1>2, <2>1, <2>2 DEF Snapped
<1> QED
  BY <1>2, <1>3, <1>4, RangeAssumption

-----------------------------------------------------------------------------
(* normalized *)

LEMMA NormalizedType ==
  ASSUME NEW s \in DeviceState
  PROVE  normalized(s) \in DeviceState
<1>1. s.fan_speed.rpm \in Nat
  BY DEF DeviceState, FanSpeed
<1>2. Snapped(s.fan_speed.rpm) \in Nat
  BY <1>1, SnappedIdempotent
<1> QED
  BY <1>1, <1>2 DEF normalized, DeviceState, FanSpeed, ManualFan

\* A state the EC can hold is left as it is, so the intent and the target cannot chase each
\* other from one pass to the next (target, update_transient).
THEOREM NormalizedIdempotent ==
  ASSUME NEW s \in DeviceState
  PROVE  normalized(normalized(s)) = normalized(s)
<1> DEFINE f == s.fan_speed
<1>1. f.rpm \in Nat /\ f \in FanSpeed
  BY DEF DeviceState, FanSpeed
<1>2. Snapped(f.rpm) \in Nat /\ Snapped(Snapped(f.rpm)) = Snapped(f.rpm)
  BY <1>1, SnappedIdempotent
<1>3. CASE f.mode = "Manual"
  BY <1>1, <1>2, <1>3 DEF normalized, DeviceState, ManualFan
<1>4. CASE f.mode # "Manual"
  BY <1>4 DEF normalized, DeviceState
<1> QED
  BY <1>3, <1>4

LEMMA MaxFanOnlyInCustom ==
  ASSUME NEW s \in DeviceState, normalized(s) = s, s.max_fan
  PROVE  s.perf_mode = "Custom"
BY DEF normalized, DeviceState

-----------------------------------------------------------------------------
(* carry_changes and overlay *)

LEMMA CarryType ==
  ASSUME NEW base \in DeviceState, NEW before \in DeviceState, NEW after \in DeviceState
  PROVE  carry_changes(base, before, after) \in DeviceState
BY DEF carry_changes, Carried, DeviceState

\* A menu left as it was carries nothing into the profile, however far an Action's overlay
\* is from it.
THEOREM UnchangedCarriesNothing ==
  ASSUME NEW base \in DeviceState, NEW menu \in DeviceState
  PROVE  carry_changes(base, menu, menu) = base
BY DEF carry_changes, Carried, DeviceState

LEMMA OverlayType ==
  ASSUME NEW rule, IsRule(rule), NEW base \in DeviceState
  PROVE  overlay(rule, base) \in DeviceState
<1>1. \A f \in DOMAIN rule.sets : f \in DOMAIN Forced /\ rule.sets[f] \in Forced[f]
  BY DEF IsRule
<1>2. /\ Forced["perf_mode"] = PerfMode /\ Forced["max_fan"] = BOOLEAN
      /\ Forced["fan_speed"] = FanSpeed /\ Forced["logo_mode"] = Logo
      /\ Forced["keyboard_effect"] = Effect /\ Forced["keyboard_color"] = Color
  BY DEF Forced
<1>3. /\ base.perf_mode \in PerfMode /\ base.max_fan \in BOOLEAN /\ base.fan_speed \in FanSpeed
      /\ base.logo_mode \in Logo /\ base.keyboard_effect \in Effect
      /\ base.keyboard_color \in Color /\ base.keyboard_brightness \in Brightness
  BY DEF DeviceState
<1>4. /\ Sets(rule, "perf_mode", base.perf_mode) \in PerfMode
      /\ Sets(rule, "max_fan", base.max_fan) \in BOOLEAN
      /\ Sets(rule, "fan_speed", base.fan_speed) \in FanSpeed
      /\ Sets(rule, "logo_mode", base.logo_mode) \in Logo
      /\ Sets(rule, "keyboard_effect", base.keyboard_effect) \in Effect
      /\ Sets(rule, "keyboard_color", NoColor) \in Color
      /\ Sets(rule, "keyboard_color", base.keyboard_color) \in Color
  BY <1>1, <1>2, <1>3, SettingAssumption DEF Sets
<1> QED
  BY <1>3, <1>4 DEF overlay, DeviceState

LEMMA SeedType ==
  ASSUME NEW rule, IsRule(rule), NEW base \in DeviceState
  PROVE  Seed(rule, base) \in DeviceState
BY OverlayType, NormalizedType DEF Seed

LEMMA SeedNormalized ==
  ASSUME NEW rule, IsRule(rule), NEW base \in DeviceState
  PROVE  normalized(Seed(rule, base)) = Seed(rule, base)
BY OverlayType, NormalizedIdempotent DEF Seed

LEMMA PowerChangedType ==
  ASSUME NEW rule, IsRule(rule), NEW effective \in DeviceState,
         NEW old_base \in DeviceState, NEW new_base \in DeviceState
  PROVE  power_changed(rule, effective, old_base, new_base) \in DeviceState
<1>1. Seed(rule, new_base) \in DeviceState /\ Seed(rule, old_base) \in DeviceState
  BY SeedType
<1> QED
  BY <1>1, CarryType, NormalizedType DEF power_changed

\* A session nobody picked anything in moves to exactly what it would have started as on
\* the new power source (ActionSession::power_changed).
THEOREM UntouchedSessionReseeds ==
  ASSUME NEW rule, IsRule(rule), NEW old_base \in DeviceState, NEW new_base \in DeviceState
  PROVE  power_changed(rule, Seed(rule, old_base), old_base, new_base) = Seed(rule, new_base)
<1>1. Seed(rule, new_base) \in DeviceState /\ Seed(rule, old_base) \in DeviceState
      /\ overlay(rule, new_base) \in DeviceState
  BY SeedType, OverlayType
<1>2. carry_changes(Seed(rule, new_base), Seed(rule, old_base), Seed(rule, old_base))
        = Seed(rule, new_base)
  BY <1>1, UnchangedCarriesNothing
<1>3. normalized(Seed(rule, new_base)) = Seed(rule, new_base)
  BY <1>1, NormalizedIdempotent DEF Seed
<1> QED
  BY <1>2, <1>3 DEF power_changed

\* A mode picked during a session outlasts a charger event if the old source's profile would
\* not have given it anyway.
LEMMA PickedModeCarried ==
  ASSUME NEW rule, IsRule(rule), NEW effective \in DeviceState,
         NEW old_base \in DeviceState, NEW new_base \in DeviceState
  PROVE  power_changed(rule, effective, old_base, new_base).perf_mode =
           Carried(Seed(rule, new_base).perf_mode, Seed(rule, old_base).perf_mode,
                   effective.perf_mode)
<1>1. Seed(rule, new_base) \in DeviceState /\ Seed(rule, old_base) \in DeviceState
  BY SeedType
<1> DEFINE c == carry_changes(Seed(rule, new_base), Seed(rule, old_base), effective)
<1>2. c \in DeviceState
  BY <1>1, CarryType
<1>3. c.perf_mode = Carried(Seed(rule, new_base).perf_mode, Seed(rule, old_base).perf_mode,
                            effective.perf_mode)
  BY DEF carry_changes
<1> HIDE DEF c
<1>4. normalized(c).perf_mode = c.perf_mode
  BY <1>2 DEF normalized, DeviceState
<1> QED
  BY <1>3, <1>4 DEF power_changed, c

\* Unplugged and plugged in again, a session is back in the mode the user picked, but for one
\* case: a pick that is the mode the other source's profile gives is no longer told from that
\* profile there, and comes back as this source's (ActionSession::power_changed).
THEOREM OnlyCoincidingPickLost ==
  ASSUME NEW rule, IsRule(rule), NEW effective \in DeviceState,
         NEW base \in DeviceState, NEW other_base \in DeviceState
  PROVE  LET there == power_changed(rule, effective, base, other_base)
         IN  power_changed(rule, there, other_base, base).perf_mode =
               IF effective.perf_mode = Seed(rule, other_base).perf_mode
               THEN Seed(rule, base).perf_mode ELSE effective.perf_mode
<1> DEFINE there == power_changed(rule, effective, base, other_base)
<1>1. there \in DeviceState
  BY PowerChangedType
<1>2. there.perf_mode = Carried(Seed(rule, other_base).perf_mode, Seed(rule, base).perf_mode,
                                effective.perf_mode)
  BY PickedModeCarried
<1> HIDE DEF there
<1>3. power_changed(rule, there, other_base, base).perf_mode =
        Carried(Seed(rule, base).perf_mode, Seed(rule, other_base).perf_mode, there.perf_mode)
  BY <1>1, PickedModeCarried
<1> QED
  BY <1>2, <1>3 DEF Carried, there

\* The same of the fan, which normalized rounds on the way: a fan picked in a session, as the
\* session holds it, is the same speed again unless the other source's profile gives it too.
LEMMA PickedFanCarried ==
  ASSUME NEW rule, IsRule(rule), NEW effective \in DeviceState,
         normalized(effective) = effective,
         NEW old_base \in DeviceState, NEW new_base \in DeviceState
  PROVE  power_changed(rule, effective, old_base, new_base).fan_speed =
           Carried(Seed(rule, new_base).fan_speed, Seed(rule, old_base).fan_speed,
                   effective.fan_speed)
<1> DEFINE S == Seed(rule, new_base)
           c == carry_changes(S, Seed(rule, old_base), effective)
           Held(f) == IF f.mode = "Manual" THEN ManualFan(Snapped(f.rpm)) ELSE f
<1>1. S \in DeviceState /\ Seed(rule, old_base) \in DeviceState /\ normalized(S) = S
  BY SeedType, SeedNormalized
<1>2. c \in DeviceState
  BY <1>1, CarryType
<1>3. \A s \in DeviceState : normalized(s).fan_speed = Held(s.fan_speed)
  BY DEF normalized, DeviceState
<1>4. Held(effective.fan_speed) = effective.fan_speed /\ Held(S.fan_speed) = S.fan_speed
  BY <1>1, <1>3
<1>5. c.fan_speed = Carried(S.fan_speed, Seed(rule, old_base).fan_speed, effective.fan_speed)
  BY DEF carry_changes
<1>6. Held(c.fan_speed) = c.fan_speed
  BY <1>4, <1>5 DEF Carried
<1>7. power_changed(rule, effective, old_base, new_base) = normalized(c)
  BY DEF power_changed
<1> QED
  BY <1>2, <1>3, <1>5, <1>6, <1>7

LEMMA PickedMaxFanCarried ==
  ASSUME NEW rule, IsRule(rule), NEW effective \in DeviceState,
         NEW old_base \in DeviceState, NEW new_base \in DeviceState
  PROVE  LET changed == power_changed(rule, effective, old_base, new_base)
         IN  changed.max_fan =
               (/\ Carried(Seed(rule, new_base).max_fan, Seed(rule, old_base).max_fan,
                           effective.max_fan)
                /\ changed.perf_mode = "Custom")
<1> DEFINE c == carry_changes(Seed(rule, new_base), Seed(rule, old_base), effective)
<1>1. Seed(rule, new_base) \in DeviceState /\ Seed(rule, old_base) \in DeviceState
  BY SeedType
<1>2. c \in DeviceState
  BY <1>1, CarryType
<1>3. c.max_fan = Carried(Seed(rule, new_base).max_fan, Seed(rule, old_base).max_fan,
                          effective.max_fan)
  BY DEF carry_changes
<1> HIDE DEF c
<1>4. normalized(c).max_fan = (c.max_fan /\ c.perf_mode = "Custom")
      /\ normalized(c).perf_mode = c.perf_mode
  BY <1>2 DEF normalized, DeviceState
<1> QED
  BY <1>3, <1>4 DEF power_changed, c

\* Unplugged and plugged in again, a fan speed picked in a session is back, not rounded anew,
\* unless it is the one the other source's profile gives (ActionSession::power_changed).
THEOREM OnlyCoincidingFanLost ==
  ASSUME NEW rule, IsRule(rule), NEW effective \in DeviceState,
         normalized(effective) = effective,
         NEW base \in DeviceState, NEW other_base \in DeviceState
  PROVE  LET there == power_changed(rule, effective, base, other_base)
         IN  power_changed(rule, there, other_base, base).fan_speed =
               IF effective.fan_speed = Seed(rule, other_base).fan_speed
               THEN Seed(rule, base).fan_speed ELSE effective.fan_speed
<1> DEFINE there == power_changed(rule, effective, base, other_base)
<1>1. there \in DeviceState /\ normalized(there) = there
  BY PowerChangedType, SeedType, CarryType, NormalizedIdempotent DEF power_changed
<1>2. there.fan_speed = Carried(Seed(rule, other_base).fan_speed, Seed(rule, base).fan_speed,
                                effective.fan_speed)
  BY PickedFanCarried
<1> HIDE DEF there
<1>3. power_changed(rule, there, other_base, base).fan_speed =
        Carried(Seed(rule, base).fan_speed, Seed(rule, other_base).fan_speed, there.fan_speed)
  BY <1>1, PickedFanCarried
<1> QED
  BY <1>2, <1>3 DEF Carried, there

\* Max Fan is only in Custom, so a charger event takes it away with the mode: picked in a
\* session, it is back after one and its reverse exactly if the rule gives Custom on both
\* sources or on neither, and not Max Fan on the other (ActionSession::power_changed).
THEOREM MaxFanPickKept ==
  ASSUME NEW rule, IsRule(rule), NEW effective \in DeviceState,
         normalized(effective) = effective,
         NEW base \in DeviceState, NEW other_base \in DeviceState,
         effective.max_fan, ~Seed(rule, base).max_fan
  PROVE  LET there == power_changed(rule, effective, base, other_base)
             here == Seed(rule, base)
             other == Seed(rule, other_base)
         IN  power_changed(rule, there, other_base, base).max_fan <=>
               /\ here.perf_mode = "Custom" <=> other.perf_mode = "Custom"
               /\ ~other.max_fan
<1> DEFINE there == power_changed(rule, effective, base, other_base)
           back == power_changed(rule, there, other_base, base)
           here == Seed(rule, base)
           other == Seed(rule, other_base)
<1>1. /\ here \in DeviceState /\ normalized(here) = here
      /\ other \in DeviceState /\ normalized(other) = other
  BY SeedType, SeedNormalized
<1>2. effective.perf_mode = "Custom" /\ (other.max_fan => other.perf_mode = "Custom")
  BY <1>1, MaxFanOnlyInCustom
<1>3. there \in DeviceState /\ back \in DeviceState
  BY PowerChangedType
<1>4. there.perf_mode = Carried(other.perf_mode, here.perf_mode, effective.perf_mode)
  BY PickedModeCarried
<1>5. there.max_fan = (/\ Carried(other.max_fan, here.max_fan, effective.max_fan)
                       /\ there.perf_mode = "Custom")
  BY PickedMaxFanCarried
<1>6. back.perf_mode = Carried(here.perf_mode, other.perf_mode, there.perf_mode)
  BY <1>3, PickedModeCarried
<1>7. back.max_fan = (/\ Carried(here.max_fan, other.max_fan, there.max_fan)
                      /\ back.perf_mode = "Custom")
  BY <1>3, PickedMaxFanCarried
<1>8. /\ here.max_fan = FALSE /\ effective.max_fan = TRUE
      /\ other.max_fan \in BOOLEAN /\ there.max_fan \in BOOLEAN /\ back.max_fan \in BOOLEAN
  BY <1>1, <1>3 DEF DeviceState
<1> HIDE DEF there, back, here, other
<1>9. there.max_fan = (there.perf_mode = "Custom")
  BY <1>5, <1>8 DEF Carried
<1>10. there.perf_mode = "Custom" <=> (here.perf_mode # "Custom" \/ other.perf_mode = "Custom")
  BY <1>2, <1>4 DEF Carried
<1>11. back.max_fan <=> /\ here.perf_mode = "Custom" <=> other.perf_mode = "Custom"
                        /\ ~other.max_fan
  <2>1. CASE there.perf_mode = "Custom"
    BY <1>2, <1>6, <1>7, <1>8, <1>9, <1>10, <2>1 DEF Carried
  <2>2. CASE there.perf_mode # "Custom"
    BY <1>2, <1>6, <1>7, <1>8, <1>9, <1>10, <2>2 DEF Carried
  <2> QED
    BY <2>1, <2>2
<1> QED
  BY <1>11 DEF there, back, here, other

LEMMA MatchingType ==
  ASSUME NEW rules, NEW running, NEW source
  PROVE  \/ matching_app_profile(rules, running, source) = 0
         \/ matching_app_profile(rules, running, source) \in DOMAIN rules
BY DEF matching_app_profile

LEMMA MatchingIntentType ==
  ASSUME NEW intent \in DeviceState, NEW reading \in DeviceState
  PROVE  matching_intent(intent, reading) \in DeviceState
BY DEF matching_intent, DeviceState

=============================================================================
