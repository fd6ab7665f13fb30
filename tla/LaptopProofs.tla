----------------------------- MODULE LaptopProofs -----------------------------
(***************************************************************************)
(* What holds of Laptop for any machines, settings, commands and faults.   *)
(***************************************************************************)
EXTENDS Laptop, TLAPS, SequenceTheorems, WellFoundedInduction

LOCAL INSTANCE FiniteSetsExt

-----------------------------------------------------------------------------
(* Commands *)

Arg == Value \cup Reg \cup {"held", "always", "actual", "temps", "power"}

\* A command that is skipped for a setting reads or writes that setting.
Commands ==
  { s \in [do : {"set", "get", "again", "hold", "custom", "confirm", "mode1", "mode2"},
           arg : Arg, val : Value, opt : Optional \cup {None},
           part : {None, "perf", "max", "fan", "logo", "effect", "bright", "care", "modes",
                   "cpu", "gpu", "point", "actual", "temps", "power", "always"},
           keep : {"stop", "any", "rejected", "ignore", "lists", "notes", "prints"},
           when : {None, "off", "Custom", "Manual", "differ", "boosted"}] :
      /\ s.do = "set" => s.arg \in Reg
      /\ s.do \in {"mode1", "mode2", "confirm"} => s.arg \in Value \cup {"held"}
      /\ s.opt # None => s.do \in {"set", "get", "again"} /\ OptionOf(s.arg) = s.opt }

PartNames ==
   {None, "perf", "max", "fan", "logo", "effect", "bright", "care", "modes",
                   "cpu", "gpu", "point", "actual", "temps", "power", "always"}

LEMMA ValueHas ==
  {None, "Auto", "Manual", "Custom", "Off", "On", "Disable", "0", "lie"} \subseteq Value
  BY LaptopAssumption

LEMMA DoTyped ==
  ASSUME NEW do \in {"set", "get", "again", "hold", "custom", "confirm", "mode1", "mode2"},
         NEW arg \in Arg, NEW val \in Value,
         do = "set" => arg \in Reg,
         do \in {"mode1", "mode2", "confirm"} => arg \in Value \cup {"held"}
  PROVE  Do(do, arg, val) \in Commands
  BY DEF Do, Commands, None

LEMMA MapTyped ==
  ASSUME NEW S, NEW T, NEW steps \in Seq(S), NEW f,
         f = [i \in DOMAIN steps |-> f[i]], \A i \in DOMAIN steps : f[i] \in T
  PROVE  f \in Seq(T) /\ Len(f) = Len(steps)
<1>1. DOMAIN steps = 1 .. Len(steps) /\ Len(steps) \in Nat
  OBVIOUS
<1>2. f \in [1 .. Len(steps) -> T]
  BY <1>1
<1> QED
  BY <1>1, <1>2, SeqDef

LEMMA ForTyped ==
  ASSUME NEW opt \in Optional, NEW steps \in Seq(Commands),
         \A i \in DOMAIN steps : /\ steps[i].do \in {"set", "get", "again"}
                                 /\ OptionOf(steps[i].arg) = opt
  PROVE  /\ For(opt, steps) \in Seq(Commands) /\ Len(For(opt, steps)) = Len(steps)
         /\ \A i \in DOMAIN steps : For(opt, steps)[i] = [steps[i] EXCEPT !.opt = opt]
<1>1. \A i \in DOMAIN steps : steps[i] \in Commands
  OBVIOUS
<1>2. \A i \in DOMAIN steps : [steps[i] EXCEPT !.opt = opt] \in Commands
  BY <1>1 DEF Commands
<1> QED
  BY <1>2, MapTyped DEF For

LEMMA PartTyped ==
  ASSUME NEW steps \in Seq(Commands), NEW part \in PartNames,
         NEW keep \in {"stop", "any", "rejected", "ignore", "lists", "notes", "prints"}
  PROVE  /\ Part(part, keep, steps) \in Seq(Commands) /\ Len(Part(part, keep, steps)) = Len(steps)
         /\ \A i \in DOMAIN steps :
              Part(part, keep, steps)[i] = [steps[i] EXCEPT !.part = part, !.keep = keep]
<1>1. \A i \in DOMAIN steps : steps[i] \in Commands
  OBVIOUS
<1>2. ASSUME NEW s \in Commands
      PROVE  [s EXCEPT !.part = part, !.keep = keep] \in Commands
  <2>1. [s EXCEPT !.part = part] \in Commands
    BY DEF Commands, PartNames
  <2>2. ASSUME NEW t \in Commands PROVE [t EXCEPT !.keep = keep] \in Commands
    BY DEF Commands
  <2> QED
    BY <2>1, <2>2
<1>3. \A i \in DOMAIN steps : [steps[i] EXCEPT !.part = part, !.keep = keep] \in Commands
  BY <1>1, <1>2
<1> QED
  BY <1>3, MapTyped DEF Part

LEMMA WhenTyped ==
  ASSUME NEW c \in {"Custom", "Manual", "differ", "boosted"}, NEW steps \in Seq(Commands)
  PROVE  /\ When(c, steps) \in Seq(Commands) /\ Len(When(c, steps)) = Len(steps)
<1>1. \A i \in DOMAIN steps : steps[i] \in Commands
  OBVIOUS
<1>2. ASSUME NEW s \in Commands
      PROVE  [s EXCEPT !.when = IF @ = None THEN c ELSE @] \in Commands
  <2>1. \A w \in {None, "off", "Custom", "Manual", "differ", "boosted"} :
          [s EXCEPT !.when = w] \in Commands
    BY DEF Commands
  <2>2. s.when \in {None, "off", "Custom", "Manual", "differ", "boosted"}
    BY DEF Commands
  <2>3. CASE s.when = None
    BY <2>1, <2>3
  <2>4. CASE s.when # None
    BY <2>1, <2>2, <2>4
  <2> QED
    BY <2>3, <2>4
<1>3. \A i \in DOMAIN steps : [steps[i] EXCEPT !.when = IF @ = None THEN c ELSE @] \in Commands
  BY <1>1, <1>2
<1> QED
  BY <1>3, MapTyped DEF When

LEMMA Atoms ==
  /\ Hold \in Commands /\ EnsureCustom \in Commands
  /\ \A reg \in Reg, val \in Value : Set(reg, val) \in Commands
  /\ \A reg \in Reg \cup {"always", "actual", "temps", "power"} : Get(reg) \in Commands
  /\ \A perf \in Value \cup {"held"}, fan \in Value :
       /\ Confirm(perf, fan) \in Commands
       /\ Do("mode1", perf, fan) \in Commands /\ Do("mode2", perf, fan) \in Commands
<1> USE ValueHas, DoTyped DEF Arg
<1>1. Hold \in Commands /\ EnsureCustom \in Commands
  BY DEF Hold, EnsureCustom
<1>2. \A reg \in Reg, val \in Value : Set(reg, val) \in Commands
  BY DEF Set
<1>3. \A reg \in Reg \cup {"always", "actual", "temps", "power"} : Get(reg) \in Commands
  BY DEF Get
<1>4. \A perf \in Value \cup {"held"}, fan \in Value :
        /\ Confirm(perf, fan) \in Commands
        /\ Do("mode1", perf, fan) \in Commands /\ Do("mode2", perf, fan) \in Commands
  BY DEF Confirm
<1> QED
  BY <1>1, <1>2, <1>3, <1>4

LEMMA ModesTyped ==
  ASSUME NEW perf \in Value \cup {"held"}, NEW fan \in Value
  PROVE  Modes(perf, fan) \in Seq(Commands) /\ Len(Modes(perf, fan)) = 2
  BY Atoms DEF Modes

LEMMA CareTyped ==
  /\ ReadCare \in Seq(Commands)
  /\ \A i \in DOMAIN ReadCare : ReadCare[i].do \in {"get", "again"} /\ ReadCare[i].arg = "care"
<1>1. [Do("again", "care", None) EXCEPT !.when = "off"] \in Commands
  <2>1. Do("again", "care", None) \in Commands
    BY ValueHas, DoTyped DEF Arg, Reg
  <2> QED
    BY <2>1 DEF Commands
<1>2. Get("care") \in Commands
  BY Atoms DEF Reg
<1>3. ReadCare \in Seq(Commands)
  BY <1>1, <1>2 DEF ReadCare
<1>4. ReadCare[1].do = "get" /\ ReadCare[1].arg = "care"
  BY DEF ReadCare, Get, Do
<1>5. ReadCare[2].do = "again" /\ ReadCare[2].arg = "care"
  BY DEF ReadCare, Get, Do
<1>6. DOMAIN ReadCare = {1, 2}
  BY DEF ReadCare
<1> QED
  BY <1>3, <1>4, <1>5, <1>6

LEMMA Joined ==
  ASSUME NEW S \in Seq(Commands), NEW T \in Seq(Commands)
  PROVE  S \o T \in Seq(Commands) /\ Len(S \o T) = Len(S) + Len(T)
  OBVIOUS

LEMMA FanTyped ==
  ASSUME NEW fan \in Value
  PROVE  /\ SetFanMode(fan) \in Seq(Commands) /\ Len(SetFanMode(fan)) = 3
         /\ SetFanModeConfirmed(fan) \in Seq(Commands) /\ Len(SetFanModeConfirmed(fan)) = 4
<1> DEFINE H == <<Hold>>
           C == <<Confirm("held", fan)>>
           M == Modes("held", fan)
<1>1. H \in Seq(Commands) /\ Len(H) = 1
  BY Atoms
<1>2. C \in Seq(Commands) /\ Len(C) = 1
  BY Atoms
<1>3. M \in Seq(Commands) /\ Len(M) = 2
  BY ModesTyped
<1>4. SetFanMode(fan) = H \o M /\ SetFanModeConfirmed(fan) = SetFanMode(fan) \o C
  BY DEF SetFanMode, SetFanModeConfirmed
<1> HIDE DEF H, C, M
<1>5. H \o M \in Seq(Commands) /\ Len(H \o M) = Len(H) + Len(M)
  BY <1>1, <1>3, Joined
<1>6. SetFanMode(fan) \in Seq(Commands) /\ Len(SetFanMode(fan)) = 3
  BY <1>1, <1>3, <1>4, <1>5
<1>7. SetFanMode(fan) \o C \in Seq(Commands) /\ Len(SetFanMode(fan) \o C) = Len(SetFanMode(fan)) + Len(C)
  BY <1>2, <1>6, Joined
<1> QED
  BY <1>2, <1>4, <1>6, <1>7

LEMMA WritesTyped ==
  /\ \A rpm \in Value : SetPoints(rpm) \in Seq(Commands) /\ Len(SetPoints(rpm)) = 2
  /\ \A cluster \in {"cpu", "gpu"}, boost \in Value :
       SetBoost(cluster, boost) \in Seq(Commands) /\ Len(SetBoost(cluster, boost)) = 2
  /\ \A max \in Value : SetMaxFan(max) \in Seq(Commands) /\ Len(SetMaxFan(max)) = 2
  /\ \A logo \in Value :
       /\ SetLogo(logo) \in Seq(Commands) /\ Len(SetLogo(logo)) >= 1
       /\ \A i \in DOMAIN SetLogo(logo) : /\ SetLogo(logo)[i].do = "set"
                                          /\ SetLogo(logo)[i].arg \in {"logo", "lit"}
<1> USE ValueHas, Atoms DEF Reg
<1>1. \A rpm \in Value : SetPoints(rpm) \in Seq(Commands) /\ Len(SetPoints(rpm)) = 2
  BY DEF SetPoints
<1>2. \A cluster \in {"cpu", "gpu"}, boost \in Value :
       SetBoost(cluster, boost) \in Seq(Commands) /\ Len(SetBoost(cluster, boost)) = 2
  BY DEF SetBoost
<1>3. \A max \in Value : SetMaxFan(max) \in Seq(Commands) /\ Len(SetMaxFan(max)) = 2
  BY DEF SetMaxFan
<1>4. ASSUME NEW logo \in Value
      PROVE  /\ SetLogo(logo) \in Seq(Commands) /\ Len(SetLogo(logo)) >= 1
             /\ \A i \in DOMAIN SetLogo(logo) : /\ SetLogo(logo)[i].do = "set"
                                                /\ SetLogo(logo)[i].arg \in {"logo", "lit"}
  <2>1. CASE logo = "Off"
    <3>1. SetLogo(logo) = << Set("lit", "Off") >>
      BY <2>1 DEF SetLogo
    <3>2. Set("lit", "Off") \in Commands
      OBVIOUS
    <3> QED
      BY <3>1, <3>2 DEF Set, Do
  <2>2. CASE logo # "Off"
    <3>1. SetLogo(logo) = << Set("logo", logo), Set("lit", "On") >>
      BY <2>2 DEF SetLogo
    <3>2. Set("logo", logo) \in Commands /\ Set("lit", "On") \in Commands
      OBVIOUS
    <3> QED
      BY <3>1, <3>2 DEF Set, Do
  <2> QED
    BY <2>1, <2>2
<1> QED
  BY <1>1, <1>2, <1>3, <1>4

-----------------------------------------------------------------------------
(* What the operations send *)

\* What an operation sends has a first command.
Programs == {prog \in Seq(Commands) : Len(prog) >= 1}

LEMMA Long ==
  ASSUME NEW S \in Seq(Commands), NEW n \in {1, 2, 3, 4}, Len(S) = n
  PROVE  S \in Programs
  BY DEF Programs

LEMMA ProgramsSeq == Programs \subseteq Seq(Commands)
  BY DEF Programs

LEMMA Extended ==
  ASSUME NEW S \in Programs, NEW T \in Seq(Commands)
  PROVE  S \o T \in Programs /\ T \o S \in Programs
<1>1. S \in Seq(Commands) /\ Len(S) >= 1 /\ Len(S) \in Nat /\ Len(T) \in Nat
  BY DEF Programs
<1>2. /\ S \o T \in Seq(Commands) /\ Len(S \o T) = Len(S) + Len(T)
      /\ T \o S \in Seq(Commands) /\ Len(T \o S) = Len(T) + Len(S)
  BY <1>1, Joined
<1> QED
  BY <1>1, <1>2 DEF Programs

LEMMA Program1 ==
  ASSUME NEW c \in Commands
  PROVE  <<c>> \in Programs
  BY DEF Programs

LEMMA Program2 ==
  ASSUME NEW c \in Commands, NEW d \in Commands
  PROVE  <<c, d>> \in Programs
  BY DEF Programs

LEMMA PartProgram ==
  ASSUME NEW part \in PartNames,
         NEW keep \in {"stop", "any", "rejected", "ignore", "lists", "notes", "prints"}
  PROVE  /\ \A steps \in Seq(Commands) : Part(part, keep, steps) \in Seq(Commands)
         /\ \A steps \in Programs : Part(part, keep, steps) \in Programs
  BY PartTyped DEF Programs

LEMMA SetPerfTyped ==
  ASSUME NEW w \in Intent
  PROVE  SetPerf(w) \in Programs
<1>1. w.perf \in Value /\ w.cpu \in Value /\ w.gpu \in Value
  BY DEF Intent
<1>2. Modes(w.perf, "Auto") \in Programs /\ Modes("Custom", "Auto") \in Programs
  <2>1. /\ Modes(w.perf, "Auto") \in Seq(Commands) /\ Len(Modes(w.perf, "Auto")) = 2
        /\ Modes("Custom", "Auto") \in Seq(Commands) /\ Len(Modes("Custom", "Auto")) = 2
    BY <1>1, ValueHas, ModesTyped
  <2> QED
    BY <2>1, Long
<1>3. << Confirm("Custom", "Auto") >> \in Programs
  <2>1. Confirm("Custom", "Auto") \in Commands
    BY ValueHas, Atoms
  <2> QED
    BY <2>1, Program1
<1>4. SetBoost("cpu", w.cpu) \in Programs /\ SetBoost("gpu", w.gpu) \in Programs
  <2>1. /\ SetBoost("cpu", w.cpu) \in Seq(Commands) /\ Len(SetBoost("cpu", w.cpu)) = 2
        /\ SetBoost("gpu", w.gpu) \in Seq(Commands) /\ Len(SetBoost("gpu", w.gpu)) = 2
    BY <1>1, WritesTyped
  <2> QED
    BY <2>1, Long
<1> QED
  BY <1>2, <1>3, <1>4, ProgramsSeq, Extended, Zenon DEF SetPerf

LEMMA SetFanTyped ==
  ASSUME NEW w \in Intent
  PROVE  SetFan(w) \in Programs
<1>1. w.fan \in Value /\ w.rpm \in Value
  BY DEF Intent
<1>2. SetFanMode(w.fan) \in Programs
  <2>1. SetFanMode(w.fan) \in Seq(Commands) /\ Len(SetFanMode(w.fan)) = 3
    BY <1>1, FanTyped
  <2> QED
    BY <2>1, Long
<1>3. SetPoints(w.rpm) \in Seq(Commands) /\ << >> \in Seq(Commands)
  BY <1>1, WritesTyped
<1> QED
  BY <1>2, <1>3, Extended DEF SetFan

LEMMA WriteMaxTyped ==
  ASSUME NEW w \in Intent
  PROVE  WriteMax(w) \in Programs
<1>1. w.max \in Value /\ "max" \in Reg /\ "MaxFan" \in Optional
  BY DEF Intent, Reg, Optional
<1>2. Set("max", w.max) \in Commands
  BY <1>1, Atoms
<1>3. << Set("max", w.max) >> \in Seq(Commands) /\ << EnsureCustom >> \in Programs
  BY <1>2, Atoms DEF Programs
<1>4. \A i \in DOMAIN << Set("max", w.max) >> :
        /\ << Set("max", w.max) >>[i].do \in {"set", "get", "again"}
        /\ OptionOf(<< Set("max", w.max) >>[i].arg) = "MaxFan"
  BY DEF Set, Do, OptionOf
<1>5. For("MaxFan", << Set("max", w.max) >>) \in Seq(Commands)
  BY <1>1, <1>3, <1>4, ForTyped
<1> QED
  BY <1>3, <1>5, Extended DEF WriteMax

\* One optional setting, written by commands that say so.
LEMMA OptionTyped ==
  ASSUME NEW reg \in {"bright", "care"}, NEW val \in Value
  PROVE  For(OptionOf(reg), << Set(reg, val) >>) \in Programs
<1>1. reg \in Reg /\ OptionOf(reg) \in Optional
  BY DEF Reg, OptionOf, Optional
<1>2. Set(reg, val) \in Commands
  BY <1>1, Atoms
<1>3. << Set(reg, val) >> \in Seq(Commands) /\ Len(<< Set(reg, val) >>) = 1
  BY <1>2
<1>4. \A i \in DOMAIN << Set(reg, val) >> :
        /\ << Set(reg, val) >>[i].do \in {"set", "get", "again"}
        /\ OptionOf(<< Set(reg, val) >>[i].arg) = OptionOf(reg)
  BY DEF Set, Do
<1>5. /\ For(OptionOf(reg), << Set(reg, val) >>) \in Seq(Commands)
      /\ Len(For(OptionOf(reg), << Set(reg, val) >>)) = Len(<< Set(reg, val) >>)
  BY <1>1, <1>3, <1>4, ForTyped
<1>6. Len(For(OptionOf(reg), << Set(reg, val) >>)) = 1
  BY <1>3, <1>5
<1> QED
  BY <1>5, <1>6, Long

LEMMA LogoTyped ==
  ASSUME NEW logo \in Value
  PROVE  For("Logo", SetLogo(logo)) \in Programs
<1>1. SetLogo(logo) \in Seq(Commands) /\ Len(SetLogo(logo)) >= 1
  BY WritesTyped
<1>2. \A i \in DOMAIN SetLogo(logo) : /\ SetLogo(logo)[i].do \in {"set", "get", "again"}
                                      /\ OptionOf(SetLogo(logo)[i].arg) = "Logo"
  BY WritesTyped DEF OptionOf
<1>3. "Logo" \in Optional
  BY DEF Optional
<1> QED
  BY <1>1, <1>2, <1>3, ForTyped DEF Programs

LEMMA PerfFanLogoTyped ==
  ASSUME NEW w \in Intent
  PROVE  PerfFanLogo(w) \in Programs /\ WriteCare(w) \in Programs
<1>1. /\ Part("perf", "any", SetPerf(w)) \in Programs
      /\ Part("max", "any", WriteMax(w)) \in Programs
      /\ Part("fan", "any", SetFan(w)) \in Programs
  BY SetPerfTyped, WriteMaxTyped, SetFanTyped, PartProgram DEF PartNames
<1>2. Part("logo", "any", For("Logo", SetLogo(w.logo))) \in Programs
  BY LogoTyped, PartProgram DEF PartNames, Intent
<1>3. << >> \in Seq(Commands)
  OBVIOUS
<1>4. PICK max \in Seq(Commands) :
        max = IF w.perf = "Custom" THEN Part("max", "any", WriteMax(w)) ELSE << >>
  BY <1>1, <1>3, ProgramsSeq
<1>5. PerfFanLogo(w) \in Programs
  BY <1>1, <1>2, <1>4, ProgramsSeq, Extended, Zenon DEF PerfFanLogo
<1>6. OptionOf("care") = "BatteryCare" /\ w.care \in Value
  BY DEF OptionOf, Intent
<1>7. WriteCare(w) \in Programs
  BY <1>6, OptionTyped, PartProgram DEF WriteCare, PartNames
<1> QED
  BY <1>5, <1>7

LEMMA Both == \A S, T \in Programs : S \o T \in Programs
  BY Extended, ProgramsSeq, Zenon

LEMMA WhenProgram ==
  ASSUME NEW c \in {"Custom", "Manual", "differ", "boosted"}, NEW steps \in Programs
  PROVE  When(c, steps) \in Programs
  BY WhenTyped DEF Programs

Readable == Reg \cup {"always", "actual", "temps", "power"}

LEMMA GetProgram ==
  /\ \A reg \in Readable : << Get(reg) >> \in Programs
  /\ \A reg1, reg2 \in Readable : << Get(reg1), Get(reg2) >> \in Programs
  /\ << Hold >> \in Programs
  /\ ReadCare \in Programs
<1>1. \A reg \in Readable : Get(reg) \in Commands
  BY Atoms DEF Readable
<1>2. Hold \in Commands
  BY Atoms
<1>3. ReadCare \in Programs
  <2>1. ReadCare \in Seq(Commands) /\ Len(ReadCare) = 2
    BY CareTyped DEF ReadCare
  <2> QED
    BY <2>1, Long
<1> QED
  BY <1>1, <1>2, <1>3, Program1, Program2

LEMMA GetPart ==
  ASSUME NEW reg \in Readable, NEW part \in PartNames,
         NEW keep \in {"stop", "any", "rejected", "ignore", "lists", "notes", "prints"}
  PROVE  Part(part, keep, << Get(reg) >>) \in Programs
  BY GetProgram, PartProgram

LEMMA ApplyTyped ==
  ASSUME NEW w \in Intent
  PROVE  Apply(w) \in Programs /\ Enforce(w) \in Programs
<1>1. PerfFanLogo(w) \in Programs /\ WriteCare(w) \in Programs
  BY PerfFanLogoTyped
<1>2. w.effect \in Value /\ w.bright \in Value
  BY DEF Intent
<1>3. Part("effect", "rejected", << Set("effect", w.effect) >>) \in Programs
  <2>1. Set("effect", w.effect) \in Commands
    BY <1>2, Atoms DEF Reg
  <2> QED
    BY <2>1, Program1, PartProgram DEF PartNames
<1>4. Part("bright", "rejected", For("KeyboardBrightness", << Set("bright", w.bright) >>))
        \in Programs
  <2>1. OptionOf("bright") = "KeyboardBrightness"
    BY DEF OptionOf
  <2> QED
    BY <1>2, <2>1, OptionTyped, PartProgram DEF PartNames
<1>5. << >> \in Seq(Commands)
  OBVIOUS
<1>6. PICK effect \in Seq(Commands) :
        effect = IF w.effect = None THEN << >>
                 ELSE Part("effect", "rejected", << Set("effect", w.effect) >>)
  BY <1>3, <1>5, ProgramsSeq
<1> QED
  BY <1>1, <1>4, <1>6, ProgramsSeq, Extended, Zenon DEF Apply, Enforce

LEMMA ReadTyped == Read \in Programs /\ CheckZones \in Programs
<1> USE DEF Readable, Reg
<1>1. /\ << Hold >> \in Programs
      /\ When("Custom", << Get("cpu"), Get("gpu") >>) \in Programs
      /\ When("Manual", << Get("point1") >>) \in Programs
      /\ << Get("always") >> \in Programs
      /\ When("differ", << Get("point1"), Get("point2") >>) \in Programs
      /\ << Get("point2") >> \in Programs
  BY GetProgram, WhenProgram
<1>2. \A reg \in {"logo", "bright", "max"} : For(OptionOf(reg), << Get(reg) >>) \in Programs
  <2> SUFFICES ASSUME NEW reg \in {"logo", "bright", "max"}
               PROVE  For(OptionOf(reg), << Get(reg) >>) \in Programs
    OBVIOUS
  <2>1. << Get(reg) >> \in Seq(Commands) /\ Len(<< Get(reg) >>) = 1
    BY GetProgram, ProgramsSeq
  <2>2. OptionOf(reg) \in Optional
    BY DEF OptionOf, Optional
  <2>3. \A i \in DOMAIN << Get(reg) >> :
          /\ << Get(reg) >>[i].do \in {"set", "get", "again"}
          /\ OptionOf(<< Get(reg) >>[i].arg) = OptionOf(reg)
    BY DEF Get, Do
  <2>4. /\ For(OptionOf(reg), << Get(reg) >>) \in Seq(Commands)
        /\ Len(For(OptionOf(reg), << Get(reg) >>)) = Len(<< Get(reg) >>)
    BY <2>1, <2>2, <2>3, ForTyped
  <2>5. Len(For(OptionOf(reg), << Get(reg) >>)) = 1
    BY <2>1, <2>4
  <2> QED
    BY <2>4, <2>5, Long
<1>3. /\ For("Logo", << Get("logo") >>) \in Programs
      /\ For("KeyboardBrightness", << Get("bright") >>) \in Programs
      /\ For("MaxFan", << Get("max") >>) \in Programs
  <2>1. OptionOf("logo") = "Logo" /\ OptionOf("bright") = "KeyboardBrightness"
        /\ OptionOf("max") = "MaxFan"
    BY DEF OptionOf
  <2> QED
    BY <1>2, <2>1
<1>4. When("Custom", For("MaxFan", << Get("max") >>)) \in Programs
  BY <1>3, WhenProgram
<1>5. Part("effect", "ignore", << Get("effect") >>) \in Programs
  BY GetPart DEF PartNames
<1>6. For("BatteryCare", ReadCare) \in Programs
  <2>1. ReadCare \in Seq(Commands) /\ Len(ReadCare) = 2
    BY CareTyped DEF ReadCare
  <2>2. \A i \in DOMAIN ReadCare : /\ ReadCare[i].do \in {"set", "get", "again"}
                                   /\ OptionOf(ReadCare[i].arg) = "BatteryCare"
    BY CareTyped DEF OptionOf
  <2>3. "BatteryCare" \in Optional
    BY DEF Optional
  <2>4. For("BatteryCare", ReadCare) \in Seq(Commands) /\ Len(For("BatteryCare", ReadCare)) = 2
    BY <2>1, <2>2, <2>3, ForTyped
  <2> QED
    BY <2>4, Long
<1>7. CheckZones \in Programs
  BY <1>1, Both DEF CheckZones
<1>8. Read \in Programs
  BY <1>1, <1>3, <1>4, <1>5, <1>6, Both, Zenon DEF Read
<1> QED
  BY <1>7, <1>8

LEMMA JsonTyped == Json \in Programs
<1> USE DEF Readable, Reg, PartNames
<1>1. /\ Part("modes", "lists", << Hold >>) \in Programs
      /\ Part("cpu", "lists", << Get("cpu") >>) \in Programs
      /\ Part("gpu", "lists", << Get("gpu") >>) \in Programs
      /\ Part("point", "lists", << Get("point1") >>) \in Programs
      /\ Part("actual", "lists", << Get("actual") >>) \in Programs
      /\ Part("bright", "lists", << Get("bright") >>) \in Programs
      /\ Part("logo", "lists", << Get("logo") >>) \in Programs
      /\ Part("effect", "ignore", << Get("effect") >>) \in Programs
      /\ Part("care", "lists", ReadCare) \in Programs
      /\ Part("max", "lists", << Get("max") >>) \in Programs
      /\ Part("temps", "ignore", << Get("temps") >>) \in Programs
      /\ Part("power", "ignore", << Get("power") >>) \in Programs
  BY GetProgram, GetPart, PartProgram
<1>2. Part("cpu", "lists", << Get("cpu") >>) \o Part("gpu", "lists", << Get("gpu") >>) \in Programs
  BY <1>1, Both, Zenon
<1>3. /\ When("Custom", Part("cpu", "lists", << Get("cpu") >>)
                        \o Part("gpu", "lists", << Get("gpu") >>)) \in Programs
      /\ When("Manual", Part("point", "lists", << Get("point1") >>)) \in Programs
      /\ When("Custom", Part("max", "lists", << Get("max") >>)) \in Programs
  BY <1>1, <1>2, WhenProgram
<1> QED
  BY <1>1, <1>3, Both, Zenon DEF Json

LEMMA InfoTyped == Info \in Programs
<1> USE DEF Readable, Reg, PartNames
<1>1. /\ Part("care", "prints", ReadCare) \in Programs
      /\ Part("care", "ignore", << Get("power") >>) \in Programs
      /\ Part("logo", "prints", << Get("logo") >>) \in Programs
      /\ Part("always", "prints", << Get("always") >>) \in Programs
      /\ Part("bright", "prints", << Get("bright") >>) \in Programs
      /\ Part("modes", "ignore", << Hold >>) \in Programs
      /\ Part("point", "ignore", << Get("point1") >>) \in Programs
      /\ Part("actual", "notes", << Get("actual") >>) \in Programs
      /\ Part("actual", "ignore", << Get("temps") >>) \in Programs
  BY GetProgram, GetPart, PartProgram
<1>2. /\ When("Manual", Part("point", "ignore", << Get("point1") >>)) \in Programs
      /\ When("Custom", << Get("cpu"), Get("gpu") >>) \in Programs
      /\ When("boosted", << Get("max") >>) \in Programs
  BY <1>1, GetProgram, WhenProgram
<1>3. Fans \in Programs
  BY <1>1, <1>2, Both, Zenon DEF Fans
<1>4. << Hold >> \o When("Custom", << Get("cpu"), Get("gpu") >>)
                 \o When("boosted", << Get("max") >>) \in Programs
  BY <1>2, GetProgram, Both, Zenon
<1>5. Part("perf", "prints", << Hold >> \o When("Custom", << Get("cpu"), Get("gpu") >>)
                                        \o When("boosted", << Get("max") >>)) \in Programs
  BY <1>4, PartProgram
<1> QED
  BY <1>1, <1>3, <1>5, Both, Zenon DEF Info

\* Every operation sends a program of well-formed commands.
LEMMA ProgTyped ==
  ASSUME NEW o \in TrayOp \cup CliOp, NEW w \in Intent, NEW asked \in Value
  PROVE  Prog(o, w, asked) \in Programs
<1>1. Apply(w) \in Programs /\ Enforce(w) \in Programs
  BY ApplyTyped
<1>2. \A perf \in Value \cup {"held"}, fan \in Value : << Confirm(perf, fan) >> \in Programs
  BY Atoms, Program1
<1>3. w.perf \in Value /\ w.fan \in Value
  BY DEF Intent
<1>4. << Hold >> \in Programs
  BY GetProgram
<1>5. \A val \in Value : SetPoints(val) \in Programs
  BY WritesTyped, Long
<1>6. \A val \in Value : SetFanModeConfirmed(val) \in Programs
  BY FanTyped, Long
<1>7. Modes(asked, "Auto") \o << Confirm(asked, "Auto") >> \in Programs
  <2>1. Modes(asked, "Auto") \in Programs
    BY ModesTyped, ValueHas, Long
  <2> QED
    BY <1>2, <2>1, Both, ValueHas
<1>8. \A reg \in {"cpu", "gpu"} : SetBoost(reg, asked) \in Programs
  BY WritesTyped, Long
<1>9. SetMaxFan(asked) \in Programs
  BY WritesTyped, Long
<1>10. SetLogo(asked) \in Programs
  BY WritesTyped DEF Programs
<1>11. \A reg \in {"bright", "care", "effect"} : << Set(reg, asked) >> \in Programs
  BY Atoms, Program1 DEF Reg
<1> QED
  BY <1>1, <1>2, <1>3, <1>4, <1>5, <1>6, <1>7, <1>8, <1>9, <1>10, <1>11,
     ReadTyped, JsonTyped, InfoTyped, ValueHas DEF Prog, TrayOp, CliOp

-----------------------------------------------------------------------------
(* One command *)

LEMMA MinOfNats ==
  ASSUME NEW S \in SUBSET Nat, S # {}
  PROVE  Min(S) \in S /\ \A x \in S : Min(S) <= x
<1> DEFINE R == OpToRel(<, Nat)
<1>1. ASSUME NEW y \in Nat, NEW m \in Nat, ~(<<y, m>> \in R)
      PROVE  m <= y
  <2>1. <<y, m>> \in Nat \X Nat /\ <<y, m>>[1] = y /\ <<y, m>>[2] = m
    OBVIOUS
  <2>2. ~(y < m)
    BY <1>1, <2>1, Zenon DEF OpToRel
  <2> QED
    BY <2>2
<1>2. PICK m \in S : \A y \in S : ~(<<y, m>> \in R)
  BY NatLessThanWellFounded, WFMin
<1> HIDE DEF R
<1>3. \A y \in S : m <= y
  BY <1>1, <1>2
<1> QED
  BY <1>2, <1>3 DEF Min

\* What an operation makes of an error, once what was learnt from it is no error.
Outcome(p, s, e) == IF Learnt(p, s, e) THEN "Ok" ELSE Settled(s, e)

\* The commands still to be sent after the one at[p], which had the outcome e.
Runs(p, prog, e, j) ==
  /\ j > at[p]
  /\ ~Skipped(prog[j], IF p = "tray" THEN log' ELSE {}, held'[p], got'[p])
  /\ \/ e = "Ok"
     \/ prog[at[p]].keep = "notes" /\ e = "NotSupported"
     \/ prog[j].part # prog[at[p]].part

\* What a command changes, apart from the place in its program.
Does(p, s, reply) ==
  LET e == Outcome(p, s, reply.e) IN
  /\ log' = IF Learnt(p, s, reply.e) THEN log \cup {s.opt} ELSE log
  /\ ec' = IF reply.taken THEN Taken(p, s) ELSE ec
  /\ left' = IF reply.fault = None THEN left ELSE [left EXCEPT !["fault"] = @ - 1]
  /\ alone' = [q \in Proc |-> alone[q] /\ (q = p \/ ec' = ec)]
  /\ refused' = IF p = "tray" /\ s.do = "set" /\ reply.e # "Ok"
                THEN refused \cup {s.arg} ELSE refused
  /\ held' = IF s.do # "hold" THEN held
             ELSE [held EXCEPT ![p] = IF e # "Ok" THEN NoMode
                                      ELSE [perf |-> ec["perf1"], fan |-> ec["fan1"]]]
  /\ got' = IF s.do \in {"get", "again"} /\ s.arg \in DOMAIN NoReading /\ reply.e = "Ok"
            THEN [got EXCEPT ![p][s.arg] = reply.shows] ELSE got
  /\ first' = [first EXCEPT ![p] = Kept(s, e, @)]

\* Where it goes on: at the next command that runs, or at the end when there is none, the
\* error is fatal, or the next one is not sent after bus trouble.
Goes(p, prog, e, next) ==
  /\ at' = [at EXCEPT ![p] = next]
  /\ \/ /\ next \in DOMAIN prog /\ Runs(p, prog, e, next) /\ ~Fatal(prog[at[p]], e)
        /\ \A j \in DOMAIN prog : Runs(p, prog, e, j) => next <= j
     \/ next = 0 /\ Fatal(prog[at[p]], e)
     \/ next = 0 /\ \A j \in DOMAIN prog : ~Runs(p, prog, e, j)
     \/ /\ next = 0 /\ Stops(first'[p])
        /\ \E j \in DOMAIN prog : Runs(p, prog, e, j) /\ prog[j].keep = "rejected"

LEMMA Advanced ==
  ASSUME NEW p \in Proc, NEW prog \in Programs, at[p] \in DOMAIN prog, NEW reply,
         Advance(p, prog, reply)
  PROVE  /\ Does(p, prog[at[p]], reply)
         /\ \E next \in 0 .. Len(prog) :
              Goes(p, prog, Outcome(p, prog[at[p]], reply.e), next)
<1> DEFINE s == prog[at[p]]
           e == Outcome(p, s, reply.e)
           rest == { j \in DOMAIN prog : Runs(p, prog, e, j) }
<1>1. Does(p, s, reply)
  BY Zenon DEF Advance, Does, Outcome
<1>2. at' = [at EXCEPT ![p] =
               IF Fatal(s, e) \/ rest = {} THEN 0
               ELSE LET next == Min(rest)
                    IN IF prog[next].keep = "rejected" /\ Stops(first'[p]) THEN 0 ELSE next]
  BY Zenon DEF Advance, Outcome, Runs
<1>3. DOMAIN prog = 1 .. Len(prog) /\ Len(prog) \in Nat
  BY DEF Programs
<1>4. rest \in SUBSET Nat
  BY <1>3
<1>5. \A j \in DOMAIN prog : j \in rest <=> Runs(p, prog, e, j)
  OBVIOUS
<1> HIDE DEF rest, e
<1>6. CASE Fatal(s, e)
  <2>1. at' = [at EXCEPT ![p] = 0]
    BY <1>2, <1>6, Zenon
  <2>2. 0 \in 0 .. Len(prog)
    BY <1>3
  <2> QED
    BY <1>1, <1>6, <2>1, <2>2, Zenon DEF Goes, e
<1>7. CASE rest = {}
  <2>1. at' = [at EXCEPT ![p] = 0]
    BY <1>2, <1>7, Zenon
  <2>2. 0 \in 0 .. Len(prog)
    BY <1>3
  <2>3. \A j \in DOMAIN prog : ~Runs(p, prog, e, j)
    BY <1>5, <1>7
  <2> QED
    BY <1>1, <2>1, <2>2, <2>3, Zenon DEF Goes, e
<1>8. CASE ~Fatal(s, e) /\ rest # {}
  <2> DEFINE next == Min(rest)
  <2>1. next \in rest /\ \A j \in rest : next <= j
    BY <1>4, <1>8, MinOfNats
  <2>2. rest \subseteq DOMAIN prog
    BY DEF rest
  <2> HIDE DEF next
  <2>3. at' = [at EXCEPT ![p] =
                 IF prog[next].keep = "rejected" /\ Stops(first'[p]) THEN 0 ELSE next]
    BY <1>2, <1>8, Zenon DEF next
  <2>4. CASE prog[next].keep = "rejected" /\ Stops(first'[p])
    <3>1. at' = [at EXCEPT ![p] = 0]
      BY <2>3, <2>4, Zenon
    <3>2. 0 \in 0 .. Len(prog)
      BY <1>3
    <3> QED
      BY <1>1, <1>5, <2>1, <2>2, <2>4, <3>1, <3>2, Zenon DEF Goes, e
  <2>5. CASE ~(prog[next].keep = "rejected" /\ Stops(first'[p]))
    <3>1. at' = [at EXCEPT ![p] = next]
      BY <2>3, <2>5, Zenon
    <3>2. next \in 0 .. Len(prog)
      BY <1>3, <2>1, <2>2
    <3>3. \A j \in DOMAIN prog : Runs(p, prog, e, j) => next <= j
      BY <1>5, <2>1, Zenon
    <3> QED
      BY <1>1, <1>5, <1>8, <2>1, <2>2, <3>1, <3>2, <3>3, Zenon DEF Goes, e
  <2> QED
    BY <2>4, <2>5
<1> QED
  BY <1>6, <1>7, <1>8

\* What a command does to the registers, one by one.
LEMMA TakenSet ==
  ASSUME NEW p \in Proc, NEW s \in Commands, s.do = "set", ec \in [Reg -> Value]
  PROVE  /\ Taken(p, s) \in [Reg -> Value]
         /\ \A reg \in Reg :
              Taken(p, s)[reg] = IF reg = s.arg THEN s.val
                                 ELSE IF <<s.arg, reg>> = <<"effect", "bright">> /\ Machine.resets
                                 THEN "0" ELSE ec[reg]
<1>1. s.arg \in Reg /\ s.val \in Value /\ "0" \in Value
  BY ValueHas DEF Commands
<1>2. Taken(p, s) = [reg \in Reg |-> IF reg = s.arg THEN s.val
                         ELSE IF <<s.arg, reg>> = <<"effect", "bright">> /\ Machine.resets
                         THEN "0" ELSE ec[reg]]
  BY DEF Taken
<1> QED
  BY <1>1, <1>2

Zone(s) == IF s.do = "mode1" THEN <<"perf1", "fan1">> ELSE <<"perf2", "fan2">>

LEMMA TakenMode ==
  ASSUME NEW p \in Proc, NEW s \in Commands, s.do \in {"mode1", "mode2"}, ec \in [Reg -> Value],
         PerfOf(p, s) \in Value
  PROVE  /\ Taken(p, s) \in [Reg -> Value]
         /\ \A reg \in Reg :
              Taken(p, s)[reg] = CASE reg = Zone(s)[1] -> PerfOf(p, s)
                                   [] reg = Zone(s)[2] -> s.val
                                   [] reg = "max" /\ PerfOf(p, s) # "Custom" -> "Disable"
                                   [] OTHER -> ec[reg]
<1>1. s.val \in Value /\ "Disable" \in Value
  BY ValueHas DEF Commands
<1> DEFINE perf == PerfOf(p, s)
           z1 == IF s.do = "mode1" THEN "perf1" ELSE "perf2"
           z2 == IF s.do = "mode1" THEN "fan1" ELSE "fan2"
           one == [ec EXCEPT ![z1] = perf]
           two == [one EXCEPT ![z2] = s.val]
           three == [two EXCEPT !["max"] = IF perf = "Custom" THEN @ ELSE "Disable"]
<1>2. Taken(p, s) = three
  <2>1. s.do # "set" /\ (s.do \in {"mode1", "mode2"}) = TRUE
    OBVIOUS
  <2> QED
    BY <2>1, Zenon DEF Taken
<1>3. /\ z1 \in Reg /\ z2 \in Reg /\ "max" \in Reg
      /\ z1 # z2 /\ z1 # "max" /\ z2 # "max"
      /\ Zone(s)[1] = z1 /\ Zone(s)[2] = z2
  BY DEF Reg, Zone
<1> HIDE DEF z1, z2, perf
<1>4. /\ one \in [Reg -> Value]
      /\ \A reg \in Reg : one[reg] = IF reg = z1 THEN perf ELSE ec[reg]
  BY <1>3 DEF perf
<1> HIDE DEF one
<1>5. /\ two \in [Reg -> Value]
      /\ \A reg \in Reg : two[reg] = IF reg = z2 THEN s.val ELSE one[reg]
  BY <1>1, <1>3, <1>4
<1> HIDE DEF two
<1>6. /\ three \in [Reg -> Value]
      /\ \A reg \in Reg : three[reg] = IF reg = "max" /\ perf # "Custom" THEN "Disable" ELSE two[reg]
  <2>1. CASE perf = "Custom"
    <3>1. three = [two EXCEPT !["max"] = two["max"]]
      BY <2>1, Zenon
    <3>2. three = two
      BY <1>5, <3>1
    <3> QED
      BY <1>5, <2>1, <3>2
  <2>2. CASE perf # "Custom"
    <3>1. three = [two EXCEPT !["max"] = "Disable"]
      BY <2>2, Zenon
    <3> QED
      BY <1>1, <1>3, <1>5, <2>2, <3>1
  <2> QED
    BY <2>1, <2>2
<1> HIDE DEF three
<1> QED
  BY <1>2, <1>3, <1>4, <1>5, <1>6 DEF perf

\* Of what is read and checked, nothing changes.
LEMMA TakenNothing ==
  ASSUME NEW p \in Proc, NEW s \in Commands, s.do \notin {"set", "mode1", "mode2"}
  PROVE  Taken(p, s) = ec
  BY DEF Taken

LEMMA PerfOfTyped ==
  ASSUME NEW p \in Proc, NEW s \in Commands, s.do \in {"mode1", "mode2", "confirm"},
         held \in [Proc -> ModeRead]
  PROVE  PerfOf(p, s) \in Value
<1>1. s.arg \in Value \cup {"held"}
  BY DEF Commands
<1> QED
  BY <1>1 DEF PerfOf, ModeRead

LEMMA AnswerTyped ==
  ASSUME NEW p \in Proc, NEW s
  PROVE  Answer(p, s) \in {"Ok", "NotSupported", "Diverged", "NeedsCustom", "NotApplied"}
<1>1. ReadsModes(p) \in {"Ok", "NotSupported", "Diverged"}
  BY DEF ReadsModes
<1>2. ChecksCustom(p) \in {"Ok", "NotSupported", "Diverged", "NeedsCustom"}
  BY <1>1 DEF ChecksCustom
<1>3. \A perf, fan : Confirms(p, perf, fan) \in {"Ok", "Diverged", "NotApplied"}
  BY <1>1 DEF Confirms
<1> QED
  BY <1>1, <1>2, <1>3 DEF Answer

LEMMA ShowsTyped ==
  ASSUME NEW reg, ec \in [Reg -> Value]
  PROVE  Shows(reg) \in Value
  BY ValueHas DEF Shows, Reg

\* The answers there are.
LEMMA Replied ==
  ASSUME ec \in [Reg -> Value], NEW p \in Proc, NEW s \in Commands,
         NEW reply \in {Honest(p, s)} \cup Faulty(p, s)
  PROVE  /\ reply.e \in Error \cup {"Ok"} /\ reply.taken \in BOOLEAN /\ reply.shows \in Value
         /\ reply.fault # None => left["fault"] > 0
         /\ reply.e = "NotSupported" => Answer(p, s) = "NotSupported"
         /\ reply.e = "Ok" /\ s.do \in {"hold", "custom", "confirm"} => Answer(p, s) = "Ok"
         /\ reply.e = "Ok" /\ s.do = "set" => reply.taken = TRUE
<1>1. CASE reply = Honest(p, s)
  <2>1. /\ reply.fault = None /\ reply.e = Answer(p, s) /\ reply.taken = (Answer(p, s) = "Ok")
        /\ reply.shows = Shows(s.arg)
    BY <1>1 DEF Honest, Reply
  <2> QED
    BY <2>1, AnswerTyped, ShowsTyped DEF Error, Retryable
<1>2. CASE reply \in Faulty(p, s)
  <2>1. /\ reply \in { Reply("refused", "Failure", FALSE, None), Reply("lost", "Bus", FALSE, None),
                       Reply("late", "Bus", TRUE, None), Reply("ignored", "Ok", FALSE, None),
                       Reply("off", "Ok", FALSE, "Off") }
        /\ left["fault"] > 0
        /\ reply.fault = "ignored" => s.do \in {"mode1", "mode2"}
        /\ reply.fault = "off" => s.do \in {"get", "again"}
    BY <1>2, Zenon DEF Faulty
  <2>2. CASE reply = Reply("refused", "Failure", FALSE, None)
    BY <2>1, <2>2, ValueHas DEF Reply, Error
  <2>3. CASE reply = Reply("lost", "Bus", FALSE, None)
    BY <2>1, <2>3, ValueHas DEF Reply, Error, Retryable
  <2>4. CASE reply = Reply("late", "Bus", TRUE, None)
    BY <2>1, <2>4, ValueHas DEF Reply, Error, Retryable
  <2>5. CASE reply = Reply("ignored", "Ok", FALSE, None)
    BY <2>1, <2>5, ValueHas DEF Reply
  <2>6. CASE reply = Reply("off", "Ok", FALSE, "Off")
    BY <2>1, <2>6, ValueHas DEF Reply
  <2> QED
    BY <2>1, <2>2, <2>3, <2>4, <2>5, <2>6
<1> QED
  BY <1>1, <1>2

-----------------------------------------------------------------------------
(* Types *)

\* The types, by what changes together: a program's run, the settings, and the rest.
RunTypes ==
  /\ op \in [Proc -> TrayOp \cup CliOp \cup {None}]
  /\ op["tray"] \notin CliOp /\ op["cli"] \notin TrayOp
  /\ at \in [Proc -> Nat]
  /\ first \in [Proc -> Error \cup {"Ok"}]
  /\ held \in [Proc -> ModeRead] /\ got \in [Proc -> Reading]
  /\ alone \in [Proc -> BOOLEAN]
  /\ refused \subseteq Reg

SettingTypes ==
  /\ failed \in [Proc -> Error \cup {"Ok"}]
  /\ why \in {None, "update", "sync", "probe", "poll", "mend", "look"}
  /\ intent \in Intent
  /\ mode \in {"apply", "follow", "adopt"}
  /\ unsup \subseteq Optional
  /\ guard \in [unrepaired : 0..MaxRepairs, given_up : BOOLEAN]
  /\ resync \in {"no", "probe", "apply"}
  /\ failures \in 0..ReopenAfter

WorldTypes ==
  /\ scene \in Scenes
  /\ ec \in [Reg -> Value]
  /\ left \in [Event -> Nat]
  /\ busy \in BOOLEAN /\ dev \in [Proc -> Pid \cup {0}]
  /\ want \in Value
  /\ log \subseteq Optional

\* A program that is at a command is at one of its operation's.
PlacedAt(p) == at[p] > 0 => op[p] # None /\ at[p] \in DOMAIN Prog(op[p], intent, want)

TypeInv ==
  /\ RunTypes /\ SettingTypes /\ WorldTypes
  /\ PlacedAt("tray") /\ PlacedAt("cli")

LEMMA TypesAll == TypeOK <=> RunTypes /\ SettingTypes /\ WorldTypes
<1>1. TypeOK => RunTypes /\ SettingTypes /\ WorldTypes
  BY Zenon DEF TypeOK, RunTypes, SettingTypes, WorldTypes
<1>2. RunTypes /\ SettingTypes /\ WorldTypes => TypeOK
  BY Zenon DEF TypeOK, RunTypes, SettingTypes, WorldTypes
<1> QED
  BY <1>1, <1>2

LEMMA SceneTyped ==
  ASSUME scene \in Scenes
  PROVE  /\ Machine \in Laptops /\ scene.intent \in Intent /\ scene.pick \in Intent
         /\ scene.ec \in [Reg -> Value] /\ scene.left \in [Event -> Nat]
         /\ scene.mode \in {"apply", "follow", "adopt"}
         /\ scene.commands \subseteq [op : Command, want : Value]
<1>1. scene \in SceneType
  BY LaptopAssumption
<1> QED
  BY <1>1 DEF SceneType, Machine

\* What an operation sends depends on the settings for the tray, and on what was asked for
\* the command line.
LEMMA ProgDepends ==
  /\ \A o \in TrayOp : \A w, a, b : Prog(o, w, a) = Prog(o, w, b)
  /\ \A o \in CliOp : \A v, w, a : Prog(o, v, a) = Prog(o, w, a)
<1>1. \A o \in TrayOp : \A w, a, b : Prog(o, w, a) = Prog(o, w, b)
  BY DEF Prog, TrayOp
<1>2. \A o \in CliOp : \A v, w, a : Prog(o, v, a) = Prog(o, w, a)
  BY DEF Prog, CliOp
<1> QED
  BY <1>1, <1>2

LEMMA ProgStarts ==
  ASSUME NEW o \in TrayOp \cup CliOp, NEW w \in Intent, NEW asked \in Value
  PROVE  1 \in DOMAIN Prog(o, w, asked)
<1>1. Prog(o, w, asked) \in Programs
  BY ProgTyped
<1> QED
  BY <1>1 DEF Programs

LEMMA Begun ==
  ASSUME RunTypes, NEW p \in Proc, NEW o \in TrayOp \cup CliOp, Begin(p, o),
         p = "tray" => o \in TrayOp, p = "cli" => o \in CliOp
  PROVE  /\ RunTypes'
         /\ op'[p] = o /\ at'[p] = 1
         /\ \A q \in Proc \ {p} : op'[q] = op[q] /\ at'[q] = at[q]
<1>1. NoReading \in Reading
  BY ValueHas DEF NoReading, Reading
<1>2. /\ op' \in [Proc -> TrayOp \cup CliOp \cup {None}]
      /\ at' \in [Proc -> Nat] /\ first' \in [Proc -> Error \cup {"Ok"}]
      /\ held' \in [Proc -> ModeRead]
      /\ op'[p] = o /\ at'[p] = 1
      /\ \A q \in Proc \ {p} : op'[q] = op[q] /\ at'[q] = at[q]
  BY DEF Begin, RunTypes
<1>3. got' \in [Proc -> Reading]
  BY <1>1 DEF Begin, RunTypes
<1>4. alone' \in [Proc -> BOOLEAN]
  BY Zenon DEF Begin, RunTypes
<1>5. refused' \subseteq Reg
  BY DEF Begin, RunTypes
<1>6. op'["tray"] \notin CliOp /\ op'["cli"] \notin TrayOp
  BY <1>2 DEF RunTypes, Proc, TrayOp, CliOp
<1> QED
  BY <1>2, <1>3, <1>4, <1>5, <1>6 DEF RunTypes

LEMMA Rested ==
  ASSUME RunTypes, NEW p \in Proc, Rest(p)
  PROVE  /\ RunTypes'
         /\ op'[p] = None /\ at'[p] = 0
         /\ \A q \in Proc \ {p} : op'[q] = op[q] /\ at'[q] = at[q]
<1>1. NoReading \in Reading /\ NoMode \in ModeRead
  BY ValueHas DEF NoReading, Reading, NoMode, ModeRead
<1>2. /\ op' \in [Proc -> TrayOp \cup CliOp \cup {None}]
      /\ at' \in [Proc -> Nat] /\ first' \in [Proc -> Error \cup {"Ok"}]
      /\ op'[p] = None /\ at'[p] = 0
      /\ \A q \in Proc \ {p} : op'[q] = op[q] /\ at'[q] = at[q]
  BY DEF Rest, RunTypes
<1>3. got' \in [Proc -> Reading] /\ held' \in [Proc -> ModeRead]
  BY <1>1 DEF Rest, RunTypes
<1>4. alone' \in [Proc -> BOOLEAN] /\ refused' \subseteq Reg
  BY DEF Rest, RunTypes
<1>5. op'["tray"] \notin CliOp /\ op'["cli"] \notin TrayOp
  BY <1>2 DEF RunTypes, Proc, TrayOp, CliOp, None
<1> QED
  BY <1>2, <1>3, <1>4, <1>5 DEF RunTypes

\* What becomes of the tray's run in a step of its own between commands.
TrayMoves ==
  \/ \E o \in TrayOp : Begin("tray", o)
  \/ Rest("tray")
  \/ /\ UNCHANGED <<op, at, first, held, got, alone, refused>>
     /\ intent' = intent \/ at["tray"] = 0

LEMMA TrayMoved ==
  ASSUME TypeInv, TrayMoves, intent' \in Intent, want' = want
  PROVE  RunTypes' /\ PlacedAt("tray")' /\ PlacedAt("cli")'
<1>1. RunTypes /\ PlacedAt("tray") /\ PlacedAt("cli") /\ want \in Value
  BY Zenon DEF TypeInv, WorldTypes
<1>2. "tray" \in Proc /\ "cli" \in Proc /\ "cli" \in Proc \ {"tray"}
  BY DEF Proc
<1>3. op'["cli"] = op["cli"] /\ at'["cli"] = at["cli"] => PlacedAt("cli")'
  <2> SUFFICES ASSUME op'["cli"] = op["cli"], at'["cli"] = at["cli"] PROVE PlacedAt("cli")'
    OBVIOUS
  <2>1. op["cli"] # None => op["cli"] \in CliOp
    BY <1>1, <1>2 DEF RunTypes
  <2>2. op["cli"] # None => Prog(op["cli"], intent', want) = Prog(op["cli"], intent, want)
    BY <2>1, ProgDepends
  <2> QED
    BY <1>1, <2>2 DEF PlacedAt
<1>4. ASSUME NEW o \in TrayOp, Begin("tray", o)
      PROVE  RunTypes' /\ PlacedAt("tray")' /\ PlacedAt("cli")'
  <2>1. /\ RunTypes' /\ op'["tray"] = o /\ at'["tray"] = 1
        /\ op'["cli"] = op["cli"] /\ at'["cli"] = at["cli"]
    BY <1>1, <1>2, <1>4, Begun
  <2>2. 1 \in DOMAIN Prog(o, intent', want) /\ o # None
    BY <1>1, ProgStarts DEF TrayOp, None
  <2> QED
    BY <1>3, <2>1, <2>2 DEF PlacedAt
<1>5. CASE Rest("tray")
  <2>1. /\ RunTypes' /\ at'["tray"] = 0
        /\ op'["cli"] = op["cli"] /\ at'["cli"] = at["cli"]
    BY <1>1, <1>2, <1>5, Rested
  <2> QED
    BY <1>3, <2>1 DEF PlacedAt
<1>6. CASE /\ UNCHANGED <<op, at, first, held, got, alone, refused>>
           /\ intent' = intent \/ at["tray"] = 0
  <2>1. RunTypes'
    BY <1>1, <1>6 DEF RunTypes
  <2>2. PlacedAt("tray")'
    BY <1>1, <1>6 DEF PlacedAt
  <2> QED
    BY <1>3, <1>6, <2>1, <2>2
<1> QED
  BY <1>4, <1>5, <1>6 DEF TrayMoves

\* And of the command line's.
CliMoves ==
  \/ (\E o \in CliOp : Begin("cli", o)) /\ want' = want
  \/ Rest("cli")

LEMMA CliMoved ==
  ASSUME TypeInv, CliMoves, intent' = intent, want' \in Value
  PROVE  RunTypes' /\ PlacedAt("tray")' /\ PlacedAt("cli")'
<1>1. RunTypes /\ PlacedAt("tray") /\ PlacedAt("cli") /\ intent \in Intent /\ want \in Value
  BY Zenon DEF TypeInv, SettingTypes, WorldTypes
<1>2. "tray" \in Proc /\ "cli" \in Proc /\ "tray" \in Proc \ {"cli"}
  BY DEF Proc
<1>3. op'["tray"] = op["tray"] /\ at'["tray"] = at["tray"] => PlacedAt("tray")'
  <2> SUFFICES ASSUME op'["tray"] = op["tray"], at'["tray"] = at["tray"] PROVE PlacedAt("tray")'
    OBVIOUS
  <2>1. op["tray"] # None => op["tray"] \in TrayOp
    BY <1>1, <1>2 DEF RunTypes
  <2>2. op["tray"] # None => Prog(op["tray"], intent, want') = Prog(op["tray"], intent, want)
    BY <2>1, ProgDepends
  <2> QED
    BY <1>1, <2>2 DEF PlacedAt
<1>4. ASSUME NEW o \in CliOp, Begin("cli", o), want' = want
      PROVE  RunTypes' /\ PlacedAt("tray")' /\ PlacedAt("cli")'
  <2>1. /\ RunTypes' /\ op'["cli"] = o /\ at'["cli"] = 1
        /\ op'["tray"] = op["tray"] /\ at'["tray"] = at["tray"]
    BY <1>1, <1>2, <1>4, Begun
  <2>2. 1 \in DOMAIN Prog(o, intent, want) /\ o # None
    BY <1>1, ProgStarts DEF CliOp, None
  <2> QED
    BY <1>3, <1>4, <2>1, <2>2 DEF PlacedAt
<1>5. CASE Rest("cli")
  <2>1. /\ RunTypes' /\ at'["cli"] = 0
        /\ op'["tray"] = op["tray"] /\ at'["tray"] = at["tray"]
    BY <1>1, <1>2, <1>5, Rested
  <2> QED
    BY <1>3, <2>1 DEF PlacedAt
<1> QED
  BY <1>4, <1>5 DEF CliMoves

LEMMA PidNat ==
  ASSUME NEW q \in Pid
  PROVE  q \in Nat /\ 65535 - q \in Nat
  BY DEF Pid

LEMMA Highest ==
  ASSUME NEW K \in SUBSET Pid, K # {}
  PROVE  \E p \in K : \A q \in K : q <= p
<1> DEFINE away(q) == 65535 - q
           N == {away(q) : q \in K}
<1>1. \A q \in Pid : q \in Nat /\ away(q) \in Nat
  BY PidNat
<1> HIDE DEF away
<1>2. N \in SUBSET Nat /\ N # {} /\ \A q \in K : away(q) \in N
  BY <1>1
<1>3. Min(N) \in N /\ \A x \in N : Min(N) <= x
  BY <1>2, MinOfNats
<1>4. PICK p \in K : Min(N) = away(p)
  BY <1>3
<1> HIDE DEF N
<1>5. ASSUME NEW q \in K PROVE q <= p
  <2>1. away(p) <= away(q)
    BY <1>2, <1>3, <1>4
  <2>2. p \in Nat /\ q \in Nat
    BY <1>1
  <2> QED
    BY <2>1, <2>2 DEF away
<1> QED
  BY <1>5

\* Of the interfaces that open there is one that comes before the others.
LEMMA Foremost ==
  ASSUME scene \in Scenes, Openable # {}
  PROVE  \E p \in Openable : \A q \in Openable \ {p} : Before(p, q)
<1>1. Openable \subseteq Pid
  BY SceneTyped DEF Openable, Laptops
<1> DEFINE listed == Openable \cap Machine.table
           K == IF listed # {} THEN listed ELSE Openable
<1>2. K \in SUBSET Pid /\ K # {} /\ K \subseteq Openable
  BY <1>1
<1>3. PICK p \in K : \A q \in K : q <= p
  BY <1>2, Highest
<1>4. \A q \in Openable \ {p} : Before(p, q)
  <2> SUFFICES ASSUME NEW q \in Openable \ {p} PROVE Before(p, q)
    OBVIOUS
  <2>1. q \in K => p > q
    <3>1. p \in Nat /\ q \in Nat
      BY <1>1, <1>2, PidNat
    <3> QED
      BY <1>3, <3>1
  <2>2. CASE listed # {}
    <3>1. p \in Machine.table /\ (q \in Machine.table => q \in K)
      BY <1>1, <2>2
    <3> QED
      BY <2>1, <3>1 DEF Before
  <2>3. CASE listed = {}
    <3>1. p \notin Machine.table /\ q \notin Machine.table /\ q \in K
      BY <1>2, <2>3
    <3> QED
      BY <2>1, <3>1 DEF Before
  <2> QED
    BY <2>2, <2>3
<1> QED
  BY <1>2, <1>4

LEMMA DetectTyped ==
  ASSUME scene \in Scenes
  PROVE  Detect \in Pid \cup {0} /\ FreshLog(Detect) \subseteq Optional
<1>1. Openable \subseteq Pid /\ Machine.laptop \in Pid /\ Machine.known \subseteq Optional
  BY SceneTyped DEF Openable, Laptops
<1>2. Openable # {} => (CHOOSE p \in Openable : \A q \in Openable \ {p} : Before(p, q)) \in Openable
  BY Foremost
<1>3. Detect \in Pid \cup {0}
  BY <1>1, <1>2 DEF Detect
<1> QED
  BY <1>1, <1>3 DEF FreshLog

\* A step is taken at a command of the program, with one of the answers.
LEMMA Stepped ==
  ASSUME TypeInv, NEW p \in Proc, Step(p)
  PROVE  /\ op[p] \in TrayOp \cup CliOp
         /\ \E reply : LET prog == Prog(op[p], intent, want)
                           s == prog[at[p]] IN
              /\ prog \in Programs /\ at[p] \in DOMAIN prog /\ s \in Commands
              /\ reply \in {Honest(p, s)} \cup Faulty(p, s)
              /\ Does(p, s, reply)
              /\ \E next \in 0 .. Len(prog) : Goes(p, prog, Outcome(p, s, reply.e), next)
         /\ UNCHANGED <<scene, busy, dev, op, want, why, failed, tray>>
<1> DEFINE prog == Prog(op[p], intent, want)
           s == prog[at[p]]
<1>1. /\ RunTypes /\ intent \in Intent /\ want \in Value
      /\ PlacedAt(p) /\ at[p] > 0
  BY DEF TypeInv, SettingTypes, WorldTypes, Step, Proc
<1>2. op[p] \in TrayOp \cup CliOp /\ at[p] \in DOMAIN prog
  BY <1>1 DEF PlacedAt, RunTypes
<1>3. prog \in Programs
  BY <1>1, <1>2, ProgTyped
<1>4. s \in Commands
  BY <1>2, <1>3 DEF Programs
<1>5. PICK reply \in {Honest(p, s)} \cup Faulty(p, s) : Advance(p, prog, reply)
  BY Zenon DEF Step
<1>6. UNCHANGED <<scene, busy, dev, op, want, why, failed, tray>>
  BY Zenon DEF Step
<1> HIDE DEF prog
<1>7. /\ Does(p, s, reply)
      /\ \E next \in 0 .. Len(prog) : Goes(p, prog, Outcome(p, s, reply.e), next)
  BY <1>2, <1>3, <1>5, Advanced
<1> QED
  BY <1>2, <1>3, <1>4, <1>5, <1>6, <1>7, Zenon DEF prog

LEMMA StepTyped ==
  ASSUME TypeInv, NEW p \in Proc, Step(p)
  PROVE  TypeInv'
<1> DEFINE prog == Prog(op[p], intent, want)
           s == prog[at[p]]
<1>1. /\ op[p] \in TrayOp \cup CliOp
      /\ UNCHANGED <<scene, busy, dev, op, want, why, failed, tray>>
  BY Stepped
<1>2. PICK reply :
        /\ prog \in Programs /\ at[p] \in DOMAIN prog /\ s \in Commands
        /\ reply \in {Honest(p, s)} \cup Faulty(p, s)
        /\ Does(p, s, reply)
        /\ \E next \in 0 .. Len(prog) : Goes(p, prog, Outcome(p, s, reply.e), next)
  BY Stepped, Zenon
<1>3. PICK next \in 0 .. Len(prog) : Goes(p, prog, Outcome(p, s, reply.e), next)
  BY <1>2
<1>4. /\ RunTypes /\ SettingTypes /\ WorldTypes
      /\ PlacedAt("tray") /\ PlacedAt("cli")
  BY Zenon DEF TypeInv
<1>5. /\ ec \in [Reg -> Value] /\ log \subseteq Optional /\ left \in [Event -> Nat]
      /\ held \in [Proc -> ModeRead]
  BY <1>4 DEF RunTypes, WorldTypes
<1> HIDE DEF prog
<1>6. /\ reply.e \in Error \cup {"Ok"} /\ reply.taken \in BOOLEAN /\ reply.shows \in Value
      /\ reply.fault # None => left["fault"] > 0
  BY <1>2, <1>5, Replied
<1> HIDE DEF s
<1> DEFINE e == Outcome(p, s, reply.e)
<1>7. e \in Error \cup {"Ok"}
  BY <1>6 DEF Outcome, Settled
<1>8. Does(p, s, reply) /\ Goes(p, prog, e, next)
  BY <1>2, <1>3
<1>9. ec' \in [Reg -> Value]
  <2>1. ec' = IF reply.taken THEN Taken(p, s) ELSE ec
    BY <1>8, Zenon DEF Does
  <2>2. Taken(p, s) \in [Reg -> Value]
    <3>1. CASE s.do = "set"
      BY <1>2, <1>5, <3>1, TakenSet
    <3>2. CASE s.do \in {"mode1", "mode2"}
      BY <1>2, <1>5, <3>2, TakenMode, PerfOfTyped
    <3>3. CASE s.do \notin {"set", "mode1", "mode2"}
      BY <1>2, <1>5, <3>3, TakenNothing
    <3> QED
      BY <3>1, <3>2, <3>3
  <2> QED
    BY <1>5, <2>1, <2>2
<1>10. log' \subseteq Optional
  <2>1. log' = log \/ (log' = log \cup {s.opt} /\ s.opt \in Optional)
    BY <1>8, Zenon DEF Does, Learnt
  <2> QED
    BY <1>5, <2>1
<1>11. left' \in [Event -> Nat]
  <2>1. left' = left \/ (left' = [left EXCEPT !["fault"] = @ - 1] /\ left["fault"] > 0)
    BY <1>6, <1>8, Zenon DEF Does
  <2> QED
    BY <1>5, <2>1 DEF Event
<1>12. WorldTypes'
  BY <1>1, <1>4, <1>9, <1>10, <1>11 DEF WorldTypes
<1>13. SettingTypes'
  BY <1>1, <1>4 DEF SettingTypes, tray
<1>14. at' = [at EXCEPT ![p] = next] /\ at \in [Proc -> Nat] /\ next \in Nat
  <2>1. at' = [at EXCEPT ![p] = next]
    BY <1>8, Zenon DEF Goes
  <2> QED
    BY <1>2, <1>4, <2>1 DEF RunTypes, Programs
<1>15. RunTypes'
  <2>1. at' \in [Proc -> Nat]
    BY <1>14
  <2>2. first' \in [Proc -> Error \cup {"Ok"}]
    <3>1. first' = [first EXCEPT ![p] = Kept(s, e, @)]
      BY <1>8, Zenon DEF Does
    <3>2. first[p] \in Error \cup {"Ok"} /\ Heard(s, e) \in Error \cup {"Ok"}
      BY <1>4, <1>7 DEF RunTypes, Heard
    <3>3. Kept(s, e, first[p]) \in Error \cup {"Ok"}
      BY <1>7, <3>2 DEF Kept
    <3> QED
      BY <1>4, <3>1, <3>3 DEF RunTypes
  <2>3. held' \in [Proc -> ModeRead]
    <3>1. PICK v : /\ v = IF e # "Ok" THEN NoMode ELSE [perf |-> ec["perf1"], fan |-> ec["fan1"]]
                   /\ held' = held \/ held' = [held EXCEPT ![p] = v]
      BY <1>8, Zenon DEF Does
    <3>2. NoMode \in ModeRead /\ [perf |-> ec["perf1"], fan |-> ec["fan1"]] \in ModeRead
      BY <1>5, ValueHas DEF NoMode, ModeRead, Reg
    <3>3. v \in ModeRead
      BY <3>1, <3>2
    <3> QED
      BY <1>5, <3>1, <3>3
  <2>4. got' \in [Proc -> Reading]
    <3>1. \/ got' = got
          \/ s.arg \in DOMAIN NoReading /\ got' = [got EXCEPT ![p][s.arg] = reply.shows]
      BY <1>8, Zenon DEF Does
    <3>2. got \in [Proc -> Reading]
      BY <1>4 DEF RunTypes
    <3>3. DOMAIN NoReading = {"cpu", "gpu", "point1", "point2", "logo", "bright", "effect",
                              "care", "max"}
      BY DEF NoReading
    <3>4. ASSUME NEW r \in Reading, NEW x \in DOMAIN NoReading
          PROVE  [r EXCEPT ![x] = reply.shows] \in Reading
      BY <1>6, <3>3 DEF Reading
    <3> QED
      BY <3>1, <3>2, <3>4
  <2>5. alone' \in [Proc -> BOOLEAN]
    BY <1>8, Zenon DEF Does
  <2>6. refused' \subseteq Reg
    <3>1. refused' = refused \/ (refused' = refused \cup {s.arg} /\ s.do = "set")
      BY <1>8, Zenon DEF Does
    <3>2. s.do = "set" => s.arg \in Reg
      BY <1>2 DEF Commands
    <3> QED
      BY <1>4, <3>1, <3>2 DEF RunTypes
  <2> QED
    BY <1>1, <1>4, <2>1, <2>2, <2>3, <2>4, <2>5, <2>6 DEF RunTypes
<1>16. \A q \in Proc : PlacedAt(q)'
  <2> SUFFICES ASSUME NEW q \in Proc PROVE PlacedAt(q)'
    OBVIOUS
  <2>1. UNCHANGED <<op, intent, want>>
    BY <1>1 DEF tray
  <2>2. CASE q = p
    <3>1. at'[p] = next
      BY <1>14
    <3>2. next > 0 => next \in DOMAIN prog
      BY <1>2 DEF Programs
    <3>3. op[p] # None
      BY <1>1 DEF TrayOp, CliOp, None
    <3> QED
      BY <2>1, <2>2, <3>1, <3>2, <3>3 DEF PlacedAt, prog
  <2>3. CASE q # p
    <3>1. at'[q] = at[q] /\ PlacedAt(q)
      BY <1>4, <1>14, <2>3 DEF Proc
    <3> QED
      BY <2>1, <3>1 DEF PlacedAt
  <2> QED
    BY <2>2, <2>3
<1> QED
  BY <1>12, <1>13, <1>15, <1>16 DEF TypeInv, Proc
LEMMA Spent ==
  ASSUME left \in [Event -> Nat], NEW e \in Event, Spend(e)
  PROVE  left' \in [Event -> Nat]
<1>1. left[e] > 0 /\ left[e] \in Nat /\ left' = [left EXCEPT ![e] = @ - 1]
  BY DEF Spend
<1>2. left[e] - 1 \in Nat
  BY <1>1
<1> QED
  BY <1>1, <1>2

LEMMA ObservedTyped ==
  ASSUME RunTypes, intent \in Intent, NEW lacking
  PROVE  Observed(lacking) \in Intent
<1>1. held["tray"] \in ModeRead /\ got["tray"] \in Reading
  BY DEF RunTypes, Proc
<1> DEFINE r == got["tray"]
           logo == IF "Logo" \in lacking THEN intent.logo ELSE r.logo
           bright == IF "KeyboardBrightness" \in lacking THEN intent.bright ELSE r.bright
           care == IF "BatteryCare" \in lacking THEN intent.care ELSE r.care
           max == IF "MaxFan" \in lacking THEN intent.max ELSE r.max
<1>2. logo \in Value /\ bright \in Value /\ care \in Value /\ max \in Value
  BY <1>1 DEF Reading, Intent
<1>3. Observed(lacking) =
        [perf |-> held["tray"].perf, fan |-> held["tray"].fan, cpu |-> r.cpu, gpu |-> r.gpu,
         rpm |-> r.point1, effect |-> r.effect, logo |-> logo, bright |-> bright,
         care |-> care, max |-> max]
  BY DEF Observed
<1> HIDE DEF logo, bright, care, max
<1> QED
  BY <1>1, <1>2, <1>3 DEF Intent, ModeRead, Reading

LEMMA ObserveTyped ==
  ASSUME RunTypes, SettingTypes, NEW lacking, Observe(lacking)
  PROVE  intent' \in Intent /\ mode' \in {"apply", "follow", "adopt"}
<1>1. intent' = intent \/ intent' = Observed(lacking)
  BY Zenon DEF Observe
<1>2. mode' = mode \/ mode' = "apply"
  BY Zenon DEF Observe
<1> QED
  BY <1>1, <1>2, ObservedTyped DEF SettingTypes

LEMMA DriftTyped ==
  ASSUME guard \in [unrepaired : 0..MaxRepairs, given_up : BOOLEAN]
  PROVE  DriftSeen.guard \in [unrepaired : 0..MaxRepairs, given_up : BOOLEAN]
<1>1. MaxRepairs \in Nat /\ guard.unrepaired \in 0..MaxRepairs
  BY LaptopAssumption
<1>2. [guard EXCEPT !.given_up = TRUE] \in [unrepaired : 0..MaxRepairs, given_up : BOOLEAN]
  OBVIOUS
<1>3. CASE guard.unrepaired >= MaxRepairs
  BY <1>2, <1>3 DEF DriftSeen
<1>4. CASE ~(guard.unrepaired >= MaxRepairs)
  <2>1. guard.unrepaired + 1 \in 0..MaxRepairs
    BY <1>1, <1>4
  <2>2. [guard EXCEPT !.unrepaired = guard.unrepaired + 1]
           \in [unrepaired : 0..MaxRepairs, given_up : BOOLEAN]
    BY <2>1
  <2> QED
    BY <1>4, <2>2 DEF DriftSeen
<1> QED
  BY <1>3, <1>4

\* resync and failures, whatever is done to them.
Retries ==
  /\ resync' \in {"no", "probe", "apply"}
  /\ failures' \in 0..ReopenAfter

LEMMA Counted ==
  ASSUME SettingTypes,
         resync' \in {resync, "no", "probe", "apply"},
         \/ failures' = failures \/ failures' = 0
         \/ failures' = IF failures < ReopenAfter THEN failures + 1 ELSE failures
         \/ failures' = IF failures = 0 THEN 1 ELSE failures
  PROVE  Retries
<1>1. failures \in 0..ReopenAfter /\ ReopenAfter \in Nat \ {0}
  BY LaptopAssumption DEF SettingTypes
<1>2. failures' \in 0..ReopenAfter
  BY <1>1
<1>3. resync' \in {"no", "probe", "apply"}
  BY DEF SettingTypes
<1> QED
  BY <1>2, <1>3 DEF Retries

LEMMA SyncEnded ==
  ASSUME SettingTypes, SyncEnds
  PROVE  Retries
<1>1. /\ resync' \in {resync, "no", "apply"}
      /\ \/ failures' = failures \/ failures' = 0
         \/ failures' = IF failures < ReopenAfter THEN failures + 1 ELSE failures
  BY Zenon DEF SyncEnds
<1> QED
  BY <1>1, Counted

\* What the tray does next: another operation, or nothing, with its retries counted.
TrayGoesOn(o) ==
  \/ Begin("tray", o) /\ UNCHANGED <<why, failed, resync, failures>>
  \/ Finish

LEMMA WentOn ==
  ASSUME SettingTypes, NEW o \in TrayOp, TrayGoesOn(o)
  PROVE  TrayMoves /\ Retries /\ UNCHANGED <<why, failed>>
<1>1. CASE Begin("tray", o) /\ UNCHANGED <<why, failed, resync, failures>>
  BY <1>1 DEF TrayMoves, Retries, SettingTypes
<1>2. CASE Finish
  <2>1. Rest("tray") /\ SyncEnds /\ UNCHANGED <<why, failed>>
    BY <1>2 DEF Finish
  <2> QED
    BY <2>1, SyncEnded DEF TrayMoves
<1> QED
  BY <1>1, <1>2 DEF TrayGoesOn

\* A step of the tray's that leaves the world alone, put together from what it does.
LEMMA TrayTyped ==
  ASSUME TypeInv, TrayMoves, Retries,
         UNCHANGED <<scene, ec, left, busy, dev, log, want>>,
         failed' = failed \/ (\E e \in Error \cup {"Ok"} : failed' = [failed EXCEPT !["tray"] = e]),
         why' \in {why, None, "update", "sync", "probe", "poll", "mend", "look"},
         intent' \in Intent, mode' \in {"apply", "follow", "adopt"},
         unsup' \in {unsup, log},
         guard' \in [unrepaired : 0..MaxRepairs, given_up : BOOLEAN]
  PROVE  TypeInv'
<1>1. SettingTypes /\ WorldTypes
  BY DEF TypeInv
<1>2. RunTypes' /\ PlacedAt("tray")' /\ PlacedAt("cli")'
  BY TrayMoved
<1>3. WorldTypes'
  BY <1>1 DEF WorldTypes
<1>4. SettingTypes'
  BY <1>1 DEF SettingTypes, WorldTypes, Retries
<1> QED
  BY <1>2, <1>3, <1>4 DEF TypeInv

LEMMA Errors ==
  ASSUME TypeInv
  PROVE  /\ first["tray"] \in Error \cup {"Ok"} /\ failed["tray"] \in Error \cup {"Ok"}
         /\ Applied \in Error \cup {"Ok"}
<1>1. first["tray"] \in Error \cup {"Ok"} /\ failed["tray"] \in Error \cup {"Ok"}
  BY DEF TypeInv, RunTypes, SettingTypes, Proc
<1> QED
  BY <1>1 DEF Applied

LEMMA ApplyDoneTyped ==
  ASSUME TypeInv, ApplyDone
  PROVE  TypeInv'
<1>1. SettingTypes
  BY DEF TypeInv
<1>2. TrayMoves
  <2>1. PICK o \in TrayOp : Begin("tray", o)
    BY Zenon DEF ApplyDone, TrayOp
  <2> QED
    BY <2>1 DEF TrayMoves
<1>3. UNCHANGED <<scene, ec, left, busy, dev, log, want, why, mode, intent, unsup, guard, resync,
                  failures>>
  BY Zenon DEF ApplyDone, opened, tray
<1>4. failed' = [failed EXCEPT !["tray"] = first["tray"]]
  BY Zenon DEF ApplyDone
<1> QED
  BY <1>1, <1>2, <1>3, <1>4, Errors, TrayTyped DEF SettingTypes, Retries

LEMMA ConfirmFailsTyped ==
  ASSUME TypeInv, ConfirmFails
  PROVE  TypeInv'
<1>1. SettingTypes
  BY DEF TypeInv
<1>2. TrayMoves
  BY DEF ConfirmFails, TrayMoves, TrayOp
<1>3. UNCHANGED <<scene, ec, left, busy, dev, log, want, why, mode, intent, unsup, guard, resync,
                  failures>>
  BY Zenon DEF ConfirmFails, opened, tray
<1>4. failed' = [failed EXCEPT !["tray"] = Applied]
  BY Zenon DEF ConfirmFails
<1> QED
  BY <1>1, <1>2, <1>3, <1>4, Errors, TrayTyped DEF SettingTypes, Retries

LEMMA ApplyEndsTyped ==
  ASSUME TypeInv, ApplyEnds
  PROVE  TypeInv'
<1>1. SettingTypes
  BY DEF TypeInv
<1>2. TrayMoves
  <2>1. Begin("tray", "read") \/ Rest("tray")
    BY Zenon DEF ApplyEnds
  <2> QED
    BY <2>1 DEF TrayMoves, TrayOp
<1>3. UNCHANGED <<scene, ec, left, busy, dev, log, want, why, mode, intent, guard>> /\ unsup' = log
  BY Zenon DEF ApplyEnds, opened
<1>4. failed' = [failed EXCEPT !["tray"] = Applied]
  BY Zenon DEF ApplyEnds
<1>5. Retries
  <2>1. /\ resync' \in {resync, "apply"}
        /\ failures' = failures \/ failures' = IF failures = 0 THEN 1 ELSE failures
    BY Zenon DEF ApplyEnds
  <2> QED
    BY <1>1, <2>1, Counted
<1> QED
  BY <1>1, <1>2, <1>3, <1>4, <1>5, Errors, TrayTyped DEF SettingTypes

LEMMA StartSyncTyped ==
  ASSUME TypeInv, StartSync
  PROVE  TypeInv'
<1>1. SettingTypes /\ WorldTypes /\ scene \in Scenes
  BY DEF TypeInv, WorldTypes
<1>2. TrayMoves
  <2>1. Begin("tray", "apply") \/ Begin("tray", "read")
    BY Zenon DEF StartSync
  <2> QED
    BY <2>1 DEF TrayMoves, TrayOp
<1>3. UNCHANGED <<scene, ec, left, busy, want, failed, mode, intent, unsup, guard, failures>>
  BY Zenon DEF StartSync
<1>4. resync' \in {resync, "no", "apply"} /\ why' \in {"sync", "probe"}
  BY Zenon DEF StartSync
<1>5. dev' \in [Proc -> Pid \cup {0}] /\ log' \subseteq Optional
  <2>1. /\ dev' = [dev EXCEPT !["tray"] = Detect] \/ dev' = dev
        /\ log' = FreshLog(Detect) \/ log' = log
    BY Zenon DEF StartSync
  <2>2. Detect \in Pid \cup {0} /\ FreshLog(Detect) \subseteq Optional
    BY <1>1, DetectTyped
  <2> QED
    BY <1>1, <2>1, <2>2 DEF WorldTypes
<1>6. RunTypes' /\ PlacedAt("tray")' /\ PlacedAt("cli")'
  BY <1>1, <1>2, <1>3, TrayMoved DEF SettingTypes
<1>7. SettingTypes'
  BY <1>1, <1>3, <1>4 DEF SettingTypes
<1>8. WorldTypes'
  BY <1>1, <1>3, <1>5 DEF WorldTypes
<1> QED
  BY <1>6, <1>7, <1>8 DEF TypeInv

LEMMA ProbesTyped ==
  ASSUME TypeInv, ProbeFails \/ ProbeDone
  PROVE  TypeInv'
<1>1. SettingTypes /\ RunTypes
  BY DEF TypeInv
<1>2. CASE ProbeFails
  <2>1. Rest("tray")
    BY <1>2 DEF ProbeFails
  <2>2. UNCHANGED <<scene, ec, left, busy, dev, log, want, why, failed, mode, intent, unsup, guard,
                    resync>>
    BY <1>2, Zenon DEF ProbeFails, opened
  <2>3. failures' = IF failures < ReopenAfter THEN failures + 1 ELSE failures
    BY <1>2, Zenon DEF ProbeFails
  <2> QED
    BY <1>1, <2>1, <2>2, <2>3, Counted, TrayTyped DEF SettingTypes, TrayMoves
<1>3. CASE ProbeDone
  <2>1. Begin("tray", "read")
    BY <1>3 DEF ProbeDone
  <2>2. UNCHANGED <<scene, ec, left, busy, dev, log, want, failed, unsup, guard>>
    BY <1>3, Zenon DEF ProbeDone, opened
  <2>3. why' \in {"mend", "look"} /\ resync' = "no" /\ failures' = 0
    BY <1>3, Zenon DEF ProbeDone
  <2>4. intent' \in Intent /\ mode' \in {"apply", "follow", "adopt"}
    <3>1. Observe(unsup) \/ UNCHANGED <<mode, intent>>
      BY <1>3, Zenon DEF ProbeDone
    <3> QED
      BY <1>1, <3>1, ObserveTyped DEF SettingTypes
  <2>5. TrayMoves
    BY <2>1 DEF TrayMoves, TrayOp
  <2> QED
    BY <1>1, <2>2, <2>3, <2>4, <2>5, Counted, TrayTyped DEF SettingTypes
<1> QED
  BY <1>2, <1>3

LEMMA PollsTyped ==
  ASSUME TypeInv, Poll \/ PollDone \/ PollFails
  PROVE  TypeInv'
<1>1. SettingTypes /\ RunTypes
  BY DEF TypeInv
<1>2. CASE Poll
  <2>1. Begin("tray", "read") /\ why' = "poll"
    BY <1>2 DEF Poll, ReadFor
  <2>2. UNCHANGED <<scene, ec, left, busy, dev, log, want, failed, mode, intent, unsup, guard,
                    resync, failures>>
    BY <1>2, Zenon DEF Poll, ReadFor, opened
  <2>3. TrayMoves
    BY <2>1 DEF TrayMoves, TrayOp
  <2> QED
    BY <1>1, <2>1, <2>2, <2>3, TrayTyped DEF SettingTypes, Retries
<1>3. CASE PollDone
  <2>1. PICK o \in {"enforce", "zones"} : TrayGoesOn(o)
    BY <1>3, Zenon DEF PollDone, TrayGoesOn
  <2>2. UNCHANGED <<scene, ec, left, busy, dev, log, want, guard>> /\ unsup' = log
    BY <1>3, Zenon DEF PollDone, opened
  <2>3. intent' \in Intent /\ mode' \in {"apply", "follow", "adopt"}
    <3>1. \/ Observe(log)
          \/ mode' = mode /\ intent' = [intent EXCEPT !.bright = Observed(log).bright]
      BY <1>3, Zenon DEF PollDone
    <3>2. Observed(log).bright \in Value
      BY <1>1, ObservedTyped DEF SettingTypes, Intent
    <3>3. [intent EXCEPT !.bright = Observed(log).bright] \in Intent
      BY <1>1, <3>2 DEF SettingTypes, Intent
    <3> QED
      BY <1>1, <3>1, <3>3, ObserveTyped DEF SettingTypes
  <2>4. TrayMoves /\ Retries /\ UNCHANGED <<why, failed>>
    BY <1>1, <2>1, WentOn DEF TrayOp
  <2> QED
    BY <1>1, <2>2, <2>3, <2>4, TrayTyped DEF SettingTypes
<1>4. CASE PollFails
  <2>1. UNCHANGED <<scene, ec, left, busy, dev, log, want, failed, mode, intent, unsup, guard>>
    BY <1>4, Zenon DEF PollFails, opened
  <2>2. \/ Begin("tray", "read") /\ why' = "mend" /\ UNCHANGED <<resync, failures>>
        \/ /\ Rest("tray") /\ resync' = "probe"
           /\ failures' = IF failures = 0 THEN 1 ELSE failures
           /\ UNCHANGED why
        \/ Rest("tray") /\ UNCHANGED <<resync, failures, why>>
    BY <1>4 DEF PollFails
  <2>3. TrayMoves
    BY <2>2 DEF TrayMoves, TrayOp
  <2>4. Retries
    BY <1>1, <2>2, Counted
  <2>5. why' \in {why, "mend"}
    BY <2>2
  <2> QED
    BY <1>1, <2>1, <2>3, <2>4, <2>5, TrayTyped DEF SettingTypes
<1> QED
  BY <1>2, <1>3, <1>4

LEMMA ReconcilesTyped ==
  ASSUME TypeInv, ReconcileDone \/ ReconcileFails \/ ZonesDone \/ EnforceDone \/ AfterDone
  PROVE  TypeInv'
<1>1. SettingTypes /\ RunTypes
  BY DEF TypeInv
<1>2. UNCHANGED <<scene, ec, left, busy, dev, log, want>> /\ unsup' \in {unsup, log}
  BY Zenon DEF ReconcileDone, ReconcileFails, ZonesDone, EnforceDone, AfterDone, opened
<1>3. TrayMoves /\ Retries /\ UNCHANGED <<why, failed>>
  <2>1. PICK o \in {"enforce", "zones", "after"} : TrayGoesOn(o)
    BY Zenon DEF ReconcileDone, ReconcileFails, ZonesDone, EnforceDone, AfterDone, TrayGoesOn
  <2> QED
    BY <1>1, <2>1, WentOn DEF TrayOp
<1>4. intent' \in Intent /\ mode' \in {"apply", "follow", "adopt"}
  <2>1. Observe(log) \/ UNCHANGED <<mode, intent>>
    BY Zenon DEF ReconcileDone, ReconcileFails, ZonesDone, EnforceDone, AfterDone
  <2> QED
    BY <1>1, <2>1, ObserveTyped DEF SettingTypes
<1>5. guard' \in [unrepaired : 0..MaxRepairs, given_up : BOOLEAN]
  <2>1. guard' \in {guard, DriftSeen.guard, [guard EXCEPT !.unrepaired = 0]}
    BY Zenon DEF ReconcileDone, ReconcileFails, ZonesDone, EnforceDone, AfterDone
  <2>2. guard \in [unrepaired : 0..MaxRepairs, given_up : BOOLEAN]
    BY <1>1 DEF SettingTypes
  <2>3. [guard EXCEPT !.unrepaired = 0] \in [unrepaired : 0..MaxRepairs, given_up : BOOLEAN]
    BY <2>2, LaptopAssumption
  <2> QED
    BY <2>1, <2>2, <2>3, DriftTyped
<1> QED
  BY <1>1, <1>2, <1>3, <1>4, <1>5, TrayTyped DEF SettingTypes

LEMMA PickTyped ==
  ASSUME TypeInv, Pick \/ WakeCheck
  PROVE  TypeInv'
<1>1. SettingTypes /\ RunTypes /\ WorldTypes /\ scene \in Scenes /\ PlacedAt("tray")
  BY DEF TypeInv, WorldTypes
<1>2. UNCHANGED <<scene, ec, busy, dev, log, want, failed, mode, unsup, guard, failures>>
  BY Zenon DEF Pick, WakeCheck, ReadFor, opened
<1>3. left' \in [Event -> Nat]
  <2>1. \E e \in {"pick", "wake"} : Spend(e)
    BY Zenon DEF Pick, WakeCheck
  <2> QED
    BY <1>1, <2>1, Spent DEF Event, WorldTypes
<1>4. intent' \in Intent
  <2>1. intent' = scene.pick \/ intent' = intent
    BY Zenon DEF Pick, WakeCheck
  <2> QED
    BY <1>1, <2>1, SceneTyped DEF SettingTypes
<1>5. TrayMoves
  <2>1. CASE Pick
    <3>1. \/ Begin("tray", "apply")
          \/ UNCHANGED <<op, at, first, held, got, alone, refused>>
      BY <2>1, Zenon DEF Pick
    <3>2. at["tray"] = 0
      <4>1. op["tray"] = None /\ at["tray"] \in Nat
        BY <1>1, <2>1 DEF Pick, Idle, RunTypes, Proc
      <4> QED
        BY <1>1, <4>1 DEF PlacedAt
    <3> QED
      BY <3>1, <3>2 DEF TrayMoves, TrayOp
  <2>2. CASE WakeCheck
    <3>1. Begin("tray", "read")
      BY <2>2 DEF WakeCheck, ReadFor
    <3> QED
      BY <3>1 DEF TrayMoves, TrayOp
  <2> QED
    BY <2>1, <2>2
<1>6. resync' \in {resync, "apply"} /\ why' \in {why, "update", "mend", "look"}
  BY Zenon DEF Pick, WakeCheck, ReadFor
<1>7. RunTypes' /\ PlacedAt("tray")' /\ PlacedAt("cli")'
  BY <1>2, <1>4, <1>5, TrayMoved
<1>8. SettingTypes'
  BY <1>1, <1>2, <1>4, <1>6 DEF SettingTypes
<1>9. WorldTypes'
  BY <1>1, <1>2, <1>3 DEF WorldTypes
<1> QED
  BY <1>7, <1>8, <1>9 DEF TypeInv

\* A step of the command line's between its commands.
LEMMA CliTyped ==
  ASSUME TypeInv, UNCHANGED <<scene, ec, busy, log, why, tray>>,
         left' \in [Event -> Nat], dev' \in [Proc -> Pid \cup {0}], want' \in Value,
         failed' \in [Proc -> Error \cup {"Ok"}],
         RunTypes' /\ PlacedAt("tray")' /\ PlacedAt("cli")'
  PROVE  TypeInv'
<1>1. SettingTypes /\ WorldTypes
  BY DEF TypeInv
<1>2. SettingTypes'
  BY <1>1 DEF SettingTypes, tray
<1>3. WorldTypes'
  BY <1>1 DEF WorldTypes
<1> QED
  BY <1>2, <1>3 DEF TypeInv

LEMMA CliStartTyped ==
  ASSUME TypeInv, CliStart
  PROVE  TypeInv'
<1>1. SettingTypes /\ RunTypes /\ WorldTypes /\ scene \in Scenes
      /\ PlacedAt("tray") /\ PlacedAt("cli") /\ intent \in Intent /\ want \in Value
  BY DEF TypeInv, WorldTypes, SettingTypes
<1>2. UNCHANGED <<scene, ec, busy, log, why, tray>> /\ Spend("cli") /\ intent' = intent
  BY Zenon DEF CliStart, OnlyCli, tray
<1>3. left' \in [Event -> Nat]
  BY <1>1, <1>2, Spent DEF Event, WorldTypes
<1>4. CASE UNCHANGED <<dev, op, at, want, first, got, held, alone, refused, failed>>
  <2>1. RunTypes' /\ PlacedAt("tray")' /\ PlacedAt("cli")'
    BY <1>1, <1>2, <1>4 DEF RunTypes, PlacedAt
  <2>2. /\ dev' \in [Proc -> Pid \cup {0}] /\ want' \in Value
        /\ failed' \in [Proc -> Error \cup {"Ok"}]
    BY <1>1, <1>4 DEF WorldTypes, SettingTypes
  <2> QED
    BY <1>2, <1>3, <2>1, <2>2, CliTyped
<1>5. CASE ~UNCHANGED <<dev, op, at, want, first, got, held, alone, refused, failed>>
  <2>1. PICK c \in scene.commands :
          /\ dev' = [dev EXCEPT !["cli"] = Detect]
          /\ op' = [op EXCEPT !["cli"] = c.op]
          /\ at' = [at EXCEPT !["cli"] = 1]
          /\ want' = c.want
          /\ alone' = [alone EXCEPT !["cli"] = TRUE]
          /\ UNCHANGED <<first, got, held, refused, failed>>
    BY <1>5, Zenon DEF CliStart
  <2>2. c.op \in CliOp /\ c.want \in Value
    BY <1>1, SceneTyped DEF Command
  <2>3. Detect \in Pid \cup {0}
    BY <1>1, DetectTyped
  <2>4. "cli" \in Proc /\ "tray" \in Proc
    BY DEF Proc
  <2>5. /\ op' \in [Proc -> TrayOp \cup CliOp \cup {None}]
        /\ op'["cli"] = c.op /\ op'["tray"] = op["tray"]
        /\ at' \in [Proc -> Nat] /\ at'["cli"] = 1 /\ at'["tray"] = at["tray"]
    BY <1>1, <2>1, <2>2, <2>4 DEF RunTypes
  <2>6. alone' \in [Proc -> BOOLEAN]
    BY <1>1, <2>1 DEF RunTypes
  <2>7. op'["tray"] \notin CliOp /\ op'["cli"] \notin TrayOp
    BY <1>1, <2>2, <2>5 DEF RunTypes, TrayOp, CliOp
  <2>8. RunTypes'
    BY <1>1, <2>1, <2>5, <2>6, <2>7 DEF RunTypes
  <2>9. PlacedAt("cli")'
    <3>1. 1 \in DOMAIN Prog(c.op, intent, c.want) /\ c.op # None
      BY <1>1, <2>2, ProgStarts DEF CliOp, None
    <3> QED
      BY <1>2, <2>1, <2>5, <3>1 DEF PlacedAt
  <2>10. PlacedAt("tray")'
    <3>1. op["tray"] # None => op["tray"] \in TrayOp
      BY <1>1, <2>4 DEF RunTypes
    <3>2. op["tray"] # None => Prog(op["tray"], intent, want') = Prog(op["tray"], intent, want)
      BY <3>1, ProgDepends
    <3> QED
      BY <1>1, <1>2, <2>5, <3>2 DEF PlacedAt
  <2>11. dev' \in [Proc -> Pid \cup {0}]
    BY <1>1, <2>1, <2>3 DEF WorldTypes
  <2> QED
    BY <1>1, <1>2, <1>3, <2>1, <2>2, <2>8, <2>9, <2>10, <2>11, CliTyped DEF SettingTypes
<1> QED
  BY <1>4, <1>5

LEMMA CliStepsTyped ==
  ASSUME TypeInv, RpmRead \/ RpmSwitched \/ CliEnds \/ Kill
  PROVE  TypeInv'
<1>1. SettingTypes /\ RunTypes /\ WorldTypes
  BY DEF TypeInv
<1>2. UNCHANGED <<scene, ec, busy, log, why, tray>> /\ intent' = intent
  BY Zenon DEF RpmRead, RpmSwitched, CliEnds, Kill, OnlyCli, tray
<1>3. left' \in [Event -> Nat]
  <2>1. left' = left \/ Spend("kill")
    BY Zenon DEF RpmRead, RpmSwitched, CliEnds, Kill
  <2> QED
    BY <1>1, <2>1, Spent DEF Event, WorldTypes
<1>4. dev' \in [Proc -> Pid \cup {0}]
  <2>1. dev' = dev \/ dev' = [dev EXCEPT !["cli"] = 0]
    BY Zenon DEF RpmRead, RpmSwitched, CliEnds, Kill
  <2> QED
    BY <1>1, <2>1 DEF WorldTypes
<1>5. want' \in Value
  <2>1. want' = want \/ want' = None
    BY Zenon DEF RpmRead, RpmSwitched, CliEnds, Kill
  <2> QED
    BY <1>1, <2>1, ValueHas DEF WorldTypes
<1>6. failed' \in [Proc -> Error \cup {"Ok"}]
  <2>1. PICK e \in {first["cli"], "Ok"} : failed' = failed \/ failed' = [failed EXCEPT !["cli"] = e]
    BY Zenon DEF RpmRead, RpmSwitched, CliEnds, Kill
  <2>2. e \in Error \cup {"Ok"}
    BY <1>1 DEF RunTypes, Proc
  <2> QED
    BY <1>1, <2>1, <2>2 DEF SettingTypes
<1>7. CliMoves
  <2>1. CASE RpmRead
    <3>1. \/ \E o \in {"points", "switch"} : Begin("cli", o)
          \/ Rest("cli")
      BY <2>1, Zenon DEF RpmRead
    <3>2. want' = want
      BY <2>1, Zenon DEF RpmRead
    <3> QED
      BY <3>1, <3>2 DEF CliMoves, CliOp
  <2>2. CASE RpmSwitched
    <3>1. \E o \in {"switched", "back"} : Begin("cli", o)
      BY <2>2, Zenon DEF RpmSwitched
    <3>2. want' = want
      BY <2>2, Zenon DEF RpmSwitched
    <3> QED
      BY <3>1, <3>2 DEF CliMoves, CliOp
  <2>3. CASE CliEnds \/ Kill
    BY <2>3 DEF CliEnds, Kill, CliMoves
  <2> QED
    BY <2>1, <2>2, <2>3
<1> QED
  BY <1>2, <1>3, <1>4, <1>5, <1>6, <1>7, CliMoved, CliTyped

LEMMA BusyTyped ==
  ASSUME TypeInv, Busy
  PROVE  TypeInv'
<1>1. SettingTypes /\ RunTypes /\ WorldTypes /\ PlacedAt("tray") /\ PlacedAt("cli")
  BY DEF TypeInv
<1>2. UNCHANGED <<scene, ec, dev, log, op, at, want, first, held, got, why, failed, mode, intent,
                  unsup, guard, resync, failures, alone, refused>> /\ Spend("busy") /\ busy' = ~busy
  BY Zenon DEF Busy, opened, run, tray, history
<1>3. left' \in [Event -> Nat]
  BY <1>1, <1>2, Spent DEF Event, WorldTypes
<1>4. RunTypes' /\ SettingTypes' /\ PlacedAt("tray")' /\ PlacedAt("cli")'
  BY <1>1, <1>2 DEF RunTypes, SettingTypes, PlacedAt
<1>5. busy' \in BOOLEAN
  BY <1>2, Zenon
<1>6. WorldTypes'
  BY <1>1, <1>2, <1>3, <1>5 DEF WorldTypes
<1> QED
  BY <1>4, <1>6 DEF TypeInv

LEMMA TypesKept ==
  ASSUME TypeInv, [Next]_vars
  PROVE  TypeInv'
<1>1. CASE TrayStep
  BY <1>1, StepTyped, StartSyncTyped, ApplyDoneTyped, ConfirmFailsTyped, ApplyEndsTyped,
     ProbesTyped, PollsTyped, ReconcilesTyped, Zenon DEF TrayStep, Proc
<1>2. CASE CliStep
  BY <1>2, StepTyped, CliStepsTyped, Zenon DEF CliStep, Proc
<1>3. CASE Pick \/ WakeCheck
  BY <1>3, PickTyped
<1>4. CASE CliStart \/ Kill
  BY <1>4, CliStartTyped, CliStepsTyped
<1>5. CASE Busy
  BY <1>5, BusyTyped
<1>6. CASE UNCHANGED vars
  <2>1. UNCHANGED <<scene, ec, left, busy, dev, log, op, at, want, first, held, got, why, failed,
                    mode, intent, unsup, guard, resync, failures, alone, refused>>
    BY <1>6, Zenon DEF vars, opened, run, tray, history
  <2>2. RunTypes' /\ SettingTypes' /\ WorldTypes' /\ PlacedAt("tray")' /\ PlacedAt("cli")'
    BY <2>1 DEF TypeInv, RunTypes, SettingTypes, WorldTypes, PlacedAt
  <2> QED
    BY <2>2 DEF TypeInv
<1> QED
  BY <1>1, <1>2, <1>3, <1>4, <1>5, <1>6, Zenon DEF Next

LEMMA TypesStart ==
  ASSUME Init
  PROVE  TypeInv
<1>1. PICK s \in Scenes :
        /\ scene = s /\ ec = s.ec /\ left = s.left /\ busy = FALSE
        /\ dev = [p \in Proc |-> IF p = "tray" THEN Detect ELSE 0]
        /\ log = FreshLog(Detect)
        /\ op = [p \in Proc |-> None] /\ at = [p \in Proc |-> 0] /\ want = None
        /\ first = [p \in Proc |-> "Ok"] /\ failed = first /\ why = None
        /\ held = [p \in Proc |-> NoMode] /\ got = [p \in Proc |-> NoReading]
        /\ mode = s.mode /\ intent = s.intent /\ unsup = {}
        /\ guard = [unrepaired |-> 0, given_up |-> FALSE]
        /\ resync = "apply" /\ failures = 0
        /\ alone = [p \in Proc |-> FALSE] /\ refused = {}
  BY Zenon DEF Init
<1>2. scene \in Scenes /\ MaxRepairs \in Nat /\ ReopenAfter \in Nat \ {0}
  BY <1>1, LaptopAssumption
<1>3. RunTypes
  <2>1. NoReading \in Reading /\ NoMode \in ModeRead
    BY ValueHas DEF NoReading, Reading, NoMode, ModeRead
  <2>2. None \notin CliOp /\ None \notin TrayOp
    BY DEF None, CliOp, TrayOp
  <2> QED
    BY <1>1, <2>1, <2>2 DEF RunTypes, Proc
<1>4. SettingTypes
  BY <1>1, <1>2, SceneTyped DEF SettingTypes
<1>5. WorldTypes
  <2>1. Detect \in Pid \cup {0} /\ FreshLog(Detect) \subseteq Optional
    BY <1>2, DetectTyped
  <2> QED
    BY <1>1, <1>2, <2>1, SceneTyped, ValueHas DEF WorldTypes
<1>6. PlacedAt("tray") /\ PlacedAt("cli")
  BY <1>1 DEF PlacedAt, Proc
<1> QED
  BY <1>3, <1>4, <1>5, <1>6 DEF TypeInv

LEMMA TypesAlways == Spec => []TypeInv
<1>1. Init => TypeInv
  BY TypesStart
<1>2. TypeInv /\ [Next]_vars => TypeInv'
  BY TypesKept
<1> QED
  BY <1>1, <1>2, PTL DEF Spec

\* Every variable keeps its type, whatever the machines, settings and commands are: no program is
\* ever at a command its operation does not have.
THEOREM TypeCorrect == Spec => []TypeOK
<1>1. TypeInv => TypeOK
  BY TypesAll DEF TypeInv
<1> QED
  BY <1>1, TypesAlways, PTL

-----------------------------------------------------------------------------
(* What is learnt, and what it is for *)

LEMMA StepLearns ==
  ASSUME TypeInv, OnlyLackingLearnt, NEW p \in Proc, Step(p)
  PROVE  OnlyLackingLearnt'
<1> DEFINE prog == Prog(op[p], intent, want)
           s == prog[at[p]]
<1>1. UNCHANGED <<scene, dev>>
  BY Stepped
<1>2. PICK reply : /\ s \in Commands /\ reply \in {Honest(p, s)} \cup Faulty(p, s)
                   /\ Does(p, s, reply)
  BY Stepped, Zenon
<1> HIDE DEF prog, s
<1>3. log' = IF Learnt(p, s, reply.e) THEN log \cup {s.opt} ELSE log
  BY <1>2, Zenon DEF Does
<1>4. ec \in [Reg -> Value]
  BY DEF TypeInv, WorldTypes
<1>5. CASE ~Learnt(p, s, reply.e)
  BY <1>1, <1>3, <1>5 DEF OnlyLackingLearnt, Machine
<1>6. CASE Learnt(p, s, reply.e)
  <2> SUFFICES ASSUME dev["tray"] = Machine.laptop
               PROVE  s.opt \in Machine.lacks
                                \cup (IF "MaxFanOn" \in Machine.lacks THEN {"MaxFan"} ELSE {})
    BY <1>1, <1>3, <1>6 DEF OnlyLackingLearnt, Machine
  <2>1. p = "tray" /\ s.opt \in Optional /\ reply.e = "NotSupported"
    BY <1>6, Zenon DEF Learnt
  <2>2. s.do \in {"set", "get", "again"} /\ OptionOf(s.arg) = s.opt
    BY <1>2, <2>1 DEF Commands, Optional, None
  <2>3. Answer(p, s) = "NotSupported"
    BY <1>2, <1>4, <2>1, Replied
  <2>4. Refuses(p, s)
    BY <2>2, <2>3 DEF Answer
  <2>5. \/ s.opt \in Machine.lacks
        \/ s.arg = "max" /\ "MaxFanOn" \in Machine.lacks
    BY <2>1, <2>2, <2>4 DEF Refuses, Lacking
  <2>6. s.arg = "max" => s.opt = "MaxFan"
    BY <2>2 DEF OptionOf
  <2> QED
    BY <2>5, <2>6
<1> QED
  BY <1>5, <1>6

LEMMA FreshLearns ==
  ASSUME TypeInv, StartSync, OnlyLackingLearnt
  PROVE  OnlyLackingLearnt'
<1>1. UNCHANGED scene /\ dev \in [Proc -> Pid \cup {0}] /\ "tray" \in Proc
  BY DEF StartSync, TypeInv, WorldTypes, Proc
<1>2. \/ dev' = [dev EXCEPT !["tray"] = Detect] /\ log' = FreshLog(Detect)
      \/ dev' = dev /\ log' = log
  BY Zenon DEF StartSync
<1> QED
  BY <1>1, <1>2 DEF OnlyLackingLearnt, Machine, FreshLog

\* The other steps leave the tray's handle and its log alone.
LEMMA KeepsTheLog ==
  ASSUME TypeInv, Next, ~Step("tray"), ~Step("cli"), ~StartSync
  PROVE  scene' = scene /\ log' = log /\ dev'["tray"] = dev["tray"]
<1>1. dev \in [Proc -> Pid \cup {0}] /\ "tray" \in Proc /\ "cli" \in Proc
  BY DEF TypeInv, WorldTypes, Proc
<1>2. scene' = scene /\ log' = log
      /\ (dev' = dev \/ \E d \in {0, Detect} : dev' = [dev EXCEPT !["cli"] = d])
  BY Zenon DEF Next, TrayStep, CliStep, ApplyDone, ConfirmFails, ApplyEnds, ProbeFails, ProbeDone,
     Poll, PollDone, PollFails, ReconcileDone, ReconcileFails, ZonesDone, EnforceDone, AfterDone,
     RpmRead, RpmSwitched, CliEnds, Pick, WakeCheck, CliStart, Kill, Busy, OnlyCli, opened
<1> QED
  BY <1>1, <1>2

\* A 0x05 to a mode read, a mode write or a boost is never taken for a missing setting: what the
\* tray leaves alone, the laptop it drives really lacks (learn_unsupported, write_optional).
THEOREM OnlyLackingLearntHolds == Spec => []OnlyLackingLearnt
<1>1. Init => OnlyLackingLearnt
  <2> SUFFICES ASSUME Init PROVE OnlyLackingLearnt
    OBVIOUS
  <2>1. dev["tray"] = Detect /\ log = FreshLog(Detect)
    BY DEF Init, Proc
  <2> QED
    BY <2>1 DEF OnlyLackingLearnt, FreshLog
<1>2. TypeInv /\ OnlyLackingLearnt /\ [Next]_vars => OnlyLackingLearnt'
  <2> SUFFICES ASSUME TypeInv, OnlyLackingLearnt, [Next]_vars PROVE OnlyLackingLearnt'
    OBVIOUS
  <2>1. CASE Step("tray") \/ Step("cli")
    BY <2>1, StepLearns DEF Proc
  <2>2. CASE StartSync
    BY <2>2, FreshLearns
  <2>3. CASE Next /\ ~Step("tray") /\ ~Step("cli") /\ ~StartSync
    BY <2>3, KeepsTheLog DEF OnlyLackingLearnt, Machine
  <2>4. CASE UNCHANGED vars
    BY <2>4 DEF OnlyLackingLearnt, Machine, vars, opened
  <2> QED
    BY <2>1, <2>2, <2>3, <2>4
<1> QED
  BY <1>1, <1>2, TypesAlways, PTL DEF Spec

\* No poll or reconcile puts a placeholder for what the laptop lacks into the intent: the tray
\* keeps the value it had (with_lacking_from).
THEOREM KeepsItsOwnHolds == Spec => KeepsItsOwn
<1>1. TypeInv /\ [Next]_vars =>
        [Reads => \A x \in Setting : OptionOf(x) \in log => intent'[x] = intent[x]]_vars
  <2> SUFFICES ASSUME TypeInv, Next, Reads, NEW x \in Setting, OptionOf(x) \in log
               PROVE  intent'[x] = intent[x]
    BY Zenon
  <2>1. /\ intent \in Intent /\ log \subseteq Optional /\ why # "probe"
        /\ op["tray"] = "read" /\ at["tray"] = 0
    BY DEF TypeInv, SettingTypes, WorldTypes, Reads, Done
  <2>2. x \in {"logo", "bright", "care", "max"}
    BY <2>1 DEF Setting, OptionOf, Optional
  <2>3. Observed(log)[x] = intent[x]
    BY <2>1, <2>2 DEF Observed, OptionOf
  <2>4. \/ intent' = intent
        \/ Observe(log)
        \/ intent' = [intent EXCEPT !.bright = Observed(log).bright]
    <3>1. ~(at["tray"] > 0) /\ ~Idle
      BY <2>1 DEF Idle, None
    <3> QED
      BY <2>1, <3>1, Zenon DEF Next, TrayStep, CliStep, Step, StartSync, ApplyDone, ConfirmFails,
         ApplyEnds, ProbeFails, ProbeDone, Poll, PollDone, PollFails, ReconcileDone, ReconcileFails,
         ZonesDone, EnforceDone, AfterDone, RpmRead, RpmSwitched, CliEnds, Pick, WakeCheck, CliStart,
         Kill, Busy, OnlyCli, tray
  <2>5. CASE Observe(log)
    <3>1. intent' = intent \/ intent' = Observed(log)
      BY <2>5, Zenon DEF Observe
    <3> QED
      BY <2>3, <3>1
  <2>6. CASE intent' = [intent EXCEPT !.bright = Observed(log).bright]
    <3>1. intent'[x] = IF x = "bright" THEN Observed(log).bright ELSE intent[x]
      BY <2>1, <2>2, <2>6 DEF Intent
    <3> QED
      BY <2>3, <3>1
  <2> QED
    BY <2>4, <2>5, <2>6
<1> QED
  BY <1>1, TypesAlways, PTL DEF Spec, KeepsItsOwn

\* What the order of fallback_pid_order is for: of the Razer devices attached to an unlisted laptop
\* its own comes first, as one of the table or as the highest of those that are not.
LaptopComesFirst ==
  \A s \in Scenes : s.machine.sku = "unlisted" =>
    LET m == s.machine IN
    /\ m.laptop \in m.pids
    /\ \A q \in m.pids \ {m.laptop} :
         IF (m.laptop \in m.table) = (q \in m.table) THEN m.laptop > q ELSE m.laptop \in m.table

LEMMA DetectsTheLaptop ==
  ASSUME LaptopComesFirst, scene \in Scenes, busy = FALSE
  PROVE  Detect \in {0, Machine.laptop}
<1>1. Machine.sku \in {"listed", "unlisted", "other"} /\ Machine.pids \subseteq Pid
  BY SceneTyped DEF Laptops
<1>2. Openable = Machine.pids
  BY DEF Openable
<1>3. CASE Machine.sku = "unlisted" /\ Openable # {}
  <2> DEFINE p == CHOOSE p \in Openable : \A q \in Openable \ {p} : Before(p, q)
  <2>1. p \in Openable /\ \A q \in Openable \ {p} : Before(p, q)
    BY <1>3, Foremost
  <2>2. Detect = p
    BY <1>3 DEF Detect
  <2> HIDE DEF p
  <2>3. Machine.laptop \in Openable /\ \A q \in Openable \ {Machine.laptop} : Before(Machine.laptop, q)
    BY <1>2, <1>3 DEF LaptopComesFirst, Machine, Before
  <2>4. p = Machine.laptop
    <3> SUFFICES ASSUME p # Machine.laptop PROVE FALSE
      OBVIOUS
    <3>1. Before(p, Machine.laptop) /\ Before(Machine.laptop, p)
      BY <2>1, <2>3
    <3>2. p \in Nat /\ Machine.laptop \in Nat
      BY <1>1, <1>2, <2>1, <2>3, PidNat
    <3> QED
      BY <3>1, <3>2 DEF Before
  <2> QED
    BY <2>2, <2>4
<1>4. CASE Machine.sku # "unlisted" \/ Openable = {}
  BY <1>1, <1>4 DEF Detect
<1> QED
  BY <1>3, <1>4

\* An unlisted laptop is what both programs open, whatever else Razer makes is attached to it and in
\* whatever order it is listed, as long as its interface opens (fallback_pid_order).
THEOREM BindsTheLaptopHolds ==
  ASSUME LaptopComesFirst
  PROVE  Spec => BindsTheLaptop
<1>1. TypeInv /\ [Next]_vars =>
        [\A p \in Proc : dev'[p] # dev[p] /\ busy = FALSE => dev'[p] \in {0, Machine.laptop}]_vars
  <2> SUFFICES ASSUME TypeInv, Next, NEW p \in Proc, dev'[p] # dev[p], busy = FALSE
               PROVE  dev'[p] \in {0, Machine.laptop}
    BY Zenon
  <2>1. scene \in Scenes /\ dev \in [Proc -> Pid \cup {0}]
    BY DEF TypeInv, WorldTypes
  <2>2. dev' = dev \/ \E q \in Proc, d \in {0, Detect} : dev' = [dev EXCEPT ![q] = d]
    <3>1. "tray" \in Proc /\ "cli" \in Proc
      BY DEF Proc
    <3> QED
      BY <3>1, Zenon DEF Next, TrayStep, CliStep, Step, StartSync, ApplyDone, ConfirmFails,
         ApplyEnds, ProbeFails, ProbeDone, Poll, PollDone, PollFails, ReconcileDone, ReconcileFails,
         ZonesDone, EnforceDone, AfterDone, RpmRead, RpmSwitched, CliEnds, Pick, WakeCheck, CliStart,
         Kill, Busy, OnlyCli, opened
  <2> QED
    BY <2>1, <2>2, DetectsTheLaptop
<1> QED
  BY <1>1, TypesAlways, PTL DEF Spec, BindsTheLaptop

-----------------------------------------------------------------------------
(* The command line *)

LEMMA JoinedAt ==
  ASSUME NEW S \in Seq(Commands), NEW T \in Seq(Commands)
  PROVE  /\ \A i \in DOMAIN S : i \in DOMAIN (S \o T) /\ (S \o T)[i] = S[i]
         /\ \A i \in DOMAIN T : /\ Len(S) + i \in DOMAIN (S \o T)
                                /\ (S \o T)[Len(S) + i] = T[i]
         /\ \A i \in DOMAIN (S \o T) :
              \/ i \in DOMAIN S /\ (S \o T)[i] = S[i]
              \/ /\ i - Len(S) \in DOMAIN T /\ (S \o T)[i] = T[i - Len(S)]
                 /\ i > Len(S)
  OBVIOUS

\* Commands of which the first error is the last word.
Plain(S) == \A i \in DOMAIN S : S[i].keep = "stop" /\ S[i].when = None /\ S[i].do # "again"

LEMMA PlainJoined ==
  ASSUME NEW S \in Seq(Commands), NEW T \in Seq(Commands), Plain(S), Plain(T)
  PROVE  Plain(S \o T)
  BY JoinedAt DEF Plain

LEMMA PlainModes ==
  ASSUME NEW perf \in Value \cup {"held"}, NEW fan \in Value
  PROVE  /\ Plain(Modes(perf, fan)) /\ Plain(<<Hold>>) /\ Plain(<<Confirm(perf, fan)>>)
         /\ <<Confirm(perf, fan)>> \in Seq(Commands)
         /\ <<Hold>> \in Seq(Commands)
  BY Atoms DEF Plain, Modes, Hold, Confirm, Do, None

LEMMA FanProgram ==
  ASSUME NEW fan \in Value
  PROVE  LET S == SetFanModeConfirmed(fan) IN
         S \in Seq(Commands) /\ Len(S) = 4 /\ Plain(S) /\ S[4] = Confirm("held", fan)
<1> DEFINE H == <<Hold>>
           C == <<Confirm("held", fan)>>
           M == Modes("held", fan)
<1>1. H \in Seq(Commands) /\ C \in Seq(Commands) /\ M \in Seq(Commands)
      /\ Plain(H) /\ Plain(C) /\ Plain(M)
  BY PlainModes, ModesTyped
<1>2. SetFanMode(fan) = H \o M /\ SetFanModeConfirmed(fan) = SetFanMode(fan) \o C
  BY DEF SetFanMode, SetFanModeConfirmed
<1>3. 1 \in DOMAIN C /\ C[1] = Confirm("held", fan)
  OBVIOUS
<1> HIDE DEF H, C, M
<1>4. /\ SetFanMode(fan) \in Seq(Commands) /\ Len(SetFanMode(fan)) = 3
      /\ SetFanModeConfirmed(fan) \in Seq(Commands) /\ Len(SetFanModeConfirmed(fan)) = 4
  BY FanTyped
<1>5. Plain(SetFanMode(fan))
  BY <1>1, <1>2, PlainJoined
<1>6. Plain(SetFanMode(fan) \o C)
  BY <1>1, <1>4, <1>5, PlainJoined
<1>7. (SetFanMode(fan) \o C)[Len(SetFanMode(fan)) + 1] = C[1]
  BY <1>1, <1>3, <1>4, JoinedAt
<1>8. Len(SetFanMode(fan)) + 1 = 4
  BY <1>4
<1> QED
  BY <1>2, <1>3, <1>4, <1>6, <1>7, <1>8

LEMMA PerfProgram ==
  ASSUME NEW perf \in Value
  PROVE  LET S == Modes(perf, "Auto") \o <<Confirm(perf, "Auto")>> IN
         S \in Seq(Commands) /\ Len(S) = 3 /\ Plain(S) /\ S[3] = Confirm(perf, "Auto")
<1> DEFINE C == <<Confirm(perf, "Auto")>>
           M == Modes(perf, "Auto")
<1>1. C \in Seq(Commands) /\ M \in Seq(Commands) /\ Plain(C) /\ Plain(M) /\ Len(M) = 2 /\ Len(C) = 1
  BY ValueHas, PlainModes, ModesTyped
<1>2. 1 \in DOMAIN C /\ C[1] = Confirm(perf, "Auto")
  OBVIOUS
<1> HIDE DEF C, M
<1>3. M \o C \in Seq(Commands) /\ Len(M \o C) = Len(M) + Len(C) /\ Plain(M \o C)
  BY <1>1, Joined, PlainJoined
<1>4. (M \o C)[Len(M) + 1] = C[1]
  BY <1>1, <1>2, JoinedAt
<1>5. Len(M) + 1 = 3 /\ Len(M) + Len(C) = 3
  BY <1>1
<1> QED
  BY <1>2, <1>3, <1>4, <1>5 DEF C, M

LEMMA PointsProgram ==
  ASSUME NEW rpm \in Value
  PROVE  LET S == SetPoints(rpm) IN
         /\ S \in Seq(Commands) /\ Len(S) = 2 /\ Plain(S)
         /\ S[1] = Set("point1", rpm) /\ S[2] = Set("point2", rpm)
<1>1. SetPoints(rpm) \in Seq(Commands) /\ Len(SetPoints(rpm)) = 2
  BY WritesTyped
<1>2. Plain(SetPoints(rpm))
  BY DEF SetPoints, Plain, Set, Do, None
<1> QED
  BY <1>1, <1>2 DEF SetPoints

\* A command of an operation that ends with its first error.
LEMMA CliSent ==
  ASSUME TypeInv, Step("cli"), NEW prog, prog = Prog(op["cli"], intent, want), Plain(prog)
  PROVE  LET s == prog[at["cli"]] IN
         /\ prog \in Seq(Commands) /\ at["cli"] \in DOMAIN prog /\ s \in Commands
         /\ UNCHANGED <<scene, dev, op, want>> /\ alone'["cli"] = alone["cli"]
         /\ ec' = ec \/ ec' = Taken("cli", s)
         /\ \/ first'["cli"] # "Ok" /\ at'["cli"] = 0
            \/ /\ first'["cli"] = first["cli"]
               /\ at'["cli"] = IF at["cli"] = Len(prog) THEN 0 ELSE at["cli"] + 1
               /\ s.do = "set" => ec' = Taken("cli", s)
               /\ s.do = "confirm" => Answer("cli", s) = "Ok" /\ ec' = ec
<1> DEFINE s == prog[at["cli"]]
<1>0. "cli" \in Proc
  BY DEF Proc
<1>1. UNCHANGED <<scene, dev, op, want>>
  BY <1>0, Stepped
<1>2. PICK reply :
        /\ prog \in Programs /\ at["cli"] \in DOMAIN prog /\ s \in Commands
        /\ reply \in {Honest("cli", s)} \cup Faulty("cli", s)
        /\ Does("cli", s, reply)
        /\ \E next \in 0 .. Len(prog) : Goes("cli", prog, Outcome("cli", s, reply.e), next)
  BY <1>0, Stepped, Zenon
<1> DEFINE e == Outcome("cli", s, reply.e)
<1>3. PICK next \in 0 .. Len(prog) : Goes("cli", prog, e, next)
  BY <1>2
<1>4. /\ first \in [Proc -> Error \cup {"Ok"}] /\ at \in [Proc -> Nat] /\ ec \in [Reg -> Value]
      /\ alone \in [Proc -> BOOLEAN]
  BY DEF TypeInv, RunTypes, WorldTypes
<1>5. s.keep = "stop" /\ s.do # "again"
  BY <1>2 DEF Plain
<1>6. e = reply.e
  <2>1. ~Learnt("cli", s, reply.e)
    BY DEF Learnt
  <2> QED
    BY <1>5, <2>1 DEF Outcome, Settled
<1>7. ec' = IF reply.taken THEN Taken("cli", s) ELSE ec
  BY <1>2, Zenon DEF Does
<1>8. first'["cli"] = Kept(s, e, first["cli"])
  <2>1. first' = [first EXCEPT !["cli"] = Kept(s, e, @)]
    BY <1>2, Zenon DEF Does
  <2> QED
    BY <1>0, <1>4, <2>1
<1>9. alone'["cli"] = alone["cli"]
  <2>1. alone' = [q \in Proc |-> alone[q] /\ (q = "cli" \/ ec' = ec)]
    BY <1>2, Zenon DEF Does
  <2>2. alone["cli"] \in BOOLEAN
    BY <1>0, <1>4
  <2> QED
    BY <1>0, <2>1, <2>2, Zenon
<1>10. at'["cli"] = next
  <2>1. at' = [at EXCEPT !["cli"] = next]
    BY <1>3, Zenon DEF Goes
  <2> QED
    BY <1>0, <1>4, <2>1
<1>11. /\ reply.e = "Ok" /\ s.do = "confirm" => Answer("cli", s) = "Ok"
       /\ reply.e = "Ok" /\ s.do = "set" => reply.taken = TRUE
  BY <1>0, <1>2, <1>4, Replied
<1>12. s.do = "confirm" => ec' = ec
  BY <1>0, <1>2, <1>7, TakenNothing
<1>13. Fatal(s, e) <=> e # "Ok"
  BY <1>5 DEF Fatal, Heard
<1>14. CASE e # "Ok"
  <2>1. first'["cli"] = e
    BY <1>8, <1>13, <1>14 DEF Kept
  <2>2. next = 0
    BY <1>2, <1>3, <1>13, <1>14, Zenon DEF Goes, Plain
  <2> QED
    BY <1>1, <1>2, <1>7, <1>9, <1>10, <1>14, <2>1, <2>2 DEF Programs
<1>15. CASE e = "Ok"
  <2>1. first'["cli"] = first["cli"]
    BY <1>4, <1>0, <1>5, <1>8, <1>13, <1>15 DEF Kept, Heard
  <2>2. \A j \in DOMAIN prog : Runs("cli", prog, e, j) <=> j > at["cli"]
    BY <1>15 DEF Runs, Skipped, Plain, None
  <2>3. \/ next \in DOMAIN prog /\ next > at["cli"] /\ \A j \in DOMAIN prog : j > at["cli"] => next <= j
        \/ next = 0 /\ \A j \in DOMAIN prog : ~(j > at["cli"])
    <3>1. \A j \in DOMAIN prog : prog[j].keep # "rejected"
      BY DEF Plain
    <3>2. \/ /\ next \in DOMAIN prog /\ Runs("cli", prog, e, next)
             /\ \A j \in DOMAIN prog : Runs("cli", prog, e, j) => next <= j
          \/ next = 0 /\ \A j \in DOMAIN prog : ~Runs("cli", prog, e, j)
      BY <1>3, <1>13, <1>15, <3>1, Zenon DEF Goes
    <3> QED
      BY <2>2, <3>2
  <2>4. DOMAIN prog = 1 .. Len(prog) /\ Len(prog) \in Nat /\ at["cli"] \in 1 .. Len(prog)
    BY <1>2 DEF Programs
  <2>5. next = IF at["cli"] = Len(prog) THEN 0 ELSE at["cli"] + 1
    <3>1. CASE at["cli"] = Len(prog)
      BY <2>3, <2>4, <3>1
    <3>2. CASE at["cli"] # Len(prog)
      <4>1. at["cli"] + 1 \in DOMAIN prog /\ at["cli"] + 1 > at["cli"]
        BY <2>4, <3>2
      <4> QED
        BY <2>3, <2>4, <3>2, <4>1
    <3> QED
      BY <3>1, <3>2
  <2> QED
    BY <1>1, <1>2, <1>6, <1>7, <1>9, <1>10, <1>11, <1>12, <1>15, <2>1, <2>5 DEF Programs
<1> QED
  BY <1>14, <1>15

\* What the tray, its user and everybody else leave of the command line's run: all of it, and of
\* the registers too unless it is no longer alone.
LEMMA CliLeftAlone ==
  ASSUME TypeInv, [Next]_vars,
         ~Step("cli"), ~RpmRead, ~RpmSwitched, ~CliEnds, ~CliStart, ~Kill
  PROVE  /\ scene' = scene /\ want' = want /\ dev'["cli"] = dev["cli"]
         /\ op'["cli"] = op["cli"] /\ at'["cli"] = at["cli"] /\ first'["cli"] = first["cli"]
         /\ alone'["cli"] => alone["cli"] /\ ec' = ec
<1>1. RunTypes /\ dev \in [Proc -> Pid \cup {0}]
  BY DEF TypeInv, WorldTypes
<1>2. "cli" \in Proc /\ "tray" \in Proc /\ "cli" # "tray"
  BY DEF Proc
<1>3. CASE Step("tray")
  <2> DEFINE prog == Prog(op["tray"], intent, want)
             s == prog[at["tray"]]
  <2>1. UNCHANGED <<scene, want, dev, op>>
    BY <1>2, <1>3, Stepped
  <2>2. PICK reply : /\ Does("tray", s, reply)
                     /\ \E next \in 0 .. Len(prog) :
                          Goes("tray", prog, Outcome("tray", s, reply.e), next)
    BY <1>2, <1>3, Stepped, Zenon
  <2>3. PICK next : Goes("tray", prog, Outcome("tray", s, reply.e), next)
    BY <2>2
  <2> HIDE DEF prog, s
  <2>4. /\ first' = [first EXCEPT !["tray"] = Kept(s, Outcome("tray", s, reply.e), @)]
        /\ alone' = [q \in Proc |-> alone[q] /\ (q = "tray" \/ ec' = ec)]
    BY <2>2, Zenon DEF Does
  <2>5. at' = [at EXCEPT !["tray"] = next]
    BY <2>3, Zenon DEF Goes
  <2>6. at'["cli"] = at["cli"] /\ first'["cli"] = first["cli"]
    BY <1>1, <1>2, <2>4, <2>5 DEF RunTypes
  <2>7. alone'["cli"] => alone["cli"] /\ ec' = ec
    BY <1>2, <2>4, Zenon
  <2> QED
    BY <2>1, <2>6, <2>7
<1>4. CASE ~Step("tray")
  <2>1. /\ scene' = scene /\ want' = want /\ ec' = ec
        /\ dev' = dev \/ dev' = [dev EXCEPT !["tray"] = Detect]
        /\ \/ \E o : Begin("tray", o)
           \/ Rest("tray")
           \/ UNCHANGED <<op, at, first, alone>>
    BY <1>4, Zenon DEF Next, TrayStep, CliStep, StartSync, ApplyDone, ConfirmFails, ApplyEnds,
       ProbeFails, ProbeDone, Poll, PollDone, PollFails, ReconcileDone, ReconcileFails, ZonesDone,
       EnforceDone, AfterDone, Pick, WakeCheck, Busy, ReadFor, Finish, opened, vars, run, history
  <2>2. op'["cli"] = op["cli"] /\ at'["cli"] = at["cli"] /\ first'["cli"] = first["cli"]
        /\ alone'["cli"] = alone["cli"]
    BY <1>1, <1>2, <2>1 DEF RunTypes, Begin, Rest
  <2>3. dev'["cli"] = dev["cli"]
    BY <1>1, <1>2, <2>1
  <2> QED
    BY <2>1, <2>2, <2>3
<1> QED
  BY <1>3, <1>4

BothPerf(perf) == ec["perf1"] = perf /\ ec["perf2"] = perf
BothFan(fan) == ec["fan1"] = fan /\ ec["fan2"] = fan

\* A fan or perf command is over without an error only after its confirm, and what `fan rpm` has
\* confirmed stays while it writes the set points.
ExitInv ==
  alone["cli"] /\ ~Lacking("cli", "ModeRead") =>
    /\ op["cli"] = "switched" => /\ BothFan("Manual")
                                 /\ at["cli"] = 2 => ec["point1"] = want
    /\ at["cli"] = 0 /\ first["cli"] = "Ok" =>
         /\ op["cli"] = "perf" => BothPerf(want)
         /\ op["cli"] = "fan" => BothFan(want)
         /\ op["cli"] = "switch" => BothFan("Manual")
         /\ op["cli"] = "switched" => ec["point1"] = want /\ ec["point2"] = want

\* A confirm that is answered with Ok has seen both zones.
LEMMA Confirmed ==
  ASSUME NEW p \in Proc, NEW perf \in Value \cup {"held"}, NEW fan,
         Answer(p, Confirm(perf, fan)) = "Ok", ~Lacking(p, "ModeRead")
  PROVE  /\ BothFan(fan)
         /\ perf # "held" => BothPerf(perf)
         /\ ec["perf1"] = ec["perf2"]
<1>1. Confirm(perf, fan).do = "confirm" /\ Confirm(perf, fan).val = fan
      /\ Confirm(perf, fan).arg = perf
  BY DEF Confirm, Do
<1>2. Confirms(p, PerfOf(p, Confirm(perf, fan)), fan) = "Ok"
  BY <1>1 DEF Answer
<1>3. ReadsModes(p) = "Ok" /\ <<ec["perf1"], ec["fan1"]>> = <<PerfOf(p, Confirm(perf, fan)), fan>>
  BY <1>2 DEF Confirms, ReadsModes
<1>4. ZonesAgree
  BY <1>3 DEF ReadsModes
<1> QED
  BY <1>1, <1>3, <1>4 DEF ZonesAgree, BothFan, BothPerf, PerfOf

LEMMA ExitStep ==
  ASSUME TypeInv, ExitInv, Step("cli")
  PROVE  ExitInv'
<1>0. "cli" \in Proc /\ intent \in Intent /\ want \in Value /\ ec \in [Reg -> Value]
  BY DEF Proc, TypeInv, SettingTypes, WorldTypes
<1> DEFINE prog == Prog(op["cli"], intent, want)
           s == prog[at["cli"]]
<1>1. UNCHANGED <<scene, dev, op, want>> /\ at["cli"] > 0 /\ at["cli"] \in Nat
  BY <1>0, Stepped DEF Step, TypeInv, RunTypes
<1>2. CASE op["cli"] = "perf"
  <2>1. prog = Modes(want, "Auto") \o <<Confirm(want, "Auto")>>
    BY <1>2 DEF Prog
  <2>2. Plain(prog) /\ Len(prog) = 3 /\ prog[3] = Confirm(want, "Auto")
    BY <1>0, <2>1, PerfProgram
  <2> HIDE DEF prog
  <2>3. /\ alone'["cli"] = alone["cli"]
        /\ \/ first'["cli"] # "Ok"
           \/ /\ at'["cli"] = IF at["cli"] = 3 THEN 0 ELSE at["cli"] + 1
              /\ s.do = "confirm" => Answer("cli", s) = "Ok" /\ ec' = ec
    BY <2>2, CliSent DEF prog
  <2>4. Confirm(want, "Auto").do = "confirm"
    BY DEF Confirm, Do
  <2>5. at'["cli"] = 0 /\ first'["cli"] = "Ok" /\ ~Lacking("cli", "ModeRead") => BothPerf(want)'
    <3> SUFFICES ASSUME at'["cli"] = 0, first'["cli"] = "Ok", ~Lacking("cli", "ModeRead")
                 PROVE  BothPerf(want)'
      OBVIOUS
    <3>1. at["cli"] = 3
      BY <1>1, <2>3
    <3>2. Answer("cli", Confirm(want, "Auto")) = "Ok" /\ ec' = ec
      BY <2>2, <2>3, <2>4, <3>1
    <3>3. want # "held"
      BY <1>0, LaptopAssumption
    <3> QED
      BY <1>0, <1>1, <3>2, <3>3, Confirmed DEF BothPerf
  <2> QED
    BY <1>1, <1>2, <2>5 DEF ExitInv, Lacking, Machine
<1>3. CASE op["cli"] \in {"fan", "switch"}
  <2> DEFINE fan == IF op["cli"] = "fan" THEN want ELSE "Manual"
  <2>1. prog = SetFanModeConfirmed(fan) /\ fan \in Value
    BY <1>0, <1>3, ValueHas DEF Prog
  <2> HIDE DEF fan
  <2>2. Plain(prog) /\ Len(prog) = 4 /\ prog[4] = Confirm("held", fan)
    BY <2>1, FanProgram
  <2> HIDE DEF prog
  <2>3. /\ alone'["cli"] = alone["cli"]
        /\ \/ first'["cli"] # "Ok"
           \/ /\ at'["cli"] = IF at["cli"] = 4 THEN 0 ELSE at["cli"] + 1
              /\ s.do = "confirm" => Answer("cli", s) = "Ok" /\ ec' = ec
    BY <2>2, CliSent DEF prog
  <2>4. Confirm("held", fan).do = "confirm"
    BY DEF Confirm, Do
  <2>5. at'["cli"] = 0 /\ first'["cli"] = "Ok" /\ ~Lacking("cli", "ModeRead") => BothFan(fan)'
    <3> SUFFICES ASSUME at'["cli"] = 0, first'["cli"] = "Ok", ~Lacking("cli", "ModeRead")
                 PROVE  BothFan(fan)'
      OBVIOUS
    <3>1. at["cli"] = 4
      BY <1>1, <2>3
    <3>2. Answer("cli", Confirm("held", fan)) = "Ok" /\ ec' = ec
      BY <2>2, <2>3, <2>4, <3>1
    <3>3. BothFan(fan)
      BY <1>0, <3>2, Confirmed
    <3>4. fan' = fan
      BY <1>1 DEF fan
    <3> QED
      BY <3>2, <3>3, <3>4 DEF BothFan
  <2>6. BothFan(fan)' => (op["cli"] = "fan" => BothFan(want)') /\ (op["cli"] = "switch" => BothFan("Manual")')
    BY <1>1 DEF BothFan, fan
  <2> QED
    BY <1>1, <1>3, <2>5, <2>6 DEF ExitInv, Lacking, Machine
<1>4. CASE op["cli"] = "switched"
  <2>1. prog = SetPoints(want)
    BY <1>4 DEF Prog
  <2>2. Plain(prog) /\ Len(prog) = 2 /\ prog[1] = Set("point1", want) /\ prog[2] = Set("point2", want)
    BY <1>0, <2>1, PointsProgram
  <2> HIDE DEF prog
  <2>3. /\ alone'["cli"] = alone["cli"] /\ s \in Commands /\ at["cli"] \in {1, 2}
        /\ ec' = ec \/ ec' = Taken("cli", s)
        /\ \/ first'["cli"] # "Ok" /\ at'["cli"] = 0
           \/ /\ at'["cli"] = IF at["cli"] = 2 THEN 0 ELSE at["cli"] + 1
              /\ s.do = "set" => ec' = Taken("cli", s)
    <3>1. at["cli"] \in DOMAIN prog /\ prog \in Seq(Commands)
      BY <2>2, CliSent DEF prog
    <3>2. at["cli"] \in {1, 2}
      BY <1>1, <2>2, <3>1
    <3> QED
      BY <2>2, <3>2, CliSent DEF prog
  <2>4. s = IF at["cli"] = 1 THEN Set("point1", want) ELSE Set("point2", want)
    BY <2>2, <2>3
  <2>5. /\ s.do = "set" /\ s.val = want
        /\ s.arg = IF at["cli"] = 1 THEN "point1" ELSE "point2"
    BY <2>4 DEF Set, Do
  <2> HIDE DEF s
  <2>6. \A reg \in Reg : Taken("cli", s)[reg] = IF reg = s.arg THEN want ELSE ec[reg]
    BY <1>0, <2>3, <2>5, TakenSet
  <2>7. "fan1" \in Reg /\ "fan2" \in Reg /\ "point1" \in Reg /\ "point2" \in Reg
    BY DEF Reg
  <2>8. ec'["fan1"] = ec["fan1"] /\ ec'["fan2"] = ec["fan2"]
    BY <2>3, <2>5, <2>6, <2>7
  <2>9. at'["cli"] = 2 => ec'["point1"] = want
    BY <2>3, <2>5, <2>6, <2>7
  <2>10. at'["cli"] = 0 /\ first'["cli"] = "Ok" => at["cli"] = 2 /\ ec'["point2"] = want
                                                   /\ ec'["point1"] = ec["point1"]
    BY <2>3, <2>5, <2>6, <2>7
  <2> QED
    BY <1>1, <1>4, <2>3, <2>8, <2>9, <2>10 DEF ExitInv, BothFan, Lacking, Machine
<1>5. CASE op["cli"] \notin {"perf", "fan", "switch", "switched"}
  BY <1>1, <1>5 DEF ExitInv
<1> QED
  BY <1>2, <1>3, <1>4, <1>5

LEMMA ExitMoves ==
  ASSUME TypeInv, ExitInv, RpmRead \/ RpmSwitched \/ CliEnds \/ CliStart \/ Kill
  PROVE  ExitInv'
<1>1. RunTypes /\ scene \in Scenes /\ "cli" \in Proc
  BY DEF TypeInv, WorldTypes, Proc
<1>2. CASE RpmRead \/ CliEnds \/ Kill
  <2>1. \/ \E o \in {"points", "switch"} : Begin("cli", o)
        \/ Rest("cli")
    BY <1>2, Zenon DEF RpmRead, CliEnds, Kill
  <2>2. \/ op'["cli"] \in {"points", "switch"} /\ at'["cli"] = 1
        \/ op'["cli"] = None
    BY <1>1, <2>1 DEF RunTypes, Begin, Rest
  <2> QED
    BY <2>2 DEF ExitInv, None
<1>3. CASE RpmSwitched
  <2>1. CASE first["cli"] = "Ok"
    <3>1. /\ Begin("cli", "switched") /\ op["cli"] = "switch" /\ at["cli"] = 0
          /\ UNCHANGED <<scene, ec, want, dev>>
      BY <1>3, <2>1, Zenon DEF RpmSwitched, CliDone, OnlyCli
    <3>2. op'["cli"] = "switched" /\ at'["cli"] = 1
      BY <1>1, <3>1 DEF RunTypes, Begin
    <3>3. alone'["cli"] => alone["cli"]
      <4>1. alone' = [alone EXCEPT !["cli"] = @ \/ "switched" \in {"apply", "read"}]
        BY <3>1, Zenon DEF Begin
      <4>2. alone'["cli"] = (alone["cli"] \/ "switched" \in {"apply", "read"})
        BY <1>1, <4>1, Zenon DEF RunTypes
      <4> QED
        BY <4>2
    <3> QED
      BY <2>1, <3>1, <3>2, <3>3 DEF ExitInv, BothFan, Lacking, Machine
  <2>2. CASE first["cli"] # "Ok"
    <3>1. Begin("cli", "back")
      BY <1>3, <2>2, Zenon DEF RpmSwitched
    <3>2. op'["cli"] = "back"
      BY <1>1, <3>1 DEF RunTypes, Begin
    <3> QED
      BY <3>2 DEF ExitInv
  <2> QED
    BY <2>1, <2>2
<1>4. CASE CliStart
  <2>1. CASE UNCHANGED <<dev, op, at, want, first, got, held, alone, refused, failed>>
    <3>1. scene' = scene /\ ec' = ec
      BY <1>4 DEF CliStart, OnlyCli
    <3> QED
      BY <2>1, <3>1 DEF ExitInv, BothFan, BothPerf, Lacking, Machine
  <2>2. CASE ~UNCHANGED <<dev, op, at, want, first, got, held, alone, refused, failed>>
    <3>1. PICK c \in scene.commands : /\ op' = [op EXCEPT !["cli"] = c.op]
                                      /\ at' = [at EXCEPT !["cli"] = 1]
      BY <1>4, <2>2, Zenon DEF CliStart
    <3>2. op'["cli"] # "switched" /\ at'["cli"] = 1
      BY <1>1, <3>1, SceneTyped DEF RunTypes, Command
    <3> QED
      BY <3>2 DEF ExitInv
  <2> QED
    BY <2>1, <2>2
<1> QED
  BY <1>2, <1>3, <1>4

\* Exit status 0 of `fan` or `perf` means that both zones took what was typed, unless somebody else
\* wrote the EC meanwhile: whatever the bus loses, repeats or acknowledges without doing
\* (set_fan_mode_confirmed, confirm_perf_mode).
THEOREM ExitMeansAppliedHolds == Spec => []ExitMeansApplied
<1>1. Init => ExitInv
  BY DEF Init, ExitInv, Proc, None
<1>2. TypeInv /\ ExitInv /\ [Next]_vars => ExitInv'
  <2> SUFFICES ASSUME TypeInv, ExitInv, [Next]_vars PROVE ExitInv'
    OBVIOUS
  <2>1. CASE Step("cli")
    BY <2>1, ExitStep
  <2>2. CASE RpmRead \/ RpmSwitched \/ CliEnds \/ CliStart \/ Kill
    BY <2>2, ExitMoves
  <2>3. CASE ~Step("cli") /\ ~RpmRead /\ ~RpmSwitched /\ ~CliEnds /\ ~CliStart /\ ~Kill
    BY <2>3, CliLeftAlone DEF ExitInv, BothFan, BothPerf, Lacking, Machine
  <2> QED
    BY <2>1, <2>2, <2>3
<1>3. ExitInv => ExitMeansApplied
  BY DEF ExitInv, ExitMeansApplied, Exits, BothFan, BothPerf
<1> QED
  BY <1>1, <1>2, <1>3, TypesAlways, PTL DEF Spec

-----------------------------------------------------------------------------
(* What an apply sends, in its order *)

\* The place of a command in an apply; the Custom checks in between have none.
Rank(s) ==
  CASE s.do = "mode1" -> IF s.arg = "held" THEN 8 ELSE 1
    [] s.do = "mode2" -> IF s.arg = "held" THEN 9 ELSE 2
    [] s.do = "confirm" -> 3
    [] s.do = "hold" -> 7
    [] s.do = "set" -> CASE s.arg = "cpu" -> 4 [] s.arg = "gpu" -> 5 [] s.arg = "max" -> 6
                         [] s.arg = "point1" -> 10 [] s.arg = "point2" -> 11
                         [] s.arg = "logo" -> 12 [] s.arg = "lit" -> 13
                         [] s.arg = "effect" -> 14 [] s.arg = "bright" -> 15
                         [] s.arg = "care" -> 16 [] OTHER -> 0
    [] OTHER -> 0

PartAt(rank) ==
  CASE rank \in 1 .. 5 -> "perf" [] rank = 6 -> "max" [] rank \in 7 .. 11 -> "fan"
    [] rank \in 12 .. 13 -> "logo" [] rank = 14 -> "effect" [] rank = 15 -> "bright"
    [] rank = 16 -> "care" [] OTHER -> None

\* What w asks of a register.
Target(w, reg) ==
  CASE reg = "cpu" -> w.cpu [] reg = "gpu" -> w.gpu [] reg = "max" -> w.max
    [] reg \in {"point1", "point2"} -> w.rpm
    [] reg = "logo" -> w.logo [] reg = "lit" -> (IF w.logo = "Off" THEN "Off" ELSE "On")
    [] reg = "effect" -> w.effect [] reg = "bright" -> w.bright [] reg = "care" -> w.care
    [] OTHER -> None

Asked == {"cpu", "gpu", "max", "point1", "point2", "logo", "lit", "effect", "bright", "care"}
OptOf(reg) == IF OptionOf(reg) \in Optional THEN OptionOf(reg) ELSE None

\* A command w may be applied with, before it is put into its part.
Bare(w, s) ==
  /\ s \in Commands /\ s.when = None
  /\ s.do \in {"set", "hold", "custom", "confirm", "mode1", "mode2"}
  /\ s.do = "set" => s.arg \in Asked /\ s.val = Target(w, s.arg)
                     /\ (s.arg = "max" => w.perf = "Custom")
  /\ s.do # "set" => s.opt = None
  /\ s.do = "confirm" => s.arg = "Custom" /\ w.perf = "Custom"
  /\ s.do \in {"mode1", "mode2"} => s.arg \in {"held", w.perf}

\* In its part, where it may be one that is always tried or one that ends with the bus; what is
\* skipped for a setting is so for its own.
Fits(w, s) ==
  /\ Bare(w, s) /\ s.keep \in {"any", "rejected"}
  /\ s.do = "set" => s.opt = OptOf(s.arg)
  /\ s.do # "custom" => s.part = PartAt(Rank(s))
  /\ s.do = "custom" => s.part \in {"perf", "max"}

Ordered(S) ==
  \A i, j \in DOMAIN S : i < j /\ S[i].do # "custom" /\ S[j].do # "custom" => Rank(S[i]) < Rank(S[j])
Within(S, lo, hi) == \A i \in DOMAIN S : S[i].do = "custom" \/ Rank(S[i]) \in lo .. hi

\* A stretch of an apply, with the ranks lo to hi.
Stretch(w, S, lo, hi) ==
  /\ S \in Seq(Commands) /\ Ordered(S) /\ Within(S, lo, hi) /\ \A i \in DOMAIN S : Bare(w, S[i])
Fitting(w, S) == \A i \in DOMAIN S : Fits(w, S[i])

Has(S, do, arg) == \E i \in DOMAIN S : S[i].do = do /\ S[i].arg = arg

LEMMA HasJoined ==
  ASSUME NEW S \in Seq(Commands), NEW T \in Seq(Commands), NEW do, NEW arg,
         Has(S, do, arg) \/ Has(T, do, arg)
  PROVE  Has(S \o T, do, arg)
<1>1. CASE Has(S, do, arg)
  BY <1>1, JoinedAt DEF Has
<1>2. CASE Has(T, do, arg)
  <2>1. PICK i \in DOMAIN T : T[i].do = do /\ T[i].arg = arg
    BY <1>2 DEF Has
  <2>2. Len(S) + i \in DOMAIN (S \o T) /\ (S \o T)[Len(S) + i] = T[i]
    BY JoinedAt
  <2> QED
    BY <2>1, <2>2, Zenon DEF Has
<1> QED
  BY <1>1, <1>2

LEMMA StretchJoined ==
  ASSUME NEW w, NEW S, NEW T, NEW lo \in Nat, NEW mid \in Nat, NEW hi \in Nat, NEW next \in Nat,
         Stretch(w, S, lo, mid), Stretch(w, T, next, hi), lo <= next, mid < next, mid <= hi
  PROVE  Stretch(w, S \o T, lo, hi)
<1>1. S \in Seq(Commands) /\ T \in Seq(Commands)
  BY DEF Stretch
<1>2. S \o T \in Seq(Commands)
  BY <1>1
<1>3. \A i \in DOMAIN (S \o T) : Bare(w, (S \o T)[i])
  BY <1>1, JoinedAt DEF Stretch
<1>4. Within(S \o T, lo, hi)
  <2>1. \A i \in DOMAIN S : S[i].do = "custom" \/ Rank(S[i]) \in lo .. hi
    BY DEF Stretch, Within
  <2>2. \A i \in DOMAIN T : T[i].do = "custom" \/ Rank(T[i]) \in lo .. hi
    BY DEF Stretch, Within
  <2> QED
    BY <1>1, <2>1, <2>2, JoinedAt DEF Within
<1>5. Ordered(S \o T)
  <2> SUFFICES ASSUME NEW i \in DOMAIN (S \o T), NEW j \in DOMAIN (S \o T), i < j,
                      (S \o T)[i].do # "custom", (S \o T)[j].do # "custom"
               PROVE  Rank((S \o T)[i]) < Rank((S \o T)[j])
    BY DEF Ordered
  <2> DEFINE n == Len(S)
  <2>1. n \in Nat /\ i \in Nat /\ j \in Nat
    BY <1>1, <1>2
  <2>2. CASE i \in DOMAIN S /\ (S \o T)[i] = S[i] /\ j \in DOMAIN S /\ (S \o T)[j] = S[j]
    BY <2>2 DEF Stretch, Ordered
  <2>3. CASE i \in DOMAIN S /\ (S \o T)[i] = S[i] /\ j - n \in DOMAIN T /\ (S \o T)[j] = T[j - n]
    <3>1. Rank(S[i]) \in lo .. mid /\ Rank(T[j - n]) \in next .. hi
      BY <2>3 DEF Stretch, Within
    <3> QED
      BY <2>3, <3>1
  <2>4. CASE i - n \in DOMAIN T /\ (S \o T)[i] = T[i - n] /\ j - n \in DOMAIN T /\ (S \o T)[j] = T[j - n]
    <3>1. i - n < j - n
      BY <2>1
    <3> QED
      BY <2>4, <3>1 DEF Stretch, Ordered
  <2>5. j \in DOMAIN S => j <= n
    BY <1>1
  <2> QED
    BY <1>1, <2>1, <2>2, <2>3, <2>4, <2>5, JoinedAt
<1> QED
  BY <1>2, <1>3, <1>4, <1>5 DEF Stretch

LEMMA FittingJoined ==
  ASSUME NEW w, NEW S \in Seq(Commands), NEW T \in Seq(Commands), Fitting(w, S), Fitting(w, T)
  PROVE  Fitting(w, S \o T)
  BY JoinedAt DEF Fitting

\* Nothing is sent out of order that is not sent.
LEMMA StretchEmpty ==
  ASSUME NEW w, NEW lo, NEW hi
  PROVE  Stretch(w, << >>, lo, hi) /\ Fitting(w, << >>)
  BY DEF Stretch, Fitting, Ordered, Within

LEMMA StretchOne ==
  ASSUME NEW w, NEW c, Bare(w, c), NEW lo, NEW hi, c.do = "custom" \/ Rank(c) \in lo .. hi
  PROVE  Stretch(w, <<c>>, lo, hi) /\ Has(<<c>>, c.do, c.arg)
<1>1. c \in Commands
  BY DEF Bare
<1>2. <<c>> \in Seq(Commands) /\ DOMAIN <<c>> = {1} /\ <<c>>[1] = c
  BY <1>1
<1>3. Ordered(<<c>>)
  BY <1>2 DEF Ordered
<1>4. Within(<<c>>, lo, hi) /\ \A i \in DOMAIN <<c>> : Bare(w, <<c>>[i])
  BY <1>2 DEF Within
<1>5. Has(<<c>>, c.do, c.arg)
  BY <1>2 DEF Has
<1> QED
  BY <1>2, <1>3, <1>4, <1>5 DEF Stretch

LEMMA StretchTwo ==
  ASSUME NEW w, NEW c, NEW d, Bare(w, c), Bare(w, d), NEW lo \in Nat, NEW hi \in Nat,
         c.do = "custom" \/ Rank(c) \in lo .. hi, d.do = "custom" \/ Rank(d) \in lo .. hi,
         c.do = "custom" \/ d.do = "custom" \/ Rank(c) < Rank(d)
  PROVE  Stretch(w, <<c, d>>, lo, hi) /\ Has(<<c, d>>, c.do, c.arg) /\ Has(<<c, d>>, d.do, d.arg)
<1>1. c \in Commands /\ d \in Commands
  BY DEF Bare
<1>2. /\ <<c, d>> \in Seq(Commands) /\ DOMAIN <<c, d>> = {1, 2}
      /\ <<c, d>>[1] = c /\ <<c, d>>[2] = d
  BY <1>1
<1>3. Ordered(<<c, d>>)
  <2> SUFFICES ASSUME NEW i \in {1, 2}, NEW j \in {1, 2}, i < j,
                      <<c, d>>[i].do # "custom", <<c, d>>[j].do # "custom"
               PROVE  Rank(<<c, d>>[i]) < Rank(<<c, d>>[j])
    BY <1>2, Zenon DEF Ordered
  <2>1. i = 1 /\ j = 2
    OBVIOUS
  <2> QED
    BY <1>2, <2>1
<1>4. Within(<<c, d>>, lo, hi) /\ \A i \in DOMAIN <<c, d>> : Bare(w, <<c, d>>[i])
  <2>1. \A i \in {1, 2} : <<c, d>>[i] \in {c, d}
    BY <1>2
  <2> QED
    BY <1>2, <2>1 DEF Within
<1>5. Has(<<c, d>>, c.do, c.arg) /\ Has(<<c, d>>, d.do, d.arg)
  BY <1>2 DEF Has
<1> QED
  BY <1>2, <1>3, <1>4, <1>5 DEF Stretch

\* What is written is skipped for its own setting.
Opted(S) == \A i \in DOMAIN S : S[i].do = "set" => S[i].opt = OptOf(S[i].arg)

LEMMA OptedJoined ==
  ASSUME NEW S \in Seq(Commands), NEW T \in Seq(Commands), Opted(S), Opted(T)
  PROVE  Opted(S \o T)
  BY JoinedAt DEF Opted

LEMMA PartSame ==
  ASSUME NEW steps \in Seq(Commands), NEW part \in PartNames, NEW keep \in {"any", "rejected"}
  PROVE  Part(part, keep, steps) \in Seq(Commands) /\ Len(Part(part, keep, steps)) = Len(steps)
<1>1. /\ Part(part, "any", steps) \in Seq(Commands)
      /\ Len(Part(part, "any", steps)) = Len(steps)
  BY PartTyped
<1>2. /\ Part(part, "rejected", steps) \in Seq(Commands)
      /\ Len(Part(part, "rejected", steps)) = Len(steps)
  BY PartTyped
<1> QED
  BY <1>1, <1>2

\* A command put into its part, or skipped for its setting, is where it was.
LEMMA PartStretch ==
  ASSUME NEW w, NEW S, NEW lo \in Nat, NEW hi \in Nat, Stretch(w, S, lo, hi), Opted(S),
         NEW part \in PartNames, NEW keep \in {"any", "rejected"},
         \A rank \in lo .. hi : PartAt(rank) = part,
         \A i \in DOMAIN S : S[i].do = "custom" => part \in {"perf", "max"}
  PROVE  /\ Stretch(w, Part(part, keep, S), lo, hi) /\ Fitting(w, Part(part, keep, S))
         /\ \A do, arg : Has(S, do, arg) => Has(Part(part, keep, S), do, arg)
<1> DEFINE P == Part(part, keep, S)
<1>1. S \in Seq(Commands)
  BY DEF Stretch
<1>2. P \in Seq(Commands) /\ Len(P) = Len(S)
  BY <1>1, PartSame
<1>3. \A i \in DOMAIN S : P[i] = [S[i] EXCEPT !.part = part, !.keep = keep]
  BY DEF Part
<1> HIDE DEF P
<1>4. DOMAIN P = DOMAIN S /\ \A i \in DOMAIN S : S[i] \in Commands /\ P[i] \in Commands
  BY <1>1, <1>2
<1>5. \A i \in DOMAIN S :
        /\ P[i].do = S[i].do /\ P[i].arg = S[i].arg /\ P[i].val = S[i].val /\ P[i].opt = S[i].opt
        /\ P[i].when = S[i].when /\ P[i].part = part /\ P[i].keep = keep
  <2> SUFFICES ASSUME NEW i \in DOMAIN S
               PROVE  /\ P[i].do = S[i].do /\ P[i].arg = S[i].arg /\ P[i].val = S[i].val
                      /\ P[i].opt = S[i].opt
                      /\ P[i].when = S[i].when /\ P[i].part = part /\ P[i].keep = keep
    OBVIOUS
  <2>1. S[i] \in [do : {"set", "get", "again", "hold", "custom", "confirm", "mode1", "mode2"},
                  arg : Arg, val : Value, opt : Optional \cup {None}, part : PartNames,
                  keep : {"stop", "any", "rejected", "ignore", "lists", "notes", "prints"},
                  when : {None, "off", "Custom", "Manual", "differ", "boosted"}]
    BY <1>4 DEF Commands, PartNames
  <2>2. P[i] = [S[i] EXCEPT !.part = part, !.keep = keep]
    BY <1>3
  <2> QED
    BY <2>1, <2>2
<1>6. \A i \in DOMAIN S : Rank(P[i]) = Rank(S[i])
  BY <1>5 DEF Rank
<1>7. \A i \in DOMAIN S : Bare(w, P[i])
  BY <1>4, <1>5 DEF Stretch, Bare
<1>8. Ordered(P) /\ Within(P, lo, hi)
  BY <1>4, <1>5, <1>6 DEF Stretch, Ordered, Within
<1>9. Fitting(w, P)
  <2> SUFFICES ASSUME NEW i \in DOMAIN S PROVE Fits(w, P[i])
    BY <1>4 DEF Fitting
  <2>1. P[i].do # "custom" => PartAt(Rank(P[i])) = part
    BY <1>4, <1>8 DEF Within
  <2>2. P[i].do = "set" => P[i].opt = OptOf(P[i].arg)
    BY <1>5 DEF Opted
  <2> QED
    BY <1>5, <1>7, <2>1, <2>2 DEF Fits
<1>10. \A do, arg : Has(S, do, arg) => Has(P, do, arg)
  BY <1>4, <1>5 DEF Has
<1> QED
  BY <1>2, <1>4, <1>7, <1>8, <1>9, <1>10 DEF Stretch, P

LEMMA ForStretch ==
  ASSUME NEW w, NEW S, NEW lo, NEW hi, Stretch(w, S, lo, hi), NEW opt \in Optional,
         \A i \in DOMAIN S : S[i].do = "set" /\ OptionOf(S[i].arg) = opt
  PROVE  /\ Stretch(w, For(opt, S), lo, hi) /\ Opted(For(opt, S))
         /\ \A i \in DOMAIN For(opt, S) : For(opt, S)[i].do = "set"
         /\ \A do, arg : Has(S, do, arg) => Has(For(opt, S), do, arg)
<1> DEFINE P == For(opt, S)
<1>1. S \in Seq(Commands)
  BY DEF Stretch
<1>2. P \in Seq(Commands) /\ Len(P) = Len(S)
      /\ \A i \in DOMAIN S : P[i] = [S[i] EXCEPT !.opt = opt]
  BY <1>1, ForTyped
<1>3. DOMAIN P = DOMAIN S
  BY <1>1, <1>2
<1>4. \A i \in DOMAIN S : S[i] \in Commands /\ P[i] \in Commands
  BY <1>1, <1>2, <1>3
<1> HIDE DEF P
<1>5. \A i \in DOMAIN S :
        /\ P[i].do = S[i].do /\ P[i].arg = S[i].arg /\ P[i].val = S[i].val /\ P[i].opt = opt
        /\ P[i].when = S[i].when
  <2> SUFFICES ASSUME NEW i \in DOMAIN S
               PROVE  /\ P[i].do = S[i].do /\ P[i].arg = S[i].arg /\ P[i].val = S[i].val
                      /\ P[i].opt = opt /\ P[i].when = S[i].when
    OBVIOUS
  <2>1. S[i] \in [do : {"set", "get", "again", "hold", "custom", "confirm", "mode1", "mode2"},
                  arg : Arg, val : Value, opt : Optional \cup {None}, part : PartNames,
                  keep : {"stop", "any", "rejected", "ignore", "lists", "notes", "prints"},
                  when : {None, "off", "Custom", "Manual", "differ", "boosted"}]
    BY <1>4 DEF Commands, PartNames
  <2>2. P[i] = [S[i] EXCEPT !.opt = opt]
    BY <1>2
  <2> QED
    BY <2>1, <2>2
<1>6. \A i \in DOMAIN S : Rank(P[i]) = Rank(S[i])
  BY <1>5 DEF Rank
<1>7. \A i \in DOMAIN S : Bare(w, P[i])
  BY <1>4, <1>5 DEF Stretch, Bare
<1>8. Ordered(P) /\ Within(P, lo, hi)
  BY <1>3, <1>5, <1>6 DEF Stretch, Ordered, Within
<1>9. Opted(P)
  BY <1>3, <1>5 DEF Opted, OptOf
<1>10. \A do, arg : Has(S, do, arg) => Has(P, do, arg)
  BY <1>3, <1>5 DEF Has
<1>11. \A i \in DOMAIN P : P[i].do = "set"
  BY <1>3, <1>5
<1> QED
  BY <1>2, <1>3, <1>7, <1>8, <1>9, <1>10, <1>11 DEF Stretch, P

\* The commands one by one.
LEMMA BareSet ==
  ASSUME NEW w \in Intent, NEW reg \in Asked, reg = "max" => w.perf = "Custom"
  PROVE  /\ Bare(w, Set(reg, Target(w, reg)))
         /\ Set(reg, Target(w, reg)).do = "set" /\ Set(reg, Target(w, reg)).arg = reg
         /\ Set(reg, Target(w, reg)).opt = None
<1>1. reg \in Reg /\ Target(w, reg) \in Value
  <2>1. {"Off", "On"} \subseteq Value
    BY ValueHas
  <2> QED
    BY <2>1 DEF Asked, Reg, Target, Intent
<1>2. Set(reg, Target(w, reg)) \in Commands
  BY <1>1, Atoms
<1>3. /\ Set(reg, Target(w, reg)).do = "set" /\ Set(reg, Target(w, reg)).arg = reg
      /\ Set(reg, Target(w, reg)).val = Target(w, reg)
      /\ Set(reg, Target(w, reg)).opt = None /\ Set(reg, Target(w, reg)).when = None
  BY DEF Set, Do
<1> HIDE DEF Target
<1> QED
  BY <1>2, <1>3 DEF Bare

LEMMA BareModes ==
  ASSUME NEW w \in Intent, NEW fan \in Value, NEW perf \in {"held", w.perf}
  PROVE  /\ Stretch(w, Modes(perf, fan), IF perf = "held" THEN 8 ELSE 1,
                    IF perf = "held" THEN 9 ELSE 2)
         /\ Opted(Modes(perf, fan)) /\ \A i \in DOMAIN Modes(perf, fan) : Modes(perf, fan)[i].do # "custom"
<1> DEFINE c == Do("mode1", perf, fan)
           d == Do("mode2", perf, fan)
<1>1. c \in Commands /\ d \in Commands
  BY Atoms DEF Intent
<1>2. /\ c.do = "mode1" /\ c.arg = perf /\ c.opt = None /\ c.when = None
      /\ d.do = "mode2" /\ d.arg = perf /\ d.opt = None /\ d.when = None
  BY DEF Do
<1>3. Modes(perf, fan) = <<c, d>>
  BY DEF Modes
<1> HIDE DEF c, d
<1>4. Bare(w, c) /\ Bare(w, d)
  BY <1>1, <1>2 DEF Bare
<1>5. /\ Rank(c) = IF perf = "held" THEN 8 ELSE 1
      /\ Rank(d) = IF perf = "held" THEN 9 ELSE 2
  BY <1>2 DEF Rank
<1>6. Stretch(w, <<c, d>>, IF perf = "held" THEN 8 ELSE 1, IF perf = "held" THEN 9 ELSE 2)
  <2>1. CASE perf = "held"
    <3>1. Rank(c) = 8 /\ Rank(d) = 9
      BY <1>5, <2>1
    <3> QED
      BY <1>4, <2>1, <3>1, StretchTwo
  <2>2. CASE perf # "held"
    <3>1. Rank(c) = 1 /\ Rank(d) = 2
      BY <1>5, <2>2
    <3> QED
      BY <1>4, <2>2, <3>1, StretchTwo
  <2> QED
    BY <2>1, <2>2
<1>7. \A i \in DOMAIN <<c, d>> : <<c, d>>[i].do \in {"mode1", "mode2"}
  BY <1>2
<1> QED
  BY <1>3, <1>6, <1>7 DEF Opted

LEMMA BareChecks ==
  ASSUME NEW w \in Intent
  PROVE  /\ Bare(w, Hold) /\ Hold.do = "hold" /\ Hold.arg = None /\ Rank(Hold) = 7
         /\ Bare(w, EnsureCustom) /\ EnsureCustom.do = "custom"
         /\ w.perf = "Custom" => /\ Bare(w, Confirm("Custom", "Auto"))
                                 /\ Confirm("Custom", "Auto").do = "confirm"
                                 /\ Confirm("Custom", "Auto").arg = "Custom"
                                 /\ Rank(Confirm("Custom", "Auto")) = 3
<1>1. Hold \in Commands /\ EnsureCustom \in Commands /\ Confirm("Custom", "Auto") \in Commands
  BY Atoms, ValueHas
<1>2. /\ Hold.do = "hold" /\ Hold.arg = None /\ Hold.opt = None /\ Hold.when = None
      /\ EnsureCustom.do = "custom" /\ EnsureCustom.opt = None /\ EnsureCustom.when = None
      /\ Confirm("Custom", "Auto").do = "confirm" /\ Confirm("Custom", "Auto").arg = "Custom"
      /\ Confirm("Custom", "Auto").opt = None /\ Confirm("Custom", "Auto").when = None
  BY DEF Hold, EnsureCustom, Confirm, Do
<1>3. Rank(Hold) = 7 /\ Rank(Confirm("Custom", "Auto")) = 3
  BY <1>2 DEF Rank
<1> QED
  BY <1>1, <1>2, <1>3 DEF Bare

\* The parts of an apply, each with what is in it.
LEMMA PerfStretch ==
  ASSUME NEW w \in Intent
  PROVE  /\ Stretch(w, Part("perf", "any", SetPerf(w)), 1, 5)
         /\ Fitting(w, Part("perf", "any", SetPerf(w)))
         /\ w.perf = "Custom" => /\ Has(Part("perf", "any", SetPerf(w)), "confirm", "Custom")
                                 /\ Has(Part("perf", "any", SetPerf(w)), "set", "cpu")
                                 /\ Has(Part("perf", "any", SetPerf(w)), "set", "gpu")
<1> DEFINE S == SetPerf(w)
           M == Modes(w.perf, "Auto")
<1>1. w.perf \in Value /\ w.perf # "held"
  BY LaptopAssumption DEF Intent
<1>2. Stretch(w, M, 1, 2) /\ Opted(M)
  BY <1>1, BareModes, ValueHas
<1> HIDE DEF M
<1>3. /\ Stretch(w, S, 1, 5) /\ Opted(S)
      /\ w.perf = "Custom" => Has(S, "confirm", "Custom") /\ Has(S, "set", "cpu") /\ Has(S, "set", "gpu")
  <2>1. CASE w.perf # "Custom"
    <3>1. S = M
      BY <2>1 DEF SetPerf, M
    <3>2. Stretch(w, M, 1, 5)
      BY <1>2 DEF Stretch, Within
    <3> QED
      BY <1>2, <2>1, <3>1, <3>2
  <2>2. CASE w.perf = "Custom"
    <3> DEFINE C == << Confirm("Custom", "Auto") >>
               B == SetBoost("cpu", w.cpu)
               G == SetBoost("gpu", w.gpu)
               MC == M \o C
               MCB == MC \o B
    <3>1. S = MCB \o G
      BY <2>2 DEF SetPerf, M
    <3>2. Stretch(w, C, 3, 3) /\ Opted(C) /\ Has(C, "confirm", "Custom")
      <4>1. Stretch(w, C, 3, 3) /\ Has(C, "confirm", "Custom")
        BY <2>2, BareChecks, StretchOne
      <4>2. Opted(C)
        BY DEF Opted, Confirm, Do
      <4> QED
        BY <4>1, <4>2
    <3>3. \A reg \in {"cpu", "gpu"} :
            /\ Stretch(w, SetBoost(reg, Target(w, reg)), IF reg = "cpu" THEN 4 ELSE 5,
                       IF reg = "cpu" THEN 4 ELSE 5)
            /\ Opted(SetBoost(reg, Target(w, reg))) /\ Has(SetBoost(reg, Target(w, reg)), "set", reg)
      <4> SUFFICES ASSUME NEW reg \in {"cpu", "gpu"}
                   PROVE  /\ Stretch(w, SetBoost(reg, Target(w, reg)), IF reg = "cpu" THEN 4 ELSE 5,
                                     IF reg = "cpu" THEN 4 ELSE 5)
                          /\ Opted(SetBoost(reg, Target(w, reg)))
                          /\ Has(SetBoost(reg, Target(w, reg)), "set", reg)
        OBVIOUS
      <4> DEFINE c == Set(reg, Target(w, reg))
                 n == IF reg = "cpu" THEN 4 ELSE 5
      <4>1. Bare(w, c) /\ c.do = "set" /\ c.arg = reg /\ c.opt = None
        BY BareSet DEF Asked
      <4>2. Bare(w, EnsureCustom) /\ EnsureCustom.do = "custom"
        BY BareChecks
      <4>3. SetBoost(reg, Target(w, reg)) = << EnsureCustom, c >>
        BY DEF SetBoost
      <4> HIDE DEF c
      <4>4. Rank(c) = n /\ n \in Nat
        BY <4>1 DEF Rank
      <4> HIDE DEF n
      <4>5. Rank(c) \in n .. n
        BY <4>4
      <4>6. Stretch(w, << EnsureCustom, c >>, n, n) /\ Has(<< EnsureCustom, c >>, "set", reg)
        BY <4>1, <4>2, <4>4, <4>5, StretchTwo
      <4>7. Opted(<< EnsureCustom, c >>)
        <5>1. OptOf(reg) = None
          BY DEF OptOf, OptionOf, Optional
        <5> QED
          BY <4>1, <4>2, <5>1 DEF Opted
      <4> QED
        BY <4>3, <4>6, <4>7 DEF n
    <3>4. Target(w, "cpu") = w.cpu /\ Target(w, "gpu") = w.gpu
      BY DEF Target
    <3>5. /\ Stretch(w, B, 4, 4) /\ Opted(B) /\ Has(B, "set", "cpu")
          /\ Stretch(w, G, 5, 5) /\ Opted(G) /\ Has(G, "set", "gpu")
      BY <3>3, <3>4
    <3> HIDE DEF C, B, G
    <3>6. M \in Seq(Commands) /\ C \in Seq(Commands) /\ B \in Seq(Commands) /\ G \in Seq(Commands)
      BY <1>2, <3>2, <3>5 DEF Stretch
    <3>7. Stretch(w, MC, 1, 3) /\ Opted(MC) /\ Has(MC, "confirm", "Custom")
      BY <1>2, <3>2, <3>6, StretchJoined, OptedJoined, HasJoined
    <3> HIDE DEF MC
    <3>8. MC \in Seq(Commands)
      BY <3>7 DEF Stretch
    <3>9. /\ Stretch(w, MCB, 1, 4) /\ Opted(MCB) /\ Has(MCB, "confirm", "Custom")
          /\ Has(MCB, "set", "cpu")
      BY <3>5, <3>6, <3>7, <3>8, StretchJoined, OptedJoined, HasJoined
    <3> HIDE DEF MCB
    <3>10. MCB \in Seq(Commands)
      BY <3>9 DEF Stretch
    <3> QED
      BY <3>1, <3>5, <3>6, <3>9, <3>10, StretchJoined, OptedJoined, HasJoined
  <2> QED
    BY <2>1, <2>2
<1> HIDE DEF S
<1>4. \A rank \in 1 .. 5 : PartAt(rank) = "perf"
  BY DEF PartAt
<1>5. "perf" \in PartNames
  BY DEF PartNames
<1>6. /\ Stretch(w, Part("perf", "any", S), 1, 5) /\ Fitting(w, Part("perf", "any", S))
      /\ \A do, arg : Has(S, do, arg) => Has(Part("perf", "any", S), do, arg)
  BY <1>3, <1>4, <1>5, PartStretch
<1> QED
  BY <1>3, <1>6 DEF S

LEMMA MaxStretch ==
  ASSUME NEW w \in Intent, w.perf = "Custom"
  PROVE  /\ Stretch(w, Part("max", "any", WriteMax(w)), 6, 6)
         /\ Fitting(w, Part("max", "any", WriteMax(w)))
         /\ Has(Part("max", "any", WriteMax(w)), "set", "max")
<1> DEFINE S == WriteMax(w)
           E == << EnsureCustom >>
           O == << Set("max", w.max) >>
           F == For("MaxFan", O)
<1>1. Target(w, "max") = w.max
  BY DEF Target
<1>2. /\ Bare(w, Set("max", w.max)) /\ Set("max", w.max).do = "set" /\ Set("max", w.max).arg = "max"
  BY <1>1, BareSet DEF Asked
<1>3. Rank(Set("max", w.max)) = 6
  BY <1>2 DEF Rank
<1>4. Stretch(w, O, 6, 6) /\ Has(O, "set", "max")
  BY <1>2, <1>3, StretchOne
<1>5. "MaxFan" \in Optional /\ \A i \in DOMAIN O : O[i].do = "set" /\ OptionOf(O[i].arg) = "MaxFan"
  BY <1>2 DEF Optional, OptionOf
<1>6. Stretch(w, E, 6, 6) /\ Opted(E)
  <2>1. Stretch(w, E, 6, 6)
    BY BareChecks, StretchOne
  <2>2. Opted(E)
    BY BareChecks DEF Opted
  <2> QED
    BY <2>1, <2>2
<1>7. S = E \o F
  BY DEF WriteMax
<1> HIDE DEF E, O
<1>8. Stretch(w, F, 6, 6) /\ Opted(F) /\ Has(F, "set", "max")
      /\ \A i \in DOMAIN F : F[i].do = "set"
  BY <1>4, <1>5, ForStretch
<1> HIDE DEF F
<1>9. E \in Seq(Commands) /\ F \in Seq(Commands)
  BY <1>6, <1>8 DEF Stretch
<1>10. Stretch(w, E, 6, 6) /\ Within(F, 6, 6)
  BY <1>6, <1>8 DEF Stretch
<1>11. Within(E, 5, 5)
  <2>1. \A i \in DOMAIN E : E[i].do = "custom"
    BY BareChecks DEF E
  <2> QED
    BY <2>1 DEF Within
<1>12. Stretch(w, E, 5, 5)
  BY <1>6, <1>11 DEF Stretch
<1>13. Stretch(w, S, 5, 6) /\ Opted(S) /\ Has(S, "set", "max")
  BY <1>6, <1>7, <1>8, <1>9, <1>12, StretchJoined, OptedJoined, HasJoined
<1>14. Within(S, 6, 6)
  <2>1. \A i \in DOMAIN E : E[i].do = "custom" \/ Rank(E[i]) \in 6 .. 6
    BY <1>10 DEF Stretch, Within
  <2>2. \A i \in DOMAIN F : F[i].do = "custom" \/ Rank(F[i]) \in 6 .. 6
    BY <1>10 DEF Within
  <2> QED
    BY <1>7, <1>9, <2>1, <2>2, JoinedAt DEF Within
<1>15. Stretch(w, S, 6, 6)
  BY <1>13, <1>14 DEF Stretch
<1> HIDE DEF S
<1>16. \A rank \in 6 .. 6 : PartAt(rank) = "max"
  BY DEF PartAt
<1>17. "max" \in PartNames
  BY DEF PartNames
<1>18. /\ Stretch(w, Part("max", "any", S), 6, 6) /\ Fitting(w, Part("max", "any", S))
       /\ Has(Part("max", "any", S), "set", "max")
  BY <1>13, <1>15, <1>16, <1>17, PartStretch
<1> QED
  BY <1>18 DEF S

LEMMA FanStretch ==
  ASSUME NEW w \in Intent
  PROVE  /\ Stretch(w, Part("fan", "any", SetFan(w)), 7, 11)
         /\ Fitting(w, Part("fan", "any", SetFan(w)))
         /\ Has(Part("fan", "any", SetFan(w)), "hold", None)
         /\ w.fan = "Manual" => /\ Has(Part("fan", "any", SetFan(w)), "set", "point1")
                                /\ Has(Part("fan", "any", SetFan(w)), "set", "point2")
<1> DEFINE S == SetFan(w)
           H == << Hold >>
           M == Modes("held", w.fan)
           HM == H \o M
           P == IF w.fan = "Manual" THEN SetPoints(w.rpm) ELSE << >>
<1>1. S = HM \o P
  BY DEF SetFan, SetFanMode
<1>2. Stretch(w, H, 7, 7) /\ Opted(H) /\ Has(H, "hold", None) /\ \A i \in DOMAIN H : H[i].do # "custom"
  <2>1. Stretch(w, H, 7, 7) /\ Has(H, "hold", None)
    BY BareChecks, StretchOne
  <2>2. Opted(H) /\ \A i \in DOMAIN H : H[i].do # "custom"
    BY BareChecks DEF Opted
  <2> QED
    BY <2>1, <2>2
<1>3. Stretch(w, M, 8, 9) /\ Opted(M) /\ \A i \in DOMAIN M : M[i].do # "custom"
  BY BareModes DEF Intent
<1>4. /\ Stretch(w, P, 10, 11) /\ Opted(P) /\ \A i \in DOMAIN P : P[i].do # "custom"
      /\ w.fan = "Manual" => Has(P, "set", "point1") /\ Has(P, "set", "point2")
  <2>1. CASE w.fan = "Manual"
    <3> DEFINE c == Set("point1", w.rpm)
               d == Set("point2", w.rpm)
    <3>1. Target(w, "point1") = w.rpm /\ Target(w, "point2") = w.rpm
      BY DEF Target
    <3>2. /\ Bare(w, c) /\ c.do = "set" /\ c.arg = "point1" /\ c.opt = None
          /\ Bare(w, d) /\ d.do = "set" /\ d.arg = "point2" /\ d.opt = None
      BY <3>1, BareSet DEF Asked
    <3>3. P = <<c, d>>
      BY <2>1 DEF SetPoints
    <3> HIDE DEF c, d, P
    <3>4. Rank(c) = 10 /\ Rank(d) = 11
      BY <3>2 DEF Rank
    <3>5. Stretch(w, <<c, d>>, 10, 11) /\ Has(<<c, d>>, "set", "point1") /\ Has(<<c, d>>, "set", "point2")
      BY <3>2, <3>4, StretchTwo
    <3>6. Opted(<<c, d>>) /\ \A i \in DOMAIN <<c, d>> : <<c, d>>[i].do # "custom"
      <4>1. OptOf("point1") = None /\ OptOf("point2") = None
        BY DEF OptOf, OptionOf, Optional
      <4> QED
        BY <3>2, <4>1 DEF Opted
    <3> QED
      BY <3>3, <3>5, <3>6
  <2>2. CASE w.fan # "Manual"
    <3>1. P = << >>
      BY <2>2
    <3> QED
      BY <2>2, <3>1, StretchEmpty DEF Opted
  <2> QED
    BY <2>1, <2>2
<1> HIDE DEF H, M, P
<1>5. H \in Seq(Commands) /\ M \in Seq(Commands) /\ P \in Seq(Commands)
  BY <1>2, <1>3, <1>4 DEF Stretch
<1>6. /\ Stretch(w, HM, 7, 9) /\ Opted(HM) /\ Has(HM, "hold", None)
      /\ \A i \in DOMAIN HM : HM[i].do # "custom"
  <2>1. Stretch(w, HM, 7, 9) /\ Opted(HM) /\ Has(HM, "hold", None)
    BY <1>2, <1>3, <1>5, StretchJoined, OptedJoined, HasJoined
  <2>2. \A i \in DOMAIN HM : HM[i].do # "custom"
    BY <1>2, <1>3, <1>5, JoinedAt
  <2> QED
    BY <2>1, <2>2
<1> HIDE DEF HM
<1>7. HM \in Seq(Commands)
  BY <1>6 DEF Stretch
<1>8. /\ Stretch(w, S, 7, 11) /\ Opted(S) /\ Has(S, "hold", None)
      /\ w.fan = "Manual" => Has(S, "set", "point1") /\ Has(S, "set", "point2")
  BY <1>1, <1>4, <1>5, <1>6, <1>7, StretchJoined, OptedJoined, HasJoined
<1>9. \A i \in DOMAIN S : S[i].do # "custom"
  BY <1>1, <1>4, <1>5, <1>6, <1>7, JoinedAt
<1> HIDE DEF S
<1>10. \A rank \in 7 .. 11 : PartAt(rank) = "fan"
  BY DEF PartAt
<1>11. "fan" \in PartNames
  BY DEF PartNames
<1>12. /\ Stretch(w, Part("fan", "any", S), 7, 11) /\ Fitting(w, Part("fan", "any", S))
       /\ \A do, arg : Has(S, do, arg) => Has(Part("fan", "any", S), do, arg)
  BY <1>8, <1>9, <1>10, <1>11, PartStretch
<1> QED
  BY <1>8, <1>12 DEF S

LEMMA LogoStretch ==
  ASSUME NEW w \in Intent
  PROVE  /\ Stretch(w, Part("logo", "any", For("Logo", SetLogo(w.logo))), 12, 13)
         /\ Fitting(w, Part("logo", "any", For("Logo", SetLogo(w.logo))))
         /\ Has(Part("logo", "any", For("Logo", SetLogo(w.logo))), "set", "lit")
         /\ w.logo # "Off" => Has(Part("logo", "any", For("Logo", SetLogo(w.logo))), "set", "logo")
<1> DEFINE S == SetLogo(w.logo)
           F == For("Logo", S)
           c == Set("logo", Target(w, "logo"))
           d == Set("lit", Target(w, "lit"))
<1>1. S = IF w.logo = "Off" THEN <<d>> ELSE <<c, d>>
  BY DEF SetLogo, Target
<1>2. /\ Bare(w, c) /\ c.do = "set" /\ c.arg = "logo"
      /\ Bare(w, d) /\ d.do = "set" /\ d.arg = "lit"
  BY BareSet DEF Asked
<1> HIDE DEF c, d, S
<1>3. Rank(c) = 12 /\ Rank(d) = 13
  BY <1>2 DEF Rank
<1>4. Stretch(w, S, 12, 13) /\ Has(S, "set", "lit") /\ (w.logo # "Off" => Has(S, "set", "logo"))
  <2>1. Stretch(w, <<d>>, 12, 13) /\ Has(<<d>>, "set", "lit")
    BY <1>2, <1>3, StretchOne
  <2>2. /\ Stretch(w, <<c, d>>, 12, 13) /\ Has(<<c, d>>, "set", "lit") /\ Has(<<c, d>>, "set", "logo")
    BY <1>2, <1>3, StretchTwo
  <2> QED
    BY <1>1, <2>1, <2>2
<1>5. "Logo" \in Optional /\ \A i \in DOMAIN S : S[i].do = "set" /\ OptionOf(S[i].arg) = "Logo"
  BY <1>1, <1>2 DEF Optional, OptionOf
<1>6. /\ Stretch(w, F, 12, 13) /\ Opted(F) /\ Has(F, "set", "lit")
      /\ w.logo # "Off" => Has(F, "set", "logo")
      /\ \A i \in DOMAIN F : F[i].do = "set"
  BY <1>4, <1>5, ForStretch
<1> HIDE DEF F
<1>7. \A rank \in 12 .. 13 : PartAt(rank) = "logo"
  BY DEF PartAt
<1>8. "logo" \in PartNames
  BY DEF PartNames
<1>9. /\ Stretch(w, Part("logo", "any", F), 12, 13) /\ Fitting(w, Part("logo", "any", F))
      /\ \A do, arg : Has(F, do, arg) => Has(Part("logo", "any", F), do, arg)
  BY <1>6, <1>7, <1>8, PartStretch
<1> QED
  BY <1>6, <1>9 DEF F, S

LEMMA EffectStretch ==
  ASSUME NEW w \in Intent
  PROVE  /\ Stretch(w, Part("effect", "rejected", << Set("effect", w.effect) >>), 14, 14)
         /\ Fitting(w, Part("effect", "rejected", << Set("effect", w.effect) >>))
         /\ Has(Part("effect", "rejected", << Set("effect", w.effect) >>), "set", "effect")
<1> DEFINE c == Set("effect", w.effect)
           S == << c >>
<1>1. Target(w, "effect") = w.effect
  BY DEF Target
<1>2. Bare(w, c) /\ c.do = "set" /\ c.arg = "effect" /\ c.opt = None
  BY <1>1, BareSet DEF Asked
<1> HIDE DEF c
<1>3. Rank(c) = 14
  BY <1>2 DEF Rank
<1>4. Stretch(w, S, 14, 14) /\ Has(S, "set", "effect")
  BY <1>2, <1>3, StretchOne
<1>5. Opted(S) /\ \A i \in DOMAIN S : S[i].do # "custom"
  <2>1. OptOf("effect") = None
    BY DEF OptOf, OptionOf, Optional
  <2> QED
    BY <1>2, <2>1 DEF Opted
<1> HIDE DEF S
<1>6. \A rank \in 14 .. 14 : PartAt(rank) = "effect"
  BY DEF PartAt
<1>7. "effect" \in PartNames
  BY DEF PartNames
<1>8. /\ Stretch(w, Part("effect", "rejected", S), 14, 14) /\ Fitting(w, Part("effect", "rejected", S))
      /\ Has(Part("effect", "rejected", S), "set", "effect")
  BY <1>4, <1>5, <1>6, <1>7, PartStretch
<1> QED
  BY <1>8 DEF S, c

LEMMA OptionStretch ==
  ASSUME NEW w \in Intent, NEW reg \in {"bright", "care"}
  PROVE  LET S == Part(reg, "rejected", For(OptionOf(reg), << Set(reg, Target(w, reg)) >>))
             n == IF reg = "bright" THEN 15 ELSE 16 IN
         Stretch(w, S, n, n) /\ Fitting(w, S) /\ Has(S, "set", reg)
<1> DEFINE c == Set(reg, Target(w, reg))
           S == << c >>
           F == For(OptionOf(reg), S)
           n == IF reg = "bright" THEN 15 ELSE 16
<1>1. Bare(w, c) /\ c.do = "set" /\ c.arg = reg
  BY BareSet DEF Asked
<1> HIDE DEF c
<1>2. Rank(c) = n /\ n \in Nat
  BY <1>1 DEF Rank
<1>3. \A rank \in n .. n : PartAt(rank) = reg
  BY DEF PartAt
<1> HIDE DEF n
<1>4. Rank(c) \in n .. n
  BY <1>2
<1>5. Stretch(w, S, n, n) /\ Has(S, "set", reg)
  BY <1>1, <1>4, StretchOne
<1>6. OptionOf(reg) \in Optional /\ reg \in PartNames
  BY DEF OptionOf, Optional, PartNames
<1>7. \A i \in DOMAIN S : S[i].do = "set" /\ OptionOf(S[i].arg) = OptionOf(reg)
  BY <1>1
<1> HIDE DEF S
<1>8. Stretch(w, F, n, n) /\ Opted(F) /\ Has(F, "set", reg) /\ \A i \in DOMAIN F : F[i].do = "set"
  BY <1>5, <1>6, <1>7, ForStretch
<1> HIDE DEF F
<1>9. /\ Stretch(w, Part(reg, "rejected", F), n, n) /\ Fitting(w, Part(reg, "rejected", F))
      /\ Has(Part(reg, "rejected", F), "set", reg)
  BY <1>2, <1>3, <1>6, <1>8, PartStretch
<1> QED
  BY <1>9 DEF F, S, c, n

\* What DeviceState::apply sends: each register at most once and in the order of Rank, the mode
\* before the boosts, the fan mode it holds before the set points, the effect before the
\* brightness it may reset.
LEMMA ApplyShape ==
  ASSUME NEW w \in Intent
  PROVE  /\ Stretch(w, Apply(w), 1, 16) /\ Fitting(w, Apply(w))
         /\ Has(Apply(w), "hold", None)
         /\ w.perf = "Custom" => /\ Has(Apply(w), "confirm", "Custom")
                                 /\ \A reg \in {"cpu", "gpu", "max"} : Has(Apply(w), "set", reg)
         /\ w.fan = "Manual" => Has(Apply(w), "set", "point1") /\ Has(Apply(w), "set", "point2")
         /\ Has(Apply(w), "set", "lit") /\ (w.logo # "Off" => Has(Apply(w), "set", "logo"))
         /\ w.effect # None => Has(Apply(w), "set", "effect")
         /\ Has(Apply(w), "set", "bright") /\ Has(Apply(w), "set", "care")
<1> DEFINE P1 == Part("perf", "any", SetPerf(w))
           P2 == IF w.perf = "Custom" THEN Part("max", "any", WriteMax(w)) ELSE << >>
           P3 == Part("fan", "any", SetFan(w))
           P4 == Part("logo", "any", For("Logo", SetLogo(w.logo)))
           P5 == IF w.effect = None THEN << >>
                 ELSE Part("effect", "rejected", << Set("effect", w.effect) >>)
           P6 == Part("bright", "rejected", For("KeyboardBrightness", << Set("bright", w.bright) >>))
           P7 == Part("care", "rejected", For("BatteryCare", << Set("care", w.care) >>))
<1>1. Apply(w) = (((((P1 \o P2) \o P3) \o P4) \o P5) \o P6) \o P7
  BY DEF Apply, PerfFanLogo, WriteCare
<1>2. /\ Stretch(w, P1, 1, 5) /\ Fitting(w, P1)
      /\ w.perf = "Custom" => /\ Has(P1, "confirm", "Custom") /\ Has(P1, "set", "cpu")
                              /\ Has(P1, "set", "gpu")
  BY PerfStretch
<1>3. /\ Stretch(w, P2, 6, 6) /\ Fitting(w, P2)
      /\ w.perf = "Custom" => Has(P2, "set", "max")
  BY MaxStretch, StretchEmpty
<1>4. /\ Stretch(w, P3, 7, 11) /\ Fitting(w, P3) /\ Has(P3, "hold", None)
      /\ w.fan = "Manual" => Has(P3, "set", "point1") /\ Has(P3, "set", "point2")
  BY FanStretch
<1>5. /\ Stretch(w, P4, 12, 13) /\ Fitting(w, P4) /\ Has(P4, "set", "lit")
      /\ w.logo # "Off" => Has(P4, "set", "logo")
  BY LogoStretch
<1>6. /\ Stretch(w, P5, 14, 14) /\ Fitting(w, P5)
      /\ w.effect # None => Has(P5, "set", "effect")
  BY EffectStretch, StretchEmpty
<1>7. Stretch(w, P6, 15, 15) /\ Fitting(w, P6) /\ Has(P6, "set", "bright")
  <2>1. OptionOf("bright") = "KeyboardBrightness" /\ Target(w, "bright") = w.bright
    BY DEF OptionOf, Target
  <2> QED
    BY <2>1, OptionStretch
<1>8. Stretch(w, P7, 16, 16) /\ Fitting(w, P7) /\ Has(P7, "set", "care")
  <2>1. OptionOf("care") = "BatteryCare" /\ Target(w, "care") = w.care
    BY DEF OptionOf, Target
  <2> QED
    BY <2>1, OptionStretch
<1> HIDE DEF P1, P2, P3, P4, P5, P6, P7
<1>9. /\ P1 \in Seq(Commands) /\ P2 \in Seq(Commands) /\ P3 \in Seq(Commands) /\ P4 \in Seq(Commands)
      /\ P5 \in Seq(Commands) /\ P6 \in Seq(Commands) /\ P7 \in Seq(Commands)
  BY <1>2, <1>3, <1>4, <1>5, <1>6, <1>7, <1>8 DEF Stretch
<1> DEFINE S2 == P1 \o P2
           S3 == S2 \o P3
           S4 == S3 \o P4
           S5 == S4 \o P5
           S6 == S5 \o P6
           S7 == S6 \o P7
           Modes2(S) == w.perf = "Custom" => /\ Has(S, "confirm", "Custom") /\ Has(S, "set", "cpu")
                                             /\ Has(S, "set", "gpu") /\ Has(S, "set", "max")
           Fan3(S) == /\ Has(S, "hold", None)
                      /\ w.fan = "Manual" => Has(S, "set", "point1") /\ Has(S, "set", "point2")
           Logo4(S) == Has(S, "set", "lit") /\ (w.logo # "Off" => Has(S, "set", "logo"))
           Effect5(S) == w.effect # None => Has(S, "set", "effect")
<1>10. S2 \in Seq(Commands) /\ Stretch(w, S2, 1, 6) /\ Fitting(w, S2) /\ Modes2(S2)
  <2>1. Stretch(w, S2, 1, 6) /\ Fitting(w, S2)
    BY <1>2, <1>3, <1>9, StretchJoined, FittingJoined
  <2>2. Modes2(S2)
    BY <1>2, <1>3, <1>9, HasJoined
  <2> QED
    BY <2>1, <2>2 DEF Stretch
<1> HIDE DEF S2
<1>11. S3 \in Seq(Commands) /\ Stretch(w, S3, 1, 11) /\ Fitting(w, S3) /\ Modes2(S3) /\ Fan3(S3)
  <2>1. Stretch(w, S3, 1, 11) /\ Fitting(w, S3)
    BY <1>4, <1>9, <1>10, StretchJoined, FittingJoined
  <2>2. Modes2(S3) /\ Fan3(S3)
    BY <1>4, <1>9, <1>10, HasJoined
  <2> QED
    BY <2>1, <2>2 DEF Stretch
<1> HIDE DEF S3
<1>12. /\ S4 \in Seq(Commands) /\ Stretch(w, S4, 1, 13) /\ Fitting(w, S4)
       /\ Modes2(S4) /\ Fan3(S4) /\ Logo4(S4)
  <2>1. Stretch(w, S4, 1, 13) /\ Fitting(w, S4)
    BY <1>5, <1>9, <1>11, StretchJoined, FittingJoined
  <2>2. Modes2(S4) /\ Fan3(S4) /\ Logo4(S4)
    BY <1>5, <1>9, <1>11, HasJoined
  <2> QED
    BY <2>1, <2>2 DEF Stretch
<1> HIDE DEF S4
<1>13. /\ S5 \in Seq(Commands) /\ Stretch(w, S5, 1, 14) /\ Fitting(w, S5)
       /\ Modes2(S5) /\ Fan3(S5) /\ Logo4(S5) /\ Effect5(S5)
  <2>1. Stretch(w, S5, 1, 14) /\ Fitting(w, S5)
    BY <1>6, <1>9, <1>12, StretchJoined, FittingJoined
  <2>2. Modes2(S5) /\ Fan3(S5) /\ Logo4(S5) /\ Effect5(S5)
    BY <1>6, <1>9, <1>12, HasJoined
  <2> QED
    BY <2>1, <2>2 DEF Stretch
<1> HIDE DEF S5
<1>14. /\ S6 \in Seq(Commands) /\ Stretch(w, S6, 1, 15) /\ Fitting(w, S6)
       /\ Modes2(S6) /\ Fan3(S6) /\ Logo4(S6) /\ Effect5(S6) /\ Has(S6, "set", "bright")
  <2>1. Stretch(w, S6, 1, 15) /\ Fitting(w, S6)
    BY <1>7, <1>9, <1>13, StretchJoined, FittingJoined
  <2>2. Modes2(S6) /\ Fan3(S6) /\ Logo4(S6) /\ Effect5(S6) /\ Has(S6, "set", "bright")
    BY <1>7, <1>9, <1>13, HasJoined
  <2> QED
    BY <2>1, <2>2 DEF Stretch
<1> HIDE DEF S6
<1>15. /\ Stretch(w, S7, 1, 16) /\ Fitting(w, S7)
       /\ Modes2(S7) /\ Fan3(S7) /\ Logo4(S7) /\ Effect5(S7) /\ Has(S7, "set", "bright")
       /\ Has(S7, "set", "care")
  <2>1. Stretch(w, S7, 1, 16) /\ Fitting(w, S7)
    BY <1>8, <1>9, <1>14, StretchJoined, FittingJoined
  <2>2. /\ Modes2(S7) /\ Fan3(S7) /\ Logo4(S7) /\ Effect5(S7) /\ Has(S7, "set", "bright")
        /\ Has(S7, "set", "care")
    BY <1>8, <1>9, <1>14, HasJoined
  <2> QED
    BY <2>1, <2>2
<1>16. Apply(w) = S7
  BY <1>1 DEF S2, S3, S4, S5, S6
<1> HIDE DEF S7
<1> QED
  BY <1>15, <1>16

-----------------------------------------------------------------------------
(* An apply *)

\* A command of an apply: what was skipped on the way to the next one is lacking, or in the part
\* the error ended.
LEMMA ApplySent ==
  ASSUME TypeInv, Step("tray"), op["tray"] = "apply", NEW P, P = Apply(intent)
  PROVE  LET i == at["tray"]
             s == P[i] IN
         /\ i \in DOMAIN P /\ P \in Seq(Commands)
         /\ UNCHANGED <<scene, dev, op, intent, failed>> /\ alone'["tray"] = alone["tray"]
         /\ log \subseteq log' /\ refused \subseteq refused'
         /\ ec' = ec \/ ec' = Taken("tray", s)
         /\ s.do # "hold" => held' = held
         /\ at'["tray"] = 0 \/ at'["tray"] > i
         /\ \E e \in Error \cup {"Ok"} :
              /\ first'["tray"] = "Ok" => first["tray"] = "Ok" /\ e = "Ok"
              /\ ~(at'["tray"] = 0 /\ Stops(first'["tray"])) =>
                   \A j \in DOMAIN P : j > i /\ (at'["tray"] = 0 \/ j < at'["tray"]) =>
                     P[j].opt \in log' \/ (e # "Ok" /\ P[j].part = s.part)
              /\ s.do = "set" => /\ e = "Ok" => s.opt \in log' \/ ec' = Taken("tray", s)
                                 /\ e # "Ok" => s.arg \in refused'
              /\ e = "Ok" /\ s.do \in {"confirm", "hold"} => Answer("tray", s) = "Ok" /\ ec' = ec
              /\ e = "Ok" /\ s.do = "hold" =>
                   held'["tray"] = [perf |-> ec["perf1"], fan |-> ec["fan1"]]
<1> DEFINE i == at["tray"]
           s == P[i]
<1>0. "tray" \in Proc /\ intent \in Intent
  BY DEF Proc, TypeInv, SettingTypes
<1>1. UNCHANGED <<scene, dev, op, want, failed, tray>>
  BY <1>0, Stepped
<1>2. Prog(op["tray"], intent, want) = P
  BY DEF Prog
<1>3. PICK reply :
        /\ P \in Programs /\ i \in DOMAIN P /\ s \in Commands
        /\ reply \in {Honest("tray", s)} \cup Faulty("tray", s)
        /\ Does("tray", s, reply)
        /\ \E next \in 0 .. Len(P) : Goes("tray", P, Outcome("tray", s, reply.e), next)
  BY <1>0, <1>2, Stepped, Zenon
<1> DEFINE e == Outcome("tray", s, reply.e)
<1>4. PICK next \in 0 .. Len(P) : Goes("tray", P, e, next)
  BY <1>3
<1>5. /\ first \in [Proc -> Error \cup {"Ok"}] /\ at \in [Proc -> Nat] /\ ec \in [Reg -> Value]
      /\ alone \in [Proc -> BOOLEAN] /\ held \in [Proc -> ModeRead]
  BY DEF TypeInv, RunTypes, WorldTypes
<1>6. \A j \in DOMAIN P : Fits(intent, P[j])
  BY <1>0, ApplyShape DEF Fitting
<1>7. s.keep \in {"any", "rejected"} /\ s.do # "again"
  BY <1>3, <1>6 DEF Fits, Bare
<1>8. /\ reply.e \in Error \cup {"Ok"}
      /\ reply.e = "Ok" /\ s.do \in {"hold", "custom", "confirm"} => Answer("tray", s) = "Ok"
      /\ reply.e = "Ok" /\ s.do = "set" => reply.taken = TRUE
  BY <1>0, <1>3, <1>5, Replied
<1>9. /\ e = IF Learnt("tray", s, reply.e) THEN "Ok" ELSE reply.e
      /\ e \in Error \cup {"Ok"}
  BY <1>7, <1>8 DEF Outcome, Settled
<1> HIDE DEF s, e, i
<1>10. /\ log' = IF Learnt("tray", s, reply.e) THEN log \cup {s.opt} ELSE log
       /\ ec' = IF reply.taken THEN Taken("tray", s) ELSE ec
       /\ alone' = [q \in Proc |-> alone[q] /\ (q = "tray" \/ ec' = ec)]
       /\ refused' = IF s.do = "set" /\ reply.e # "Ok" THEN refused \cup {s.arg} ELSE refused
       /\ first' = [first EXCEPT !["tray"] = Kept(s, e, @)]
  BY <1>3, Zenon DEF Does, e
<1>11. held' = IF s.do # "hold" THEN held
               ELSE [held EXCEPT !["tray"] = IF e # "Ok" THEN NoMode
                                             ELSE [perf |-> ec["perf1"], fan |-> ec["fan1"]]]
  BY <1>3, Zenon DEF Does, e
<1>12. at'["tray"] = next
  <2>1. at' = [at EXCEPT !["tray"] = next]
    BY <1>4, Zenon DEF Goes
  <2> QED
    BY <1>0, <1>5, <2>1
<1>13. first'["tray"] = Kept(s, e, first["tray"])
  BY <1>0, <1>5, <1>10
<1>14. alone'["tray"] = alone["tray"]
  <2>1. alone["tray"] \in BOOLEAN
    BY <1>0, <1>5
  <2> QED
    BY <1>0, <1>10, <2>1, Zenon
<1>15. log \subseteq log' /\ refused \subseteq refused'
  BY <1>10
<1>16. s.do # "hold" => held' = held
  BY <1>11
<1>17. Heard(s, e) = e
  BY <1>7 DEF Heard
<1>18. first'["tray"] = "Ok" => first["tray"] = "Ok" /\ e = "Ok"
  BY <1>13, <1>17 DEF Kept, Fatal, Stops, Retryable
<1>19. Fatal(s, e) => Stops(first'["tray"])
  BY <1>7, <1>13 DEF Fatal, Kept
<1>20. \A j \in DOMAIN P : Runs("tray", P, e, j) <=>
         j > i /\ P[j].opt \notin log' /\ (e = "Ok" \/ P[j].part # s.part)
  <2> SUFFICES ASSUME NEW j \in DOMAIN P
               PROVE  Runs("tray", P, e, j) <=>
                        j > i /\ P[j].opt \notin log' /\ (e = "Ok" \/ P[j].part # s.part)
    OBVIOUS
  <2>1. P[j].when = None
    BY <1>6 DEF Fits, Bare
  <2>2. Skipped(P[j], log', held'["tray"], got'["tray"]) <=> P[j].opt \in log'
    BY <2>1 DEF Skipped, None
  <2> QED
    BY <1>7, <2>2 DEF Runs, s, i
<1>21. next = 0 \/ next > i
  BY <1>4, <1>20, Zenon DEF Goes
<1>22. DOMAIN P = 1 .. Len(P) /\ Len(P) \in Nat
  BY <1>3 DEF Programs
<1>23. ASSUME ~(at'["tray"] = 0 /\ Stops(first'["tray"])),
              NEW j \in DOMAIN P, j > i, at'["tray"] = 0 \/ j < at'["tray"]
       PROVE  P[j].opt \in log' \/ (e # "Ok" /\ P[j].part = s.part)
  <2>1. ~Runs("tray", P, e, j)
    <3>1. \/ next \in DOMAIN P /\ \A k \in DOMAIN P : Runs("tray", P, e, k) => next <= k
          \/ \A k \in DOMAIN P : ~Runs("tray", P, e, k)
          \/ next = 0 /\ Stops(first'["tray"])
      BY <1>4, <1>19, Zenon DEF Goes, s, i
    <3>2. next # 0 => ~(next <= j)
      BY <1>12, <1>22, <1>23
    <3>3. next \in DOMAIN P => next # 0
      BY <1>22
    <3> QED
      BY <1>12, <1>23, <3>1, <3>2, <3>3, Zenon
  <2> QED
    BY <1>20, <1>23, <2>1
<1>24. s.do = "set" => /\ e = "Ok" => s.opt \in log' \/ ec' = Taken("tray", s)
                       /\ e # "Ok" => s.arg \in refused'
  <2>1. CASE Learnt("tray", s, reply.e)
    BY <1>9, <1>10, <2>1
  <2>2. CASE ~Learnt("tray", s, reply.e)
    BY <1>8, <1>9, <1>10, <2>2
  <2> QED
    BY <2>1, <2>2
<1>25. e = "Ok" /\ s.do \in {"confirm", "hold"} => Answer("tray", s) = "Ok" /\ ec' = ec
  <2> SUFFICES ASSUME e = "Ok", s.do \in {"confirm", "hold"}
               PROVE  Answer("tray", s) = "Ok" /\ ec' = ec
    OBVIOUS
  <2>1. s.opt \notin Optional
    <3>1. s.opt = None
      BY <1>3, <1>6 DEF Fits, Bare, s
    <3> QED
      BY <3>1 DEF Optional, None
  <2>2. reply.e = "Ok"
    BY <1>9, <2>1 DEF Learnt
  <2>3. Taken("tray", s) = ec
    BY <1>0, <1>3, TakenNothing DEF s
  <2> QED
    BY <1>8, <1>10, <2>2, <2>3
<1>26. e = "Ok" /\ s.do = "hold" => held'["tray"] = [perf |-> ec["perf1"], fan |-> ec["fan1"]]
  BY <1>0, <1>5, <1>11
<1>27. i \in DOMAIN P /\ P \in Seq(Commands)
  BY <1>3 DEF Programs, i
<1>28. UNCHANGED <<scene, dev, op, intent, failed>>
  BY <1>1 DEF tray
<1>29. ec' = ec \/ ec' = Taken("tray", s)
  BY <1>10
<1> QED
  BY <1>9, <1>12, <1>14, <1>15, <1>16, <1>18, <1>21, <1>23, <1>24, <1>25, <1>26, <1>27, <1>28, <1>29
     DEF s, i

Light == {"logo", "lit", "effect", "bright", "care"}
Mates(reg) == IF reg \in {"logo", "lit"} THEN {"logo", "lit"} ELSE {reg}
Passed(j) == at["tray"] = 0 \/ j < at["tray"]

\* A write that is behind holds, is not for this laptop, or was refused, or its part's was.
Isolated(s) ==
  s.do = "set" /\ s.arg \in Light =>
    s.opt \in log \/ ec[s.arg] = s.val \/ refused \cap Mates(s.arg) # {}

\* What a command that succeeded has left, and nothing after it undoes.
DoneBy(s) ==
  /\ s.do = "set" => s.opt \in log \/ ec[s.arg] = s.val
  /\ s.do = "confirm" => Lacking("tray", "ModeRead") \/ BothPerf("Custom")
  /\ s.do = "hold" => /\ ~Lacking("tray", "ModeRead")
                      /\ intent.perf = "Custom" => held["tray"].perf = "Custom"

ApplyInv ==
  op["tray"] = "apply" /\ alone["tray"] =>
    /\ ~(at["tray"] = 0 /\ Stops(first["tray"])) =>
         \A j \in DOMAIN Apply(intent) : Passed(j) => Isolated(Apply(intent)[j])
    /\ first["tray"] = "Ok" =>
         \A j \in DOMAIN Apply(intent) : Passed(j) => DoneBy(Apply(intent)[j])

LEMMA RanksOf ==
  ASSUME NEW s
  PROVE  /\ s.do = "hold" => Rank(s) = 7
         /\ s.do = "confirm" => Rank(s) = 3
         /\ s.do \in {"mode1", "mode2"} =>
              IF s.arg = "held" THEN Rank(s) \in 8 .. 9 ELSE Rank(s) \in 1 .. 2
         /\ s.do = "set" => /\ s.arg = "cpu" => Rank(s) = 4
                            /\ s.arg = "gpu" => Rank(s) = 5
                            /\ s.arg = "max" => Rank(s) = 6
                            /\ s.arg = "point1" => Rank(s) = 10
                            /\ s.arg = "point2" => Rank(s) = 11
                            /\ s.arg = "logo" => Rank(s) = 12
                            /\ s.arg = "lit" => Rank(s) = 13
                            /\ s.arg = "effect" => Rank(s) = 14
                            /\ s.arg = "bright" => Rank(s) = 15
                            /\ s.arg = "care" => Rank(s) = 16
<1>1. /\ s.do = "hold" => Rank(s) = 7
      /\ s.do = "confirm" => Rank(s) = 3
  BY DEF Rank
<1>2. s.do \in {"mode1", "mode2"} =>
        IF s.arg = "held" THEN Rank(s) \in 8 .. 9 ELSE Rank(s) \in 1 .. 2
  BY DEF Rank
<1>3. s.do = "set" =>
        Rank(s) = CASE s.arg = "cpu" -> 4 [] s.arg = "gpu" -> 5 [] s.arg = "max" -> 6
                    [] s.arg = "point1" -> 10 [] s.arg = "point2" -> 11
                    [] s.arg = "logo" -> 12 [] s.arg = "lit" -> 13
                    [] s.arg = "effect" -> 14 [] s.arg = "bright" -> 15
                    [] s.arg = "care" -> 16 [] OTHER -> 0
  BY DEF Rank
<1> QED
  BY <1>1, <1>2, <1>3

LEMMA RankNat ==
  ASSUME NEW s
  PROVE  Rank(s) \in 0 .. 16
<1>1. s.do \notin {"mode1", "mode2", "confirm", "hold", "set"} => Rank(s) = 0
  BY DEF Rank
<1>2. s.do \in {"mode1", "mode2", "confirm", "hold"} => Rank(s) \in 0 .. 16
  BY DEF Rank
<1>3. s.do = "set" => Rank(s) \in 0 .. 16
  <2>1. s.do = "set" /\ s.arg \notin Asked => Rank(s) = 0
    BY DEF Rank, Asked
  <2>2. s.do = "set" /\ s.arg \in Asked => Rank(s) \in 0 .. 16
    BY RanksOf DEF Asked
  <2> QED
    BY <2>1, <2>2
<1> QED
  BY <1>1, <1>2, <1>3

\* A command of a lower rank comes before.
LEMMA ComesBefore ==
  ASSUME NEW w \in Intent, NEW i \in DOMAIN Apply(w), NEW j \in DOMAIN Apply(w),
         Apply(w)[i].do # "custom", Apply(w)[j].do # "custom",
         Rank(Apply(w)[i]) < Rank(Apply(w)[j])
  PROVE  i < j
<1> DEFINE P == Apply(w)
<1>1. P \in Seq(Commands) /\ Ordered(P)
  BY ApplyShape DEF Stretch
<1> HIDE DEF P
<1>2. i \in Nat /\ j \in Nat
  BY <1>1 DEF P
<1>3. Rank(P[i]) \in Nat /\ Rank(P[j]) \in Nat
  BY RankNat
<1>4. i # j
  BY <1>3 DEF P
<1>5. ~(j < i)
  <2>1. j < i => Rank(P[j]) < Rank(P[i])
    BY <1>1 DEF Ordered, P
  <2>2. Rank(P[i]) < Rank(P[j])
    BY DEF P
  <2> QED
    BY <1>3, <2>1, <2>2
<1> QED
  BY <1>2, <1>4, <1>5

\* Two commands of one part: of the writes that are apart from each other, only the logo's two are.
LEMMA PartMates ==
  ASSUME NEW w \in Intent, NEW s, NEW t, Fits(w, s), Fits(w, t), s.part = t.part,
         t.do = "set", t.arg \in Light
  PROVE  s.do = "set" /\ s.arg \in Mates(t.arg)
<1>1. t.part = PartAt(Rank(t)) /\ Rank(t) \in 12 .. 16
  BY RanksOf DEF Fits, Light
<1>2. t.part = CASE t.arg \in {"logo", "lit"} -> "logo" [] OTHER -> t.arg
  BY <1>1, RanksOf DEF PartAt, Light
<1>3. s.do # "custom" /\ s.part = PartAt(Rank(s))
  BY <1>2 DEF Fits, Light
<1>4. s.do = "set" /\ s.arg \in Asked
  <2>1. s.do \in {"hold", "confirm", "mode1", "mode2"} => PartAt(Rank(s)) \in {"perf", "fan"}
    <3>1. s.do \in {"hold", "confirm", "mode1", "mode2"} => Rank(s) \in 1 .. 5 \/ Rank(s) \in 7 .. 11
      BY RanksOf
    <3> QED
      BY <3>1 DEF PartAt
  <2> QED
    BY <1>2, <1>3, <2>1 DEF Fits, Bare, Light
<1>5. PartAt(Rank(s)) = CASE s.arg \in {"cpu", "gpu"} -> "perf" [] s.arg = "max" -> "max"
                          [] s.arg \in {"point1", "point2"} -> "fan"
                          [] s.arg \in {"logo", "lit"} -> "logo" [] OTHER -> s.arg
  BY <1>4, RanksOf DEF PartAt, Asked
<1> QED
  BY <1>2, <1>3, <1>4, <1>5 DEF Mates, Asked, Light

\* A later command leaves what an earlier one has written.
LEMMA LeavesWritten ==
  ASSUME NEW w \in Intent, NEW i \in DOMAIN Apply(w), NEW j \in DOMAIN Apply(w), j < i,
         Apply(w)[j].do = "set", ec \in [Reg -> Value], held \in [Proc -> ModeRead],
         Apply(w)[j].arg = "max" /\ Apply(w)[i].do \in {"mode1", "mode2"} =>
           PerfOf("tray", Apply(w)[i]) = "Custom"
  PROVE  Taken("tray", Apply(w)[i])[Apply(w)[j].arg] = ec[Apply(w)[j].arg]
<1> DEFINE P == Apply(w)
           s == P[i]
           t == P[j]
<1>1. P \in Seq(Commands) /\ Ordered(P) /\ Fits(w, s) /\ Fits(w, t)
  BY ApplyShape DEF Stretch, Fitting
<1>2. s.do # "custom" => Rank(t) < Rank(s)
  BY <1>1 DEF Ordered
<1>3. s \in Commands /\ t.arg \in Asked /\ t.arg \in Reg /\ "tray" \in Proc
  BY <1>1 DEF Fits, Bare, Asked, Reg, Proc
<1> HIDE DEF s
<1>4. CASE s.do = "set"
  <2>1. s.arg # t.arg
    <3>1. Rank(t) < Rank(s) /\ s.arg \in Asked /\ Rank(s) \in Nat
      BY <1>1, <1>2, <1>4, RankNat DEF Fits, Bare
    <3>2. s.arg = t.arg => Rank(s) = Rank(t)
      BY <1>3, <1>4, RanksOf DEF Asked
    <3> QED
      BY <3>1, <3>2
  <2>2. ~(s.arg = "effect" /\ t.arg = "bright")
    BY <1>2, <1>4, RanksOf
  <2> QED
    BY <1>3, <1>4, <2>1, <2>2, TakenSet DEF s
<1>5. CASE s.do \in {"mode1", "mode2"}
  <2>1. PerfOf("tray", s) \in Value
    BY <1>3, <1>5, PerfOfTyped
  <2>2. t.arg # Zone(s)[1] /\ t.arg # Zone(s)[2]
    BY <1>3 DEF Zone, Asked
  <2>3. t.arg = "max" => PerfOf("tray", s) = "Custom"
    BY <1>5 DEF s
  <2>4. Taken("tray", s)[t.arg] = CASE t.arg = Zone(s)[1] -> PerfOf("tray", s)
                                   [] t.arg = Zone(s)[2] -> s.val
                                   [] t.arg = "max" /\ PerfOf("tray", s) # "Custom" -> "Disable"
                                   [] OTHER -> ec[t.arg]
    BY <1>3, <1>5, <2>1, TakenMode
  <2> QED
    BY <2>2, <2>3, <2>4 DEF s
<1>6. CASE s.do \notin {"set", "mode1", "mode2"}
  BY <1>3, <1>6, TakenNothing DEF s
<1> QED
  BY <1>4, <1>5, <1>6

\* While everything has gone well, the modes an apply writes after its Custom ones are Custom too:
\* the fan's keep the mode that was read after the confirm.
LEMMA StaysCustom ==
  ASSUME TypeInv, ApplyInv, op["tray"] = "apply", alone["tray"], first["tray"] = "Ok",
         NEW i, i = at["tray"], i \in DOMAIN Apply(intent), intent.perf = "Custom",
         Apply(intent)[i].do \in {"mode1", "mode2"}
  PROVE  PerfOf("tray", Apply(intent)[i]) = "Custom"
<1> DEFINE P == Apply(intent)
<1>1. intent \in Intent
  BY DEF TypeInv, SettingTypes
<1>2. Fits(intent, P[i]) /\ Has(P, "hold", None)
  BY <1>1, ApplyShape DEF Fitting
<1>3. P[i].arg \in {"held", "Custom"}
  BY <1>2 DEF Fits, Bare
<1>4. CASE P[i].arg = "held"
  <2>1. PICK k \in DOMAIN P : P[k].do = "hold"
    BY <1>2 DEF Has
  <2>2. Rank(P[k]) = 7 /\ Rank(P[i]) \in 8 .. 9
    BY <1>4, <2>1, RanksOf
  <2>3. k < i
    BY <1>1, <2>1, <2>2, ComesBefore
  <2>4. DoneBy(P[k])
    BY <2>3, Zenon DEF ApplyInv, Passed
  <2> QED
    BY <1>4, <2>1, <2>4 DEF DoneBy, PerfOf
<1>5. CASE P[i].arg = "Custom"
  BY <1>5 DEF PerfOf
<1> QED
  BY <1>3, <1>4, <1>5

LEMMA ApplyIsolates ==
  ASSUME TypeInv, ApplyInv, Step("tray"), op["tray"] = "apply", alone["tray"],
         ~(at'["tray"] = 0 /\ Stops(first'["tray"])),
         NEW j \in DOMAIN Apply(intent), Passed(j)'
  PROVE  Isolated(Apply(intent)[j])'
<1> DEFINE P == Apply(intent)
           i == at["tray"]
           s == P[i]
           t == P[j]
<1>1. /\ i \in DOMAIN P /\ P \in Seq(Commands) /\ intent' = intent
      /\ log \subseteq log' /\ refused \subseteq refused'
      /\ ec' = ec \/ ec' = Taken("tray", s)
  BY ApplySent
<1>2. PICK e \in Error \cup {"Ok"} :
        /\ \A k \in DOMAIN P : k > i /\ (at'["tray"] = 0 \/ k < at'["tray"]) =>
             P[k].opt \in log' \/ (e # "Ok" /\ P[k].part = s.part)
        /\ s.do = "set" => /\ e = "Ok" => s.opt \in log' \/ ec' = Taken("tray", s)
                           /\ e # "Ok" => s.arg \in refused'
  BY ApplySent, Zenon
<1>3. /\ intent \in Intent /\ ec \in [Reg -> Value] /\ held \in [Proc -> ModeRead]
      /\ i \in Nat /\ i > 0 /\ "tray" \in Proc
  BY <1>1 DEF TypeInv, SettingTypes, WorldTypes, RunTypes, Step, Proc
<1>4. Fits(intent, s) /\ Fits(intent, t) /\ s \in Commands
  BY <1>1, <1>3, ApplyShape DEF Fitting
<1>5. j \in Nat
  BY <1>1
<1> SUFFICES ASSUME t.do = "set", t.arg \in Light
             PROVE  t.opt \in log' \/ ec'[t.arg] = t.val \/ refused' \cap Mates(t.arg) # {}
  BY <1>1 DEF Isolated
<1>6. CASE j < i
  <2>1. Isolated(t)
    <3>1. at["tray"] # 0
      BY <1>3
    <3> QED
      BY <1>6, <3>1, Zenon DEF ApplyInv, Passed
  <2>2. Taken("tray", s)[t.arg] = ec[t.arg]
    <3>1. t.arg # "max"
      BY DEF Light
    <3> QED
      BY <1>1, <1>3, <1>6, <3>1, LeavesWritten
  <2>3. ec'[t.arg] = ec[t.arg]
    BY <1>1, <2>2
  <2>4. t.opt \in log \/ ec[t.arg] = t.val \/ refused \cap Mates(t.arg) # {}
    BY <2>1 DEF Isolated
  <2> HIDE DEF t
  <2> QED
    BY <1>1, <2>3, <2>4
<1>7. CASE j = i
  <2>1. t = s /\ t.arg \in Mates(t.arg) /\ t.arg \in Reg
    BY <1>7 DEF Mates, Light, Reg
  <2>2. Taken("tray", s)[t.arg] = s.val
    BY <1>3, <1>4, <2>1, TakenSet
  <2> HIDE DEF s, t
  <2> QED
    BY <1>2, <2>1, <2>2
<1>8. CASE j > i
  <2>1. t.opt \in log' \/ (e # "Ok" /\ t.part = s.part)
    BY <1>2, <1>8 DEF Passed
  <2>2. e # "Ok" /\ t.part = s.part => refused' \cap Mates(t.arg) # {}
    <3> SUFFICES ASSUME e # "Ok", t.part = s.part PROVE refused' \cap Mates(t.arg) # {}
      OBVIOUS
    <3>1. s.do = "set" /\ s.arg \in Mates(t.arg)
      BY <1>3, <1>4, PartMates
    <3> QED
      BY <1>2, <3>1
  <2> QED
    BY <2>1, <2>2
<1> QED
  BY <1>3, <1>5, <1>6, <1>7, <1>8

LEMMA ApplyDoes ==
  ASSUME TypeInv, ApplyInv, Step("tray"), op["tray"] = "apply", alone["tray"],
         first'["tray"] = "Ok", NEW j \in DOMAIN Apply(intent), Passed(j)'
  PROVE  DoneBy(Apply(intent)[j])'
<1> DEFINE P == Apply(intent)
           i == at["tray"]
           s == P[i]
           t == P[j]
<1>1. /\ i \in DOMAIN P /\ P \in Seq(Commands) /\ UNCHANGED <<scene, dev, intent>>
      /\ log \subseteq log' /\ (s.do # "hold" => held' = held)
      /\ ec' = ec \/ ec' = Taken("tray", s)
  BY ApplySent
<1>2. ~Stops(first'["tray"])
  BY DEF Stops, Retryable
<1>3. PICK e \in Error \cup {"Ok"} :
        /\ first["tray"] = "Ok" /\ e = "Ok"
        /\ \A k \in DOMAIN P : k > i /\ (at'["tray"] = 0 \/ k < at'["tray"]) =>
             P[k].opt \in log' \/ (e # "Ok" /\ P[k].part = s.part)
        /\ s.do = "set" => s.opt \in log' \/ ec' = Taken("tray", s)
        /\ s.do \in {"confirm", "hold"} => Answer("tray", s) = "Ok" /\ ec' = ec
        /\ s.do = "hold" => held'["tray"] = [perf |-> ec["perf1"], fan |-> ec["fan1"]]
  BY <1>2, ApplySent, Zenon
<1>4. /\ intent \in Intent /\ ec \in [Reg -> Value] /\ held \in [Proc -> ModeRead]
      /\ i \in Nat /\ i > 0 /\ "tray" \in Proc
  BY <1>1 DEF TypeInv, SettingTypes, WorldTypes, RunTypes, Step, Proc
<1>5. Fits(intent, s) /\ Fits(intent, t) /\ s \in Commands /\ Ordered(P)
  BY <1>1, <1>4, ApplyShape DEF Fitting, Stretch
<1>6. j \in Nat
  BY <1>1
<1>7. Lacking("tray", "ModeRead")' = Lacking("tray", "ModeRead")
  BY <1>1 DEF Lacking, Machine
<1>8. \A k \in DOMAIN P : k < i => DoneBy(P[k])
  BY <1>3, Zenon DEF ApplyInv, Passed
<1>9. s.do \in {"mode1", "mode2"} /\ intent.perf = "Custom" => PerfOf("tray", s) = "Custom"
  BY <1>1, <1>3, StaysCustom
<1>10. t.do \in {"set", "confirm", "hold"} \/ DoneBy(t)'
  BY <1>1 DEF DoneBy
<1>11. CASE t.do = "set"
  <2> SUFFICES t.opt \in log' \/ ec'[t.arg] = t.val
    BY <1>1, <1>11 DEF DoneBy
  <2>1. t.arg \in Asked /\ t.arg \in Reg /\ (t.arg = "max" => intent.perf = "Custom")
    BY <1>5, <1>11 DEF Fits, Bare, Asked, Reg
  <2>2. CASE j < i
    <3>1. Taken("tray", s)[t.arg] = ec[t.arg]
      BY <1>1, <1>4, <1>9, <1>11, <2>1, <2>2, LeavesWritten
    <3>2. t.opt \in log \/ ec[t.arg] = t.val
      BY <1>8, <1>11, <2>2 DEF DoneBy
    <3> HIDE DEF t
    <3> QED
      BY <1>1, <3>1, <3>2
  <2>3. CASE j = i
    <3>1. t = s
      BY <2>3
    <3>2. Taken("tray", s)[t.arg] = s.val
      BY <1>4, <1>5, <1>11, <2>1, <3>1, TakenSet
    <3> HIDE DEF s, t
    <3> QED
      BY <1>3, <1>11, <3>1, <3>2
  <2>4. CASE j > i
    BY <1>3, <2>4 DEF Passed
  <2> QED
    BY <1>4, <1>6, <2>2, <2>3, <2>4
<1>12. t.do # "set" => ~(j > i)
  <2>1. log' \subseteq Optional
    BY StepTyped, <1>4 DEF TypeInv, WorldTypes
  <2>2. t.do # "set" => t.opt \notin Optional
    BY <1>5 DEF Fits, Bare, None, Optional
  <2> QED
    BY <1>3, <2>1, <2>2 DEF Passed
<1>13. CASE t.do = "confirm"
  <2>1. intent.perf = "Custom" /\ t.arg = "Custom"
    BY <1>5, <1>13 DEF Fits, Bare
  <2> SUFFICES ASSUME ~Lacking("tray", "ModeRead")
               PROVE  BothPerf("Custom")'
    BY <1>1, <1>7, <1>13 DEF DoneBy
  <2>2. CASE j < i
    <3>1. BothPerf("Custom")
      BY <1>8, <1>13, <2>2 DEF DoneBy
    <3>2. "perf1" \in Reg /\ "perf2" \in Reg
      BY DEF Reg
    <3>3. CASE s.do = "set"
      <4>1. s.arg \in Asked
        BY <1>5, <3>3 DEF Fits, Bare
      <4>2. s.arg # "perf1" /\ s.arg # "perf2"
        BY <4>1 DEF Asked
      <4>3. Taken("tray", s)["perf1"] = ec["perf1"] /\ Taken("tray", s)["perf2"] = ec["perf2"]
        BY <1>4, <1>5, <3>2, <3>3, <4>2, TakenSet
      <4> QED
        BY <1>1, <3>1, <4>3 DEF BothPerf
    <3>4. CASE s.do \in {"mode1", "mode2"}
      <4>1. PerfOf("tray", s) = "Custom" /\ "Custom" \in Value
        BY <1>9, <2>1, <3>4, LaptopAssumption
      <4>2. Zone(s)[1] \in {"perf1", "perf2"} /\ Zone(s)[2] \in {"fan1", "fan2"}
        BY DEF Zone
      <4>3. \A reg \in {"perf1", "perf2"} : Taken("tray", s)[reg] \in {"Custom", ec[reg]}
        BY <1>4, <1>5, <3>2, <3>4, <4>1, <4>2, TakenMode
      <4> QED
        BY <1>1, <3>1, <4>3 DEF BothPerf
    <3>5. CASE s.do \notin {"set", "mode1", "mode2"}
      BY <1>1, <1>4, <1>5, <3>1, <3>5, TakenNothing DEF BothPerf
    <3> QED
      BY <3>3, <3>4, <3>5
  <2>3. CASE j = i
    <3>1. Answer("tray", s) = "Ok" /\ ec' = ec /\ s.do = "confirm" /\ s.arg = "Custom"
      BY <1>3, <1>13, <2>1, <2>3
    <3>2. Confirms("tray", "Custom", s.val) = "Ok"
      BY <3>1 DEF Answer, PerfOf
    <3>3. ReadsModes("tray") = "Ok" /\ ec["perf1"] = "Custom"
      BY <3>2 DEF Confirms, ReadsModes
    <3>4. ZonesAgree
      BY <3>3 DEF ReadsModes
    <3> QED
      BY <3>1, <3>3, <3>4 DEF BothPerf, ZonesAgree
  <2> QED
    BY <1>4, <1>6, <1>12, <1>13, <2>2, <2>3
<1>14. CASE t.do = "hold"
  <2> SUFFICES /\ ~Lacking("tray", "ModeRead")
               /\ intent.perf = "Custom" => held'["tray"].perf = "Custom"
    BY <1>1, <1>7, <1>14 DEF DoneBy
  <2>1. CASE j < i
    <3>1. /\ ~Lacking("tray", "ModeRead")
          /\ intent.perf = "Custom" => held["tray"].perf = "Custom"
      BY <1>8, <1>14, <2>1 DEF DoneBy
    <3>2. s.do # "hold"
      <4>1. s.do = "hold" => Rank(t) < Rank(s)
        BY <1>1, <1>5, <1>14, <2>1 DEF Ordered
      <4>2. Rank(t) = 7 /\ (s.do = "hold" => Rank(s) = 7)
        BY <1>14, RanksOf
      <4> QED
        BY <4>1, <4>2
    <3> QED
      BY <1>1, <3>1, <3>2
  <2>2. CASE j = i
    <3>1. /\ s.do = "hold" /\ Answer("tray", s) = "Ok"
          /\ held'["tray"] = [perf |-> ec["perf1"], fan |-> ec["fan1"]]
      BY <1>3, <1>14, <2>2
    <3>2. ~Lacking("tray", "ModeRead")
      BY <3>1 DEF Answer, ReadsModes
    <3>3. ASSUME intent.perf = "Custom" PROVE held'["tray"].perf = "Custom"
      <4>1. PICK k \in DOMAIN P : P[k].do = "confirm"
        BY <1>4, <3>3, ApplyShape DEF Has
      <4>2. Rank(P[k]) = 3 /\ Rank(P[i]) = 7
        BY <3>1, <4>1, RanksOf
      <4>3. k < i
        BY <1>1, <1>4, <3>1, <4>1, <4>2, ComesBefore
      <4>4. BothPerf("Custom")
        BY <1>8, <3>2, <4>1, <4>3 DEF DoneBy
      <4> QED
        BY <3>1, <4>4 DEF BothPerf
    <3> QED
      BY <3>2, <3>3
  <2> QED
    BY <1>4, <1>6, <1>12, <1>14, <2>1, <2>2
<1> QED
  BY <1>10, <1>11, <1>13, <1>14

LEMMA ApplyStep ==
  ASSUME TypeInv, ApplyInv, Step("tray"), op["tray"] = "apply"
  PROVE  ApplyInv'
<1>1. /\ alone'["tray"] = alone["tray"] /\ op'["tray"] = "apply"
      /\ Apply(intent)' = Apply(intent)
  BY ApplySent
<1> SUFFICES ASSUME alone["tray"]
             PROVE  /\ ~(at'["tray"] = 0 /\ Stops(first'["tray"])) =>
                         \A j \in DOMAIN Apply(intent) :
                           Passed(j)' => Isolated(Apply(intent)[j])'
                    /\ first'["tray"] = "Ok" =>
                         \A j \in DOMAIN Apply(intent) :
                           Passed(j)' => DoneBy(Apply(intent)[j])'
  BY <1>1, Zenon DEF ApplyInv
<1> QED
  BY ApplyIsolates, ApplyDoes

\* What the command line, another program and the user leave of the tray's run: all of it, and of
\* the registers too unless it is no longer alone.
LEMMA TrayLeftAlone ==
  ASSUME TypeInv, [Next]_vars, ~TrayStep, ~Pick, ~WakeCheck
  PROVE  /\ UNCHANGED <<scene, log, refused, intent, mode, unsup>> /\ dev'["tray"] = dev["tray"]
         /\ op'["tray"] = op["tray"] /\ at'["tray"] = at["tray"] /\ first'["tray"] = first["tray"]
         /\ held'["tray"] = held["tray"] /\ failed'["tray"] = failed["tray"]
         /\ got'["tray"] = got["tray"]
         /\ alone'["tray"] => alone["tray"] /\ ec' = ec
<1>1. RunTypes /\ dev \in [Proc -> Pid \cup {0}] /\ failed \in [Proc -> Error \cup {"Ok"}]
  BY DEF TypeInv, WorldTypes, SettingTypes
<1>2. "cli" \in Proc /\ "tray" \in Proc /\ "cli" # "tray"
  BY DEF Proc
<1>3. CASE Step("cli")
  <2> DEFINE prog == Prog(op["cli"], intent, want)
             s == prog[at["cli"]]
  <2>1. UNCHANGED <<scene, dev, op, failed>> /\ UNCHANGED <<intent, mode, unsup>>
    BY <1>2, <1>3, Stepped DEF tray
  <2>2. PICK reply : /\ Does("cli", s, reply)
                     /\ \E next \in 0 .. Len(prog) :
                          Goes("cli", prog, Outcome("cli", s, reply.e), next)
    BY <1>2, <1>3, Stepped, Zenon
  <2>3. PICK next : Goes("cli", prog, Outcome("cli", s, reply.e), next)
    BY <2>2
  <2> HIDE DEF prog, s
  <2>4. /\ first' = [first EXCEPT !["cli"] = Kept(s, Outcome("cli", s, reply.e), @)]
        /\ alone' = [q \in Proc |-> alone[q] /\ (q = "cli" \/ ec' = ec)]
        /\ held' = IF s.do # "hold" THEN held
                   ELSE [held EXCEPT !["cli"] = IF Outcome("cli", s, reply.e) # "Ok" THEN NoMode
                                                ELSE [perf |-> ec["perf1"], fan |-> ec["fan1"]]]
    BY <2>2, Zenon DEF Does
  <2>5. log' = log /\ refused' = refused
    BY <2>2 DEF Does, Learnt
  <2>6. at' = [at EXCEPT !["cli"] = next]
    BY <2>3, Zenon DEF Goes
  <2>7. at'["tray"] = at["tray"] /\ first'["tray"] = first["tray"] /\ held'["tray"] = held["tray"]
    BY <1>1, <1>2, <2>4, <2>6 DEF RunTypes
  <2>8. alone'["tray"] => alone["tray"] /\ ec' = ec
    BY <1>2, <2>4, Zenon
  <2>9. got'["tray"] = got["tray"]
    <3>1. got' = IF s.do \in {"get", "again"} /\ s.arg \in DOMAIN NoReading /\ reply.e = "Ok"
                 THEN [got EXCEPT !["cli"][s.arg] = reply.shows] ELSE got
      BY <2>2, Zenon DEF Does
    <3> QED
      BY <1>1, <1>2, <3>1 DEF RunTypes
  <2> QED
    BY <2>1, <2>5, <2>7, <2>8, <2>9
<1>4. CASE ~Step("cli")
  <2>1. /\ UNCHANGED <<scene, log, intent, mode, unsup, ec>>
        /\ \/ \E o \in CliOp : Begin("cli", o)
           \/ Rest("cli")
           \/ /\ op' = op \/ \E o : op' = [op EXCEPT !["cli"] = o]
              /\ at' = at \/ at' = [at EXCEPT !["cli"] = 1]
              /\ alone' = alone \/ alone' = [alone EXCEPT !["cli"] = TRUE]
              /\ UNCHANGED <<first, held, got, refused>>
    <3>1. CASE RpmRead \/ RpmSwitched \/ CliEnds \/ Kill
      <4>1. UNCHANGED <<scene, log, intent, mode, unsup, ec>>
        BY <3>1, Zenon DEF RpmRead, RpmSwitched, CliEnds, Kill, OnlyCli, tray
      <4>2. \/ \E o \in {"points", "switch", "switched", "back"} : Begin("cli", o)
            \/ Rest("cli")
        BY <3>1, Zenon DEF RpmRead, RpmSwitched, CliEnds, Kill
      <4> QED
        BY <4>1, <4>2 DEF CliOp
    <3>2. CASE CliStart
      BY <3>2, Zenon DEF CliStart, OnlyCli, tray
    <3>3. CASE Busy \/ UNCHANGED vars
      BY <3>3, Zenon DEF Busy, vars, opened, run, tray, history
    <3> QED
      BY <1>4, <3>1, <3>2, <3>3, Zenon DEF Next, CliStep
  <2>2. dev' = dev \/ \E d : dev' = [dev EXCEPT !["cli"] = d]
    BY <1>4, Zenon DEF Next, CliStep, RpmRead, RpmSwitched, CliEnds, Kill, CliStart, Busy, vars, opened
  <2>3. failed' = failed \/ \E d : failed' = [failed EXCEPT !["cli"] = d]
    BY <1>4, Zenon DEF Next, CliStep, RpmRead, RpmSwitched, CliEnds, Kill, CliStart, Busy, vars, run
  <2>4. dev'["tray"] = dev["tray"] /\ failed'["tray"] = failed["tray"]
    BY <1>1, <1>2, <2>2, <2>3
  <2>5. CASE \E o \in CliOp : Begin("cli", o)
    <3>1. PICK o \in CliOp : Begin("cli", o)
      BY <2>5
    <3>2. o # "apply"
      BY <3>1 DEF CliOp
    <3>3. /\ op'["tray"] = op["tray"] /\ at'["tray"] = at["tray"] /\ first'["tray"] = first["tray"]
          /\ held' = held /\ got'["tray"] = got["tray"] /\ refused' = refused /\ alone'["tray"] = alone["tray"]
      BY <1>1, <1>2, <3>1, <3>2 DEF RunTypes, Begin
    <3> QED
      BY <2>1, <2>4, <3>3
  <2>6. CASE Rest("cli")
    <3>1. /\ op'["tray"] = op["tray"] /\ at'["tray"] = at["tray"] /\ first'["tray"] = first["tray"]
          /\ held'["tray"] = held["tray"] /\ got'["tray"] = got["tray"] /\ refused' = refused /\ alone'["tray"] = alone["tray"]
      BY <1>1, <1>2, <2>6 DEF RunTypes, Rest
    <3> QED
      BY <2>1, <2>4, <3>1
  <2>7. CASE /\ op' = op \/ \E o : op' = [op EXCEPT !["cli"] = o]
             /\ at' = at \/ at' = [at EXCEPT !["cli"] = 1]
             /\ alone' = alone \/ alone' = [alone EXCEPT !["cli"] = TRUE]
             /\ UNCHANGED <<first, held, got, refused>>
    <3>1. op'["tray"] = op["tray"] /\ at'["tray"] = at["tray"] /\ alone'["tray"] = alone["tray"]
      BY <1>1, <1>2, <2>7 DEF RunTypes
    <3> QED
      BY <2>1, <2>4, <2>7, <3>1
  <2> QED
    BY <2>1, <2>5, <2>6, <2>7
<1> QED
  BY <1>3, <1>4

\* What else the tray does begins an apply, or is none.
LEMMA TrayBegins ==
  ASSUME TypeInv, TrayStep \/ Pick \/ WakeCheck, ~Step("tray"), ~ApplyDone
  PROVE  \/ op'["tray"] = "apply" /\ at'["tray"] = 1
         \/ op'["tray"] \notin {"apply", "confirm"}
<1>1. RunTypes /\ "tray" \in Proc
  BY DEF TypeInv, Proc
<1>2. CASE StartSync \/ ConfirmFails \/ ApplyEnds \/ ProbeFails \/ ProbeDone \/ Poll \/ WakeCheck
  <2>1. \/ \E o \in {"apply", "read", "reread"} : Begin("tray", o)
        \/ Rest("tray")
    BY <1>2, Zenon DEF StartSync, ConfirmFails, ApplyEnds, ProbeFails, ProbeDone, Poll, WakeCheck, ReadFor
  <2> QED
    BY <1>1, <2>1 DEF RunTypes, Begin, Rest, None
<1>3. CASE Pick
  <2>1. Begin("tray", "apply") \/ (op' = op /\ op["tray"] = None)
    BY <1>3, Zenon DEF Pick, Idle
  <2> QED
    BY <1>1, <2>1 DEF RunTypes, Begin, None
<1>4. CASE PollDone \/ PollFails \/ ReconcileDone \/ ReconcileFails \/ ZonesDone \/ EnforceDone \/ AfterDone
  <2>1. \/ \E o \in {"read", "enforce", "zones", "after"} : Begin("tray", o)
        \/ Rest("tray")
    BY <1>4, Zenon DEF PollDone, PollFails, ReconcileDone, ReconcileFails, ZonesDone, EnforceDone,
       AfterDone, Finish
  <2> QED
    BY <1>1, <2>1 DEF RunTypes, Begin, Rest, None
<1> QED
  BY <1>2, <1>3, <1>4 DEF TrayStep

LEMMA Written ==
  ASSUME TypeInv, NEW reg \in Asked, Has(Apply(intent), "set", reg)
  PROVE  /\ (\A j \in DOMAIN Apply(intent) : Apply(intent)[j].do = "set" => DoneBy(Apply(intent)[j]))
              => OptionOf(reg) \in log \/ ec[reg] = Target(intent, reg)
         /\ (reg \in Light /\ \A j \in DOMAIN Apply(intent) : Isolated(Apply(intent)[j]))
              => \/ OptionOf(reg) \in log \/ ec[reg] = Target(intent, reg)
                 \/ refused \cap Mates(reg) # {}
<1> DEFINE P == Apply(intent)
<1>1. PICK j \in DOMAIN P : P[j].do = "set" /\ P[j].arg = reg
  BY DEF Has
<1>2. Fits(intent, P[j]) /\ log \subseteq Optional
  BY ApplyShape DEF Fitting, TypeInv, SettingTypes, WorldTypes
<1>3. P[j].val = Target(intent, reg) /\ P[j].opt = OptOf(reg)
  BY <1>1, <1>2 DEF Fits, Bare
<1>4. P[j].opt \in log => OptionOf(reg) \in log
  BY <1>2, <1>3 DEF OptOf, Optional, None
<1> HIDE DEF P
<1>5. DoneBy(P[j]) => OptionOf(reg) \in log \/ ec[reg] = Target(intent, reg)
  BY <1>1, <1>3, <1>4 DEF DoneBy
<1>6. Isolated(P[j]) /\ reg \in Light => \/ OptionOf(reg) \in log \/ ec[reg] = Target(intent, reg)
                                         \/ refused \cap Mates(reg) # {}
  BY <1>1, <1>3, <1>4 DEF Isolated
<1> QED
  BY <1>1, <1>5, <1>6, Zenon DEF P

\* Once nothing of an apply failed, its confirm finds every write of it where it belongs.
ConfirmInv ==
  op["tray"] = "confirm" /\ alone["tray"] /\ failed["tray"] = "Ok" =>
    /\ \A j \in DOMAIN Apply(intent) : Apply(intent)[j].do = "set" => DoneBy(Apply(intent)[j])
    /\ ~Lacking("tray", "ModeRead")
    /\ at["tray"] = 0 /\ first["tray"] = "Ok" => BothPerf(intent.perf) /\ BothFan(intent.fan)

LEMMA ConfirmStep ==
  ASSUME TypeInv, ConfirmInv, Step("tray"), op["tray"] = "confirm"
  PROVE  ConfirmInv'
<1> DEFINE P == Prog(op["tray"], intent, want)
           s == P[at["tray"]]
<1>1. "tray" \in Proc /\ intent \in Intent /\ RunTypes /\ ec \in [Reg -> Value]
  BY DEF Proc, TypeInv, SettingTypes, WorldTypes
<1>2. UNCHANGED <<scene, dev, op, failed, intent>>
  BY <1>1, Stepped DEF tray
<1>3. PICK reply : /\ at["tray"] \in DOMAIN P /\ s \in Commands
                   /\ reply \in {Honest("tray", s)} \cup Faulty("tray", s)
                   /\ Does("tray", s, reply)
  BY <1>1, Stepped, Zenon
<1>4. P = << Confirm(intent.perf, intent.fan) >>
  BY DEF Prog
<1>5. s = Confirm(intent.perf, intent.fan)
  BY <1>3, <1>4
<1>6. s.do = "confirm" /\ s.opt = None /\ s.keep = "stop"
  BY <1>5 DEF Confirm, Do
<1>7. intent.perf \in Value /\ intent.perf # "held"
  BY <1>1, LaptopAssumption DEF Intent
<1> HIDE DEF s, P
<1>8. Outcome("tray", s, reply.e) = reply.e
  BY <1>6 DEF Outcome, Learnt, Settled, Optional, None
<1>9. /\ ec' = IF reply.taken THEN Taken("tray", s) ELSE ec
      /\ log' = IF Learnt("tray", s, reply.e) THEN log \cup {s.opt} ELSE log
      /\ alone' = [q \in Proc |-> alone[q] /\ (q = "tray" \/ ec' = ec)]
      /\ first' = [first EXCEPT !["tray"] = Kept(s, reply.e, @)]
  BY <1>3, <1>8, Zenon DEF Does
<1>10. ec' = ec /\ log' = log
  <2>1. Taken("tray", s) = ec
    BY <1>1, <1>3, <1>6, TakenNothing
  <2>2. ~Learnt("tray", s, reply.e)
    BY <1>6 DEF Learnt, Optional, None
  <2> QED
    BY <1>9, <2>1, <2>2
<1>11. alone'["tray"] => alone["tray"]
  BY <1>1, <1>9, Zenon
<1>12. first'["tray"] = "Ok" => Answer("tray", s) = "Ok"
  <2>1. first'["tray"] = Kept(s, reply.e, first["tray"])
    BY <1>1, <1>9 DEF RunTypes
  <2>2. first'["tray"] = "Ok" => reply.e = "Ok"
    BY <1>6, <2>1 DEF Kept, Fatal, Heard
  <2> QED
    BY <1>1, <1>3, <1>6, <2>2, Replied
<1>13. ~Lacking("tray", "ModeRead") /\ first'["tray"] = "Ok" =>
         BothPerf(intent.perf) /\ BothFan(intent.fan)
  BY <1>1, <1>5, <1>7, <1>12, Confirmed
<1> QED
  BY <1>2, <1>10, <1>11, <1>13 DEF ConfirmInv, DoneBy, BothPerf, BothFan, Lacking, Machine

LEMMA ApplyDoneConfirms ==
  ASSUME TypeInv, ApplyInv, ApplyDone
  PROVE  ApplyInv' /\ ConfirmInv'
<1>1. RunTypes /\ "tray" \in Proc /\ intent \in Intent /\ failed \in [Proc -> Error \cup {"Ok"}]
  BY DEF TypeInv, SettingTypes, Proc
<1>2. /\ op["tray"] = "apply" /\ at["tray"] = 0
      /\ \E o \in {"reread", "confirm"} : Begin("tray", o)
      /\ failed' = [failed EXCEPT !["tray"] = first["tray"]]
      /\ UNCHANGED <<scene, ec, dev, log, intent>>
  BY Zenon DEF ApplyDone, Done, opened, tray
<1>3. op'["tray"] \in {"reread", "confirm"} /\ at'["tray"] = 1
  BY <1>1, <1>2 DEF RunTypes, Begin
<1>4. alone'["tray"] => alone["tray"]
  <2>1. PICK o \in {"reread", "confirm"} : alone' = [alone EXCEPT !["tray"] = @ \/ o \in {"apply", "read"}]
    BY <1>2, Zenon DEF Begin
  <2>2. o \notin {"apply", "read"}
    BY <2>1
  <2>3. alone'["tray"] = (alone["tray"] \/ o \in {"apply", "read"})
    BY <1>1, <2>1, Zenon DEF RunTypes
  <2> QED
    BY <2>2, <2>3
<1>5. failed'["tray"] = first["tray"]
  BY <1>1, <1>2
<1>6. ASSUME alone["tray"], first["tray"] = "Ok"
      PROVE  /\ \A j \in DOMAIN Apply(intent) : DoneBy(Apply(intent)[j])
             /\ ~Lacking("tray", "ModeRead")
  <2>1. \A j \in DOMAIN Apply(intent) : DoneBy(Apply(intent)[j])
    BY <1>2, <1>6, Zenon DEF ApplyInv, Passed
  <2>2. PICK k \in DOMAIN Apply(intent) : Apply(intent)[k].do = "hold"
    BY <1>1, ApplyShape DEF Has
  <2> QED
    BY <2>1, <2>2, Zenon DEF DoneBy
<1>7. \A j \in DOMAIN Apply(intent) :
        Apply(intent)[j].do = "set" /\ DoneBy(Apply(intent)[j]) => DoneBy(Apply(intent)[j])'
  BY <1>2 DEF DoneBy
<1> QED
  BY <1>2, <1>3, <1>4, <1>5, <1>6, <1>7 DEF ApplyInv, ConfirmInv, Lacking, Machine

LEMMA ApplyKept ==
  ASSUME TypeInv, ApplyInv, ConfirmInv, [Next]_vars
  PROVE  ApplyInv' /\ ConfirmInv'
<1>1. RunTypes /\ "tray" \in Proc /\ intent \in Intent
  BY DEF TypeInv, SettingTypes, Proc
<1>2. CASE Step("tray")
  <2>1. op'["tray"] = op["tray"]
    BY <1>1, <1>2, Stepped
  <2>2. CASE op["tray"] = "apply"
    BY <1>2, <2>1, <2>2, ApplyStep DEF ConfirmInv
  <2>3. CASE op["tray"] = "confirm"
    BY <1>2, <2>1, <2>3, ConfirmStep DEF ApplyInv
  <2>4. CASE op["tray"] \notin {"apply", "confirm"}
    BY <2>1, <2>4 DEF ApplyInv, ConfirmInv
  <2> QED
    BY <2>2, <2>3, <2>4
<1>3. CASE ApplyDone
  BY <1>3, ApplyDoneConfirms
<1>4. CASE (TrayStep \/ Pick \/ WakeCheck) /\ ~Step("tray") /\ ~ApplyDone
  <2>1. CASE op'["tray"] = "apply" /\ at'["tray"] = 1
    <3>1. intent' \in Intent
      BY TypesKept DEF TypeInv, SettingTypes
    <3>2. \A j \in DOMAIN Apply(intent)' : ~Passed(j)'
      <4>1. Apply(intent)' \in Programs
        BY <3>1, ApplyTyped
      <4> QED
        BY <2>1, <4>1 DEF Passed, Programs
    <3> QED
      BY <2>1, <3>2 DEF ApplyInv, ConfirmInv
  <2>2. CASE op'["tray"] \notin {"apply", "confirm"}
    BY <2>2 DEF ApplyInv, ConfirmInv
  <2> QED
    BY <1>4, <2>1, <2>2, TrayBegins
<1>5. CASE ~TrayStep /\ ~Pick /\ ~WakeCheck
  <2>1. /\ UNCHANGED <<scene, log, refused, intent>> /\ dev'["tray"] = dev["tray"]
        /\ op'["tray"] = op["tray"] /\ at'["tray"] = at["tray"] /\ first'["tray"] = first["tray"]
        /\ held'["tray"] = held["tray"] /\ failed'["tray"] = failed["tray"]
        /\ alone'["tray"] => alone["tray"] /\ ec' = ec
    BY <1>5, TrayLeftAlone
  <2> SUFFICES ASSUME alone'["tray"] PROVE ApplyInv' /\ ConfirmInv'
    BY DEF ApplyInv, ConfirmInv
  <2>2. alone["tray"] /\ ec' = ec /\ Lacking("tray", "ModeRead")' = Lacking("tray", "ModeRead")
    BY <2>1 DEF Lacking, Machine
  <2>3. Apply(intent)' = Apply(intent)
    BY <2>1
  <2>4. \A j \in DOMAIN Apply(intent) :
          /\ Passed(j)' = Passed(j)
          /\ Isolated(Apply(intent)[j]) => Isolated(Apply(intent)[j])'
          /\ DoneBy(Apply(intent)[j]) => DoneBy(Apply(intent)[j])'
    BY <2>1, <2>2, <2>3 DEF Passed, Isolated, DoneBy, BothPerf
  <2>5. ApplyInv'
    BY <2>1, <2>2, <2>3, <2>4, Zenon DEF ApplyInv
  <2>6. BothPerf(intent.perf)' = BothPerf(intent.perf) /\ BothFan(intent.fan)' = BothFan(intent.fan)
    BY <2>1, <2>2 DEF BothPerf, BothFan
  <2>7. ConfirmInv'
    BY <2>1, <2>2, <2>3, <2>4, <2>6, Zenon DEF ConfirmInv
  <2> QED
    BY <2>5, <2>7
<1> QED
  BY <1>2, <1>3, <1>4, <1>5

LEMMA ApplyAlways == Spec => [](ApplyInv /\ ConfirmInv)
<1>1. Init => ApplyInv /\ ConfirmInv
  BY DEF Init, ApplyInv, ConfirmInv, Proc, None
<1>2. TypeInv /\ (ApplyInv /\ ConfirmInv) /\ [Next]_vars => (ApplyInv /\ ConfirmInv)'
  BY ApplyKept
<1> QED
  BY <1>1, <1>2, TypesAlways, PTL DEF Spec

\* A write the laptop rejects takes no other with it: an apply that ends without bus trouble has
\* put each independent setting where it was asked, unless that setting's own write was refused or
\* the laptop lacks it (continue_after_rejection, apply).
THEOREM RejectionIsolatedHolds == Spec => []RejectionIsolated
<1>1. TypeInv /\ ApplyInv => RejectionIsolated
  <2> SUFFICES ASSUME TypeInv, ApplyInv, Done("apply"), alone["tray"], ~Stops(first["tray"]),
                      NEW x \in {"logo", "bright", "effect", "care"}
               PROVE  \/ OptionOf(x) \in log \/ Lights(intent)[x]
                      \/ refused \cap (IF x = "logo" THEN {"logo", "lit"} ELSE {x}) # {}
    BY DEF RejectionIsolated
  <2>1. \A j \in DOMAIN Apply(intent) : Isolated(Apply(intent)[j])
    BY Zenon DEF ApplyInv, Passed, Done
  <2>2. intent \in Intent
    BY DEF TypeInv, SettingTypes
  <2>3. \A reg \in Light : Has(Apply(intent), "set", reg) =>
          \/ OptionOf(reg) \in log \/ ec[reg] = Target(intent, reg)
          \/ refused \cap Mates(reg) # {}
    <3>1. Light \subseteq Asked
      BY DEF Light, Asked
    <3> QED
      BY <2>1, <3>1, Written
  <2>4. /\ Has(Apply(intent), "set", "lit") /\ (intent.logo # "Off" => Has(Apply(intent), "set", "logo"))
        /\ intent.effect # None => Has(Apply(intent), "set", "effect")
        /\ Has(Apply(intent), "set", "bright") /\ Has(Apply(intent), "set", "care")
    BY <2>2, ApplyShape
  <2>5. CASE x = "logo"
    <3>1. /\ OptionOf("lit") = "Logo" /\ OptionOf("logo") = "Logo"
          /\ Mates("lit") = {"logo", "lit"} /\ Mates("logo") = {"logo", "lit"}
          /\ "lit" \in Light /\ "logo" \in Light
      BY DEF OptionOf, Mates, Light
    <3> QED
      BY <2>3, <2>4, <2>5, <3>1 DEF Lights, Target
  <2>6. CASE x = "bright"
    BY <2>3, <2>4, <2>6 DEF Lights, Target, Mates, Light
  <2>7. CASE x = "care"
    BY <2>3, <2>4, <2>7 DEF Lights, Target, Mates, Light
  <2>8. CASE x = "effect"
    BY <2>3, <2>4, <2>8 DEF Lights, Target, Mates, Light
  <2> QED
    BY <2>5, <2>6, <2>7, <2>8
<1> QED
  BY <1>1, TypesAlways, ApplyAlways, PTL

\* An apply the tray shows as done has put every setting this laptop has where it was asked, both
\* zones included, unless somebody else wrote the EC meanwhile: whatever the bus loses or the EC
\* acknowledges and drops (apply_and_refresh, confirm_modes).
THEOREM OkMeansAppliedHolds == Spec => []OkMeansApplied
<1>1. TypeInv /\ ConfirmInv => OkMeansApplied
  <2> SUFFICES ASSUME TypeInv, ConfirmInv, Done("confirm"), Applied = "Ok", alone["tray"]
               PROVE  /\ HoldsModes(intent)
                      /\ \A x \in {"logo", "bright", "effect", "care"} :
                           OptionOf(x) \in log \/ Lights(intent)[x]
    BY DEF OkMeansApplied
  <2>1. first["tray"] = "Ok" /\ failed["tray"] = "Ok"
    BY DEF Applied, Done
  <2>2. /\ \A j \in DOMAIN Apply(intent) : Apply(intent)[j].do = "set" => DoneBy(Apply(intent)[j])
        /\ BothPerf(intent.perf) /\ BothFan(intent.fan)
    BY <2>1, Zenon DEF ConfirmInv, Done
  <2>3. intent \in Intent /\ log \subseteq Optional
    BY DEF TypeInv, SettingTypes, WorldTypes
  <2>4. \A reg \in Asked : Has(Apply(intent), "set", reg) =>
          OptionOf(reg) \in log \/ ec[reg] = Target(intent, reg)
    BY <2>2, Written
  <2>5. HoldsModes(intent)
    <3>1. ASSUME intent.perf = "Custom"
          PROVE  /\ ec["cpu"] = intent.cpu /\ ec["gpu"] = intent.gpu
                 /\ "MaxFan" \in log \/ ec["max"] = intent.max
      <4>1. \A reg \in {"cpu", "gpu", "max"} : Has(Apply(intent), "set", reg)
        BY <2>3, <3>1, ApplyShape
      <4>2. "cpu" \in Asked /\ "gpu" \in Asked /\ "max" \in Asked
        BY DEF Asked
      <4>3. OptionOf("cpu") \notin log /\ OptionOf("gpu") \notin log /\ OptionOf("max") = "MaxFan"
        BY <2>3 DEF OptionOf, Optional
      <4> QED
        BY <2>4, <4>1, <4>2, <4>3 DEF Target
    <3>2. ASSUME intent.fan = "Manual"
          PROVE  ec["point1"] = intent.rpm /\ ec["point2"] = intent.rpm
      <4>1. Has(Apply(intent), "set", "point1") /\ Has(Apply(intent), "set", "point2")
        BY <2>3, <3>2, ApplyShape
      <4>2. "point1" \in Asked /\ "point2" \in Asked
        BY DEF Asked
      <4>3. OptionOf("point1") \notin log /\ OptionOf("point2") \notin log
        BY <2>3 DEF OptionOf, Optional
      <4> QED
        BY <2>4, <4>1, <4>2, <4>3 DEF Target
    <3> QED
      BY <2>2, <3>1, <3>2 DEF HoldsModes, BothPerf, BothFan
  <2>6. ASSUME NEW x \in {"logo", "bright", "effect", "care"}
        PROVE  OptionOf(x) \in log \/ Lights(intent)[x]
    <3>1. /\ Has(Apply(intent), "set", "lit")
          /\ (intent.logo # "Off" => Has(Apply(intent), "set", "logo"))
          /\ intent.effect # None => Has(Apply(intent), "set", "effect")
          /\ Has(Apply(intent), "set", "bright") /\ Has(Apply(intent), "set", "care")
      BY <2>3, ApplyShape
    <3>2. Light \subseteq Asked
      BY DEF Light, Asked
    <3>3. CASE x = "logo"
      <4>1. OptionOf("lit") = "Logo" /\ OptionOf("logo") = "Logo" /\ "lit" \in Asked /\ "logo" \in Asked
        BY DEF OptionOf, Asked
      <4> QED
        BY <2>4, <3>1, <3>3, <4>1 DEF Lights, Target
    <3>4. CASE x = "bright"
      BY <2>4, <3>1, <3>4 DEF Lights, Target, Asked
    <3>5. CASE x = "care"
      BY <2>4, <3>1, <3>5 DEF Lights, Target, Asked
    <3>6. CASE x = "effect"
      BY <2>4, <3>1, <3>6 DEF Lights, Target, Asked
    <3> QED
      BY <3>3, <3>4, <3>5, <3>6
  <2> QED
    BY <2>5, <2>6
<1> QED
  BY <1>1, TypesAlways, ApplyAlways, PTL

-----------------------------------------------------------------------------
(* What a reading shows *)

\* What a command of a reading is: an error ends the reading, but for the effect's.
Looks(s, do, arg, opt, when) ==
  /\ s \in Commands /\ s.do = do /\ s.arg = arg /\ s.opt = opt /\ s.when = when
  /\ s.keep = (IF arg = "effect" THEN "ignore" ELSE "stop")
  /\ s.part = (IF arg = "effect" THEN "effect" ELSE None)

LEMMA ForLooks ==
  ASSUME NEW S \in Seq(Commands), NEW i \in DOMAIN S, NEW do \in {"get", "again"},
         NEW arg, arg # "effect", NEW when, NEW opt \in Optional, OptionOf(arg) = opt,
         Looks(S[i], do, arg, None, when)
  PROVE  Looks(For(opt, S)[i], do, arg, opt, when)
<1>1. For(opt, S)[i] = [S[i] EXCEPT !.opt = opt]
  BY DEF For
<1>2. S[i] \in Commands
  BY DEF Looks
<1> QED
  BY <1>1, <1>2 DEF Looks, Commands

LEMMA WhenLooks ==
  ASSUME NEW S \in Seq(Commands), NEW i \in DOMAIN S, NEW c \in {"Custom", "Manual"},
         NEW arg, NEW opt, Looks(S[i], "get", arg, opt, None)
  PROVE  Looks(When(c, S)[i], "get", arg, opt, c)
<1>1. When(c, S)[i] = [S[i] EXCEPT !.when = IF @ = None THEN c ELSE @]
  BY DEF When
<1>2. S[i] \in Commands /\ S[i].when = None
  BY DEF Looks
<1>3. When(c, S)[i] = [S[i] EXCEPT !.when = c]
  BY <1>1, <1>2
<1> QED
  BY <1>2, <1>3 DEF Looks, Commands

LEMMA GetLooks ==
  ASSUME NEW reg \in Reg \cup {"always"}
  PROVE  /\ <<Get(reg)>> \in Seq(Commands) /\ Len(<<Get(reg)>>) = 1
         /\ reg # "effect" => Looks(<<Get(reg)>>[1], "get", reg, None, None)
<1>1. Get(reg) \in Commands
  BY Atoms
<1>2. reg # "effect" => Looks(Get(reg), "get", reg, None, None)
  BY <1>1 DEF Looks, Get, Do
<1> QED
  BY <1>1, <1>2

LEMMA OneMore ==
  ASSUME NEW S \in Seq(Commands), NEW n \in Nat, Len(S) = n,
         NEW T \in Seq(Commands), Len(T) = 1
  PROVE  /\ S \o T \in Seq(Commands) /\ Len(S \o T) = n + 1
         /\ (S \o T)[n + 1] = T[1]
         /\ \A i \in 1 .. n : (S \o T)[i] = S[i]
<1> DEFINE U == S \o T
<1>1. 1 \in DOMAIN T /\ DOMAIN S = 1 .. n
  OBVIOUS
<1>2. U \in Seq(Commands) /\ Len(U) = Len(S) + Len(T)
  BY Joined
<1>3. (\A i \in DOMAIN S : U[i] = S[i]) /\ \A i \in DOMAIN T : U[Len(S) + i] = T[i]
  BY JoinedAt
<1> HIDE DEF U
<1>4. U[n + 1] = T[1] /\ Len(U) = n + 1
  BY <1>1, <1>2, <1>3
<1> QED
  BY <1>1, <1>2, <1>3, <1>4 DEF U

LEMMA TwoMore ==
  ASSUME NEW S \in Seq(Commands), NEW n \in Nat, Len(S) = n,
         NEW T \in Seq(Commands), Len(T) = 2
  PROVE  /\ S \o T \in Seq(Commands) /\ Len(S \o T) = n + 2
         /\ (S \o T)[n + 1] = T[1] /\ (S \o T)[n + 2] = T[2]
         /\ \A i \in 1 .. n : (S \o T)[i] = S[i]
<1> DEFINE U == S \o T
<1>1. 1 \in DOMAIN T /\ 2 \in DOMAIN T /\ DOMAIN S = 1 .. n
  OBVIOUS
<1>2. U \in Seq(Commands) /\ Len(U) = Len(S) + Len(T)
  BY Joined
<1>3. (\A i \in DOMAIN S : U[i] = S[i]) /\ \A i \in DOMAIN T : U[Len(S) + i] = T[i]
  BY JoinedAt
<1> HIDE DEF U
<1>4. U[n + 1] = T[1] /\ U[n + 2] = T[2] /\ Len(U) = n + 2
  BY <1>1, <1>2, <1>3
<1> QED
  BY <1>1, <1>2, <1>3, <1>4 DEF U

LEMMA ReadShape ==
  /\ Read \in Seq(Commands) /\ Len(Read) = 11
  /\ Looks(Read[1], "hold", None, None, None)
  /\ Looks(Read[2], "get", "cpu", None, "Custom")
  /\ Looks(Read[3], "get", "gpu", None, "Custom")
  /\ Looks(Read[4], "get", "point1", None, "Manual")
  /\ Looks(Read[5], "get", "logo", "Logo", None)
  /\ Looks(Read[6], "get", "bright", "KeyboardBrightness", None)
  /\ Looks(Read[7], "get", "always", None, None)
  /\ Looks(Read[8], "get", "effect", None, None)
  /\ Looks(Read[9], "get", "care", "BatteryCare", None)
  /\ Looks(Read[10], "again", "care", "BatteryCare", "off")
  /\ Looks(Read[11], "get", "max", "MaxFan", "Custom")
<1> DEFINE A1 == <<Hold>>
           G2 == <<Get("cpu"), Get("gpu")>>
           A2 == When("Custom", G2)
           A3 == When("Manual", <<Get("point1")>>)
           A4 == For("Logo", <<Get("logo")>>)
           A5 == For("KeyboardBrightness", <<Get("bright")>>)
           A6 == <<Get("always")>>
           A7 == Part("effect", "ignore", <<Get("effect")>>)
           A8 == For("BatteryCare", ReadCare)
           G9 == For("MaxFan", <<Get("max")>>)
           A9 == When("Custom", G9)
<1>1. Read = (((((((A1 \o A2) \o A3) \o A4) \o A5) \o A6) \o A7) \o A8) \o A9
  BY DEF Read
<1>2. A1 \in Seq(Commands) /\ Len(A1) = 1 /\ Looks(A1[1], "hold", None, None, None)
  <2>1. Hold \in Commands
    BY Atoms
  <2>2. Looks(Hold, "hold", None, None, None)
    BY <2>1 DEF Looks, Hold, Do, None
  <2> QED
    BY <2>1, <2>2
<1>3. /\ A2 \in Seq(Commands) /\ Len(A2) = 2
      /\ Looks(A2[1], "get", "cpu", None, "Custom") /\ Looks(A2[2], "get", "gpu", None, "Custom")
  <2>1. Get("cpu") \in Commands /\ Get("gpu") \in Commands
    BY Atoms DEF Reg
  <2>2. Looks(Get("cpu"), "get", "cpu", None, None) /\ Looks(Get("gpu"), "get", "gpu", None, None)
    BY <2>1 DEF Looks, Get, Do
  <2>3. /\ G2 \in Seq(Commands) /\ Len(G2) = 2 /\ 1 \in DOMAIN G2 /\ 2 \in DOMAIN G2
        /\ G2[1] = Get("cpu") /\ G2[2] = Get("gpu")
    BY <2>1
  <2> HIDE DEF G2
  <2> QED
    BY <2>2, <2>3, WhenTyped, WhenLooks
<1>4. A3 \in Seq(Commands) /\ Len(A3) = 1 /\ Looks(A3[1], "get", "point1", None, "Manual")
  <2>1. /\ <<Get("point1")>> \in Seq(Commands) /\ Len(<<Get("point1")>>) = 1
        /\ Looks(<<Get("point1")>>[1], "get", "point1", None, None)
    BY GetLooks DEF Reg
  <2>2. 1 \in DOMAIN <<Get("point1")>>
    OBVIOUS
  <2> QED
    BY <2>1, <2>2, WhenTyped, WhenLooks
<1>5. ASSUME NEW reg \in {"logo", "bright", "max"}
      PROVE  LET F == For(OptionOf(reg), <<Get(reg)>>) IN
             F \in Seq(Commands) /\ Len(F) = 1 /\ Looks(F[1], "get", reg, OptionOf(reg), None)
  <2> DEFINE S == <<Get(reg)>>
  <2>1. S \in Seq(Commands) /\ Len(S) = 1 /\ Looks(S[1], "get", reg, None, None)
    BY GetLooks DEF Reg
  <2>2. DOMAIN S = {1}
    OBVIOUS
  <2>3. OptionOf(reg) \in Optional
    BY DEF OptionOf, Optional
  <2> HIDE DEF S
  <2>4. \A i \in DOMAIN S : S[i].do \in {"set", "get", "again"} /\ OptionOf(S[i].arg) = OptionOf(reg)
    BY <2>1, <2>2 DEF Looks
  <2>5. For(OptionOf(reg), S) \in Seq(Commands) /\ Len(For(OptionOf(reg), S)) = 1
    BY <2>1, <2>3, <2>4, ForTyped
  <2>6. Looks(For(OptionOf(reg), S)[1], "get", reg, OptionOf(reg), None)
    BY <2>1, <2>2, <2>3, ForLooks
  <2> QED
    BY <2>5, <2>6 DEF S
<1>6. OptionOf("logo") = "Logo" /\ OptionOf("bright") = "KeyboardBrightness"
      /\ OptionOf("max") = "MaxFan" /\ OptionOf("care") = "BatteryCare"
  BY DEF OptionOf
<1>7. /\ A4 \in Seq(Commands) /\ Len(A4) = 1 /\ Looks(A4[1], "get", "logo", "Logo", None)
      /\ A5 \in Seq(Commands) /\ Len(A5) = 1
      /\ Looks(A5[1], "get", "bright", "KeyboardBrightness", None)
      /\ G9 \in Seq(Commands) /\ Len(G9) = 1 /\ Looks(G9[1], "get", "max", "MaxFan", None)
  BY <1>5, <1>6
<1>8. A6 \in Seq(Commands) /\ Len(A6) = 1 /\ Looks(A6[1], "get", "always", None, None)
  BY GetLooks
<1>9. A7 \in Seq(Commands) /\ Len(A7) = 1 /\ Looks(A7[1], "get", "effect", None, None)
  <2>1. <<Get("effect")>> \in Seq(Commands) /\ Len(<<Get("effect")>>) = 1 /\ Get("effect") \in Commands
    BY GetLooks, Atoms DEF Reg
  <2>2. 1 \in DOMAIN <<Get("effect")>> /\ <<Get("effect")>>[1] = Get("effect")
    OBVIOUS
  <2>3. A7[1] = [Get("effect") EXCEPT !.part = "effect", !.keep = "ignore"]
    BY <2>2 DEF Part
  <2>5. "effect" \in PartNames
    BY DEF PartNames
  <2>6. A7 \in Seq(Commands) /\ Len(A7) = 1
    BY <2>1, <2>5, PartTyped
  <2>7. A7[1] \in Commands
    BY <2>6
  <2>4. Looks(A7[1], "get", "effect", None, None)
    BY <2>1, <2>3, <2>7 DEF Looks, Get, Do, Commands
  <2> QED
    BY <2>4, <2>6
<1>10. /\ A8 \in Seq(Commands) /\ Len(A8) = 2
       /\ Looks(A8[1], "get", "care", "BatteryCare", None)
       /\ Looks(A8[2], "again", "care", "BatteryCare", "off")
  <2>1. ReadCare \in Seq(Commands) /\ Len(ReadCare) = 2
    BY CareTyped DEF ReadCare
  <2>2. Looks(ReadCare[1], "get", "care", None, None) /\ Looks(ReadCare[2], "again", "care", None, "off")
    <3>1. ReadCare[1] \in Commands /\ ReadCare[2] \in Commands
      BY <2>1
    <3> QED
      BY <3>1 DEF ReadCare, Looks, Get, Do
  <2>3. \A i \in DOMAIN ReadCare : /\ ReadCare[i].do \in {"set", "get", "again"}
                                   /\ OptionOf(ReadCare[i].arg) = "BatteryCare"
    BY <1>6, CareTyped
  <2>4. "BatteryCare" \in Optional
    BY DEF Optional
  <2>5. For("BatteryCare", ReadCare) \in Seq(Commands) /\ Len(For("BatteryCare", ReadCare)) = 2
    BY <2>1, <2>3, <2>4, ForTyped
  <2>6. 1 \in DOMAIN ReadCare /\ 2 \in DOMAIN ReadCare
    BY <2>1
  <2> QED
    BY <1>6, <2>1, <2>2, <2>4, <2>5, <2>6, ForLooks
<1>11. A9 \in Seq(Commands) /\ Len(A9) = 1 /\ Looks(A9[1], "get", "max", "MaxFan", "Custom")
  <2>1. 1 \in DOMAIN G9
    BY <1>7
  <2> HIDE DEF G9
  <2> QED
    BY <1>7, <2>1, WhenTyped, WhenLooks
<1> HIDE DEF A1, A2, A3, A4, A5, A6, A7, A8, A9
<1> DEFINE S2 == A1 \o A2
           S3 == S2 \o A3
           S4 == S3 \o A4
           S5 == S4 \o A5
           S6 == S5 \o A6
           S7 == S6 \o A7
           S8 == S7 \o A8
           S9 == S8 \o A9
<1>12. /\ S2 \in Seq(Commands) /\ Len(S2) = 3 /\ S2[2] = A2[1] /\ S2[3] = A2[2]
      /\ \A i \in 1 .. 1 : S2[i] = A1[i]
  <2>1. A1 \in Seq(Commands) /\ Len(A1) = 1 /\ A2 \in Seq(Commands) /\ Len(A2) = 2
    BY <1>2, <1>3
  <2>2. 1 + 1 = 2 /\ 1 + 2 = 3 /\ 1 \in Nat
    OBVIOUS
  <2>3. /\ S2 \in Seq(Commands) /\ Len(S2) = 1 + 2 /\ S2[1 + 1] = A2[1] /\ S2[1 + 2] = A2[2]
        /\ \A i \in 1 .. 1 : S2[i] = A1[i]
    BY <2>1, <2>2, TwoMore, Zenon DEF S2
  <2> QED
    BY <2>2, <2>3
<1> HIDE DEF S2
<1>13. /\ S3 \in Seq(Commands) /\ Len(S3) = 4 /\ S3[4] = A3[1]
      /\ \A i \in 1 .. 3 : S3[i] = S2[i]
  <2>1. S2 \in Seq(Commands) /\ Len(S2) = 3 /\ A3 \in Seq(Commands) /\ Len(A3) = 1
    BY <1>4, <1>12
  <2>2. 3 + 1 = 4 /\ 3 \in Nat
    OBVIOUS
  <2>3. /\ S3 \in Seq(Commands) /\ Len(S3) = 3 + 1 /\ S3[3 + 1] = A3[1]
        /\ \A i \in 1 .. 3 : S3[i] = S2[i]
    BY <2>1, <2>2, OneMore, Zenon DEF S3
  <2> QED
    BY <2>2, <2>3
<1> HIDE DEF S3
<1>14. /\ S4 \in Seq(Commands) /\ Len(S4) = 5 /\ S4[5] = A4[1]
      /\ \A i \in 1 .. 4 : S4[i] = S3[i]
  <2>1. S3 \in Seq(Commands) /\ Len(S3) = 4 /\ A4 \in Seq(Commands) /\ Len(A4) = 1
    BY <1>7, <1>13
  <2>2. 4 + 1 = 5 /\ 4 \in Nat
    OBVIOUS
  <2>3. /\ S4 \in Seq(Commands) /\ Len(S4) = 4 + 1 /\ S4[4 + 1] = A4[1]
        /\ \A i \in 1 .. 4 : S4[i] = S3[i]
    BY <2>1, <2>2, OneMore, Zenon DEF S4
  <2> QED
    BY <2>2, <2>3
<1> HIDE DEF S4
<1>15. /\ S5 \in Seq(Commands) /\ Len(S5) = 6 /\ S5[6] = A5[1]
      /\ \A i \in 1 .. 5 : S5[i] = S4[i]
  <2>1. S4 \in Seq(Commands) /\ Len(S4) = 5 /\ A5 \in Seq(Commands) /\ Len(A5) = 1
    BY <1>7, <1>14
  <2>2. 5 + 1 = 6 /\ 5 \in Nat
    OBVIOUS
  <2>3. /\ S5 \in Seq(Commands) /\ Len(S5) = 5 + 1 /\ S5[5 + 1] = A5[1]
        /\ \A i \in 1 .. 5 : S5[i] = S4[i]
    BY <2>1, <2>2, OneMore, Zenon DEF S5
  <2> QED
    BY <2>2, <2>3
<1> HIDE DEF S5
<1>16. /\ S6 \in Seq(Commands) /\ Len(S6) = 7 /\ S6[7] = A6[1]
      /\ \A i \in 1 .. 6 : S6[i] = S5[i]
  <2>1. S5 \in Seq(Commands) /\ Len(S5) = 6 /\ A6 \in Seq(Commands) /\ Len(A6) = 1
    BY <1>8, <1>15
  <2>2. 6 + 1 = 7 /\ 6 \in Nat
    OBVIOUS
  <2>3. /\ S6 \in Seq(Commands) /\ Len(S6) = 6 + 1 /\ S6[6 + 1] = A6[1]
        /\ \A i \in 1 .. 6 : S6[i] = S5[i]
    BY <2>1, <2>2, OneMore, Zenon DEF S6
  <2> QED
    BY <2>2, <2>3
<1> HIDE DEF S6
<1>17. /\ S7 \in Seq(Commands) /\ Len(S7) = 8 /\ S7[8] = A7[1]
      /\ \A i \in 1 .. 7 : S7[i] = S6[i]
  <2>1. S6 \in Seq(Commands) /\ Len(S6) = 7 /\ A7 \in Seq(Commands) /\ Len(A7) = 1
    BY <1>9, <1>16
  <2>2. 7 + 1 = 8 /\ 7 \in Nat
    OBVIOUS
  <2>3. /\ S7 \in Seq(Commands) /\ Len(S7) = 7 + 1 /\ S7[7 + 1] = A7[1]
        /\ \A i \in 1 .. 7 : S7[i] = S6[i]
    BY <2>1, <2>2, OneMore, Zenon DEF S7
  <2> QED
    BY <2>2, <2>3
<1> HIDE DEF S7
<1>18. /\ S8 \in Seq(Commands) /\ Len(S8) = 10 /\ S8[9] = A8[1] /\ S8[10] = A8[2]
      /\ \A i \in 1 .. 8 : S8[i] = S7[i]
  <2>1. S7 \in Seq(Commands) /\ Len(S7) = 8 /\ A8 \in Seq(Commands) /\ Len(A8) = 2
    BY <1>10, <1>17
  <2>2. 8 + 1 = 9 /\ 8 + 2 = 10 /\ 8 \in Nat
    OBVIOUS
  <2>3. /\ S8 \in Seq(Commands) /\ Len(S8) = 8 + 2 /\ S8[8 + 1] = A8[1] /\ S8[8 + 2] = A8[2]
        /\ \A i \in 1 .. 8 : S8[i] = S7[i]
    BY <2>1, <2>2, TwoMore, Zenon DEF S8
  <2> QED
    BY <2>2, <2>3
<1> HIDE DEF S8
<1>19. /\ S9 \in Seq(Commands) /\ Len(S9) = 11 /\ S9[11] = A9[1]
      /\ \A i \in 1 .. 10 : S9[i] = S8[i]
  <2>1. S8 \in Seq(Commands) /\ Len(S8) = 10 /\ A9 \in Seq(Commands) /\ Len(A9) = 1
    BY <1>11, <1>18
  <2>2. 10 + 1 = 11 /\ 10 \in Nat
    OBVIOUS
  <2>3. /\ S9 \in Seq(Commands) /\ Len(S9) = 10 + 1 /\ S9[10 + 1] = A9[1]
        /\ \A i \in 1 .. 10 : S9[i] = S8[i]
    BY <2>1, <2>2, OneMore, Zenon DEF S9
  <2> QED
    BY <2>2, <2>3
<1>20. Read = S9
  BY <1>1 DEF S8, S7, S6, S5, S4, S3, S2
<1> HIDE DEF S9
<1>21. /\ S9[1] = A1[1] /\ S9[2] = A2[1] /\ S9[3] = A2[2] /\ S9[4] = A3[1] /\ S9[5] = A4[1]
       /\ S9[6] = A5[1] /\ S9[7] = A6[1] /\ S9[8] = A7[1] /\ S9[9] = A8[1] /\ S9[10] = A8[2]
       /\ S9[11] = A9[1]
  BY <1>12, <1>13, <1>14, <1>15, <1>16, <1>17, <1>18, <1>19
<1> QED
  BY <1>2, <1>3, <1>4, <1>7, <1>8, <1>9, <1>10, <1>11, <1>19, <1>20, <1>21, Zenon

-----------------------------------------------------------------------------
(* Adopting *)

\* Nothing gives an operation more faults than the scene has, and only a reading ends the wait
\* for one.
LEMMA WorldMoves ==
  ASSUME TypeInv, [Next]_vars
  PROVE  scene' = scene /\ left'["fault"] <= left["fault"] /\ (mode' = "adopt" => mode = "adopt")
<1>1. left \in [Event -> Nat] /\ "fault" \in Event /\ ec \in [Reg -> Value]
  BY DEF TypeInv, WorldTypes, Event
<1>2. CASE \E p \in Proc : Step(p)
  <2>1. PICK p \in Proc : Step(p)
    BY <1>2
  <2>2. scene' = scene /\ mode' = mode
    BY <2>1, Stepped DEF tray
  <2> DEFINE s == Prog(op[p], intent, want)[at[p]]
  <2>3. PICK reply : /\ s \in Commands /\ reply \in {Honest(p, s)} \cup Faulty(p, s)
                     /\ Does(p, s, reply)
    BY <2>1, Stepped, Zenon
  <2> HIDE DEF s
  <2>4. left' = IF reply.fault = None THEN left ELSE [left EXCEPT !["fault"] = @ - 1]
    BY <2>3, Zenon DEF Does
  <2> QED
    BY <1>1, <2>2, <2>4
<1>3. CASE [Next]_vars /\ ~Step("tray") /\ ~Step("cli")
  <2>1. left' = left \/ \E e \in Event \ {"fault"} : left' = [left EXCEPT ![e] = @ - 1]
    <3>1. \/ left' = left
          \/ \E e \in {"pick", "wake", "cli", "kill", "busy"} : Spend(e)
      BY <1>3, Zenon DEF Next, TrayStep, CliStep, StartSync, ApplyDone, ConfirmFails, ApplyEnds,
         ProbeFails, ProbeDone, Poll, PollDone, PollFails, ReconcileDone, ReconcileFails, ZonesDone,
         EnforceDone, AfterDone, RpmRead, RpmSwitched, CliEnds, Pick, WakeCheck, CliStart, Kill, Busy,
         vars
    <3> QED
      BY <3>1 DEF Spend, Event
  <2>2. scene' = scene
    BY <1>3, Zenon DEF Next, TrayStep, CliStep, StartSync, ApplyDone, ConfirmFails, ApplyEnds,
       ProbeFails, ProbeDone, Poll, PollDone, PollFails, ReconcileDone, ReconcileFails, ZonesDone,
       EnforceDone, AfterDone, RpmRead, RpmSwitched, CliEnds, Pick, WakeCheck, CliStart, Kill, Busy,
       OnlyCli, vars
  <2>3. mode' = mode \/ mode' = (IF mode = "adopt" THEN "apply" ELSE mode)
    BY <1>3, Zenon DEF Next, TrayStep, CliStep, StartSync, ApplyDone, ConfirmFails, ApplyEnds,
       ProbeFails, ProbeDone, Poll, PollDone, PollFails, ReconcileDone, ReconcileFails, ZonesDone,
       EnforceDone, AfterDone, RpmRead, RpmSwitched, CliEnds, Pick, WakeCheck, CliStart, Kill, Busy,
       OnlyCli, Observe, tray, vars
  <2> QED
    BY <1>1, <2>1, <2>2, <2>3
<1> QED
  BY <1>2, <1>3 DEF Proc

\* The settings that are taken for lacking while a profile waits are.
Truly == Machine.known \cup (IF Learns THEN Machine.lacks ELSE {})

\* A tray that adopts reads and nothing else, from the laptop once the mode was read.
AdoptInv ==
  mode = "adopt" =>
    /\ op["tray"] \in {None, "read"}
    /\ log \subseteq Truly /\ unsup \subseteq Truly
    /\ dev["tray"] = Machine.laptop => Machine.known \subseteq log
    /\ op["tray"] = "read" /\ at["tray"] > 1 => dev["tray"] = Machine.laptop

\* While it adopts, the other actions of the tray begin a reading, or none.
LEMMA AdoptMoves ==
  ASSUME TypeInv, AdoptInv, mode = "adopt", mode' = "adopt",
         TrayStep \/ Pick \/ WakeCheck, ~Step("tray")
  PROVE  /\ \/ op'["tray"] = None /\ at'["tray"] = 0
            \/ op'["tray"] = "read" /\ at'["tray"] = 1
         /\ unsup' = unsup
         /\ \/ dev'["tray"] = dev["tray"] /\ log' = log
            \/ dev'["tray"] = Detect /\ log' = FreshLog(Detect)
<1>1. RunTypes /\ "tray" \in Proc /\ dev \in [Proc -> Pid \cup {0}]
  BY DEF TypeInv, Proc, WorldTypes
<1>2. op["tray"] \in {None, "read"}
  BY DEF AdoptInv
<1>3. /\ Begin("tray", "read") => op'["tray"] = "read" /\ at'["tray"] = 1
      /\ Rest("tray") => op'["tray"] = None /\ at'["tray"] = 0
  BY <1>1 DEF RunTypes, Begin, Rest
<1>4. CASE StartSync
  <2>1. /\ \/ dev' = dev /\ log' = log
           \/ dev' = [dev EXCEPT !["tray"] = Detect] /\ log' = FreshLog(Detect)
        /\ Begin("tray", "read") /\ unsup' = unsup
    BY <1>4, Zenon DEF StartSync
  <2> QED
    BY <1>1, <1>3, <2>1
<1>5. CASE ProbeFails \/ ProbeDone \/ Poll \/ WakeCheck \/ PollFails \/ ReconcileFails
  <2>1. dev' = dev /\ log' = log /\ unsup' = unsup
    BY <1>5, Zenon DEF ProbeFails, ProbeDone, Poll, WakeCheck, PollFails, ReconcileFails, opened
  <2>2. Begin("tray", "read") \/ Rest("tray")
    BY <1>5, Zenon DEF ProbeFails, ProbeDone, Poll, WakeCheck, PollFails, ReconcileFails, ReadFor,
       Finish, MayWrite
  <2> QED
    BY <1>3, <2>1, <2>2
<1>6. ~Pick /\ ~PollDone /\ ~ReconcileDone
  BY DEF Pick, PollDone, ReconcileDone, Observe
<1>7. ~ApplyDone /\ ~ConfirmFails /\ ~ApplyEnds /\ ~ZonesDone /\ ~EnforceDone /\ ~AfterDone
  BY <1>2 DEF ApplyDone, ConfirmFails, ApplyEnds, ZonesDone, EnforceDone, AfterDone, Done, None
<1> QED
  BY <1>4, <1>5, <1>6, <1>7 DEF TrayStep

\* A profile is adopted from a whole reading.
LEMMA AdoptsNow ==
  ASSUME TypeInv, AdoptInv, [Next]_vars, mode = "adopt", mode' = "apply"
  PROVE  /\ Done("read") /\ first["tray"] = "Ok"
         /\ \E lacking \in {log, unsup} : intent' = Observed(lacking)
<1>1. op["tray"] \in {None, "read"} /\ "tray" \in Proc
  BY DEF AdoptInv, Proc
<1>2. mode' # mode
  OBVIOUS
<1>3. ~Step("tray")
  BY <1>1, <1>2, Stepped DEF tray
<1>4. TrayStep \/ Pick \/ WakeCheck
  BY <1>2, TrayLeftAlone
<1>5. ProbeDone \/ PollDone \/ ReconcileDone
  BY <1>1, <1>2, <1>3, <1>4, Zenon DEF TrayStep, StartSync, ApplyDone, ConfirmFails, ApplyEnds, ProbeFails,
     Poll, PollFails, ReconcileFails, ZonesDone, EnforceDone, AfterDone, Pick, WakeCheck, tray
<1>6. CASE ProbeDone
  <2>1. Done("read") /\ first["tray"] = "Ok" /\ Observe(unsup)
    BY <1>2, <1>6, Zenon DEF ProbeDone
  <2> QED
    BY <2>1 DEF Observe
<1>7. CASE PollDone \/ ReconcileDone
  <2>1. Done("read") /\ first["tray"] = "Ok" /\ Observe(log)
    BY <1>7, Zenon DEF PollDone, ReconcileDone, Reads
  <2> QED
    BY <2>1 DEF Observe
<1> QED
  BY <1>5, <1>6, <1>7

\* What a get that is no error brings: what the register shows, of a setting the laptop has, or a
\* charge limit that reads as off.
LEMMA GetBrings ==
  ASSUME ec \in [Reg -> Value], NEW s, s.do \in {"get", "again"},
         NEW reply \in {Honest("tray", s)} \cup Faulty("tray", s), reply.e = "Ok"
  PROVE  /\ ~Refuses("tray", s)
         /\ \/ reply.shows = Shows(s.arg)
            \/ /\ s.arg = "care" /\ reply.shows = "Off" /\ reply.fault = "off"
               /\ left["fault"] > 0 /\ "off" \in scene.faults
<1>1. CASE reply = Honest("tray", s)
  BY <1>1 DEF Honest, Reply, Answer
<1>2. CASE reply \in Faulty("tray", s)
  <2>1. /\ reply \in { Reply("refused", "Failure", FALSE, None), Reply("lost", "Bus", FALSE, None),
                       Reply("late", "Bus", TRUE, None), Reply("ignored", "Ok", FALSE, None),
                       Reply("off", "Ok", FALSE, "Off") }
        /\ left["fault"] > 0 /\ reply.fault \in scene.faults
        /\ reply.fault = "ignored" => s.do \in {"mode1", "mode2"}
        /\ reply.fault = "off" => ~Refuses("tray", s) /\ s.arg = "care"
    BY <1>2, Zenon DEF Faulty
  <2>2. reply.fault = "off" /\ reply.shows = "Off"
    BY <2>1 DEF Reply
  <2> QED
    BY <2>1, <2>2
<1> QED
  BY <1>1, <1>2

LEMMA ReadSent ==
  ASSUME TypeInv, Step("tray"), op["tray"] = "read"
  PROVE  LET i == at["tray"]
             s == Read[i] IN
         /\ i \in 1 .. 11 /\ s \in Commands
         /\ UNCHANGED <<scene, dev, op, mode, unsup>> /\ ec' = ec
         /\ alone'["tray"] = alone["tray"]
         /\ at'["tray"] \in 0 .. 11 /\ (at'["tray"] = 0 \/ at'["tray"] > i)
         /\ at'["tray"] # 0 => ~Skipped(Read[at'["tray"]], log', held'["tray"], got'["tray"])
         /\ \E reply \in {Honest("tray", s)} \cup Faulty("tray", s) :
              LET learnt == Learnt("tray", s, reply.e) IN
              /\ log' = (IF learnt THEN log \cup {s.opt} ELSE log)
              /\ left' = (IF reply.fault = None THEN left ELSE [left EXCEPT !["fault"] = @ - 1])
              /\ s.do # "hold" => held' = held
              /\ s.do = "hold" /\ reply.e = "Ok" =>
                   held'["tray"] = [perf |-> ec["perf1"], fan |-> ec["fan1"]]
              /\ got' = (IF s.do \in {"get", "again"} /\ s.arg \in DOMAIN NoReading /\ reply.e = "Ok"
                         THEN [got EXCEPT !["tray"][s.arg] = reply.shows] ELSE got)
              /\ first'["tray"] = "Ok" \/ at'["tray"] # 0 =>
                   \/ learnt \/ reply.e = "Ok" \/ s.arg = "effect"
                   \/ s.do = "again" /\ reply.e # "NotSupported"
              /\ first'["tray"] = "Ok" =>
                   /\ first["tray"] = "Ok"
                   /\ \A j \in i + 1 .. 11 : at'["tray"] = 0 \/ j < at'["tray"] =>
                        Skipped(Read[j], log', held'["tray"], got'["tray"])
<1> DEFINE i == at["tray"]
           s == Read[i]
<1>0. "tray" \in Proc
  BY DEF Proc
<1>1. UNCHANGED <<scene, dev, op, mode, unsup>>
  BY <1>0, Stepped DEF tray
<1>2. Prog(op["tray"], intent, want) = Read
  BY DEF Prog
<1>3. PICK reply :
        /\ Read \in Programs /\ i \in DOMAIN Read /\ s \in Commands
        /\ reply \in {Honest("tray", s)} \cup Faulty("tray", s)
        /\ Does("tray", s, reply)
        /\ \E next \in 0 .. Len(Read) : Goes("tray", Read, Outcome("tray", s, reply.e), next)
  BY <1>0, <1>2, Stepped, Zenon
<1> DEFINE e == Outcome("tray", s, reply.e)
           learnt == Learnt("tray", s, reply.e)
<1>4. PICK next \in 0 .. Len(Read) : Goes("tray", Read, e, next)
  BY <1>3
<1>5. /\ first \in [Proc -> Error \cup {"Ok"}] /\ at \in [Proc -> Nat] /\ ec \in [Reg -> Value]
      /\ alone \in [Proc -> BOOLEAN] /\ held \in [Proc -> ModeRead]
  BY DEF TypeInv, RunTypes, WorldTypes
<1>6. Len(Read) = 11 /\ DOMAIN Read = 1 .. 11
  BY ReadShape
<1>7. \A j \in 1 .. 11 :
        /\ Read[j].do \in {"hold", "get", "again"}
        /\ Read[j].keep = (IF Read[j].arg = "effect" THEN "ignore" ELSE "stop")
        /\ Read[j].part = (IF Read[j].arg = "effect" THEN "effect" ELSE None)
        /\ Read[j].arg = "effect" <=> j = 8
  BY ReadShape DEF Looks, None
<1>8. i \in 1 .. 11
  BY <1>3, <1>6
<1> HIDE DEF i, e, learnt
<1>9. s.do \in {"hold", "get", "again"} /\ s.keep = (IF s.arg = "effect" THEN "ignore" ELSE "stop")
  BY <1>7, <1>8
<1>10. /\ log' = (IF learnt THEN log \cup {s.opt} ELSE log)
       /\ ec' = IF reply.taken THEN Taken("tray", s) ELSE ec
       /\ left' = (IF reply.fault = None THEN left ELSE [left EXCEPT !["fault"] = @ - 1])
       /\ alone' = [q \in Proc |-> alone[q] /\ (q = "tray" \/ ec' = ec)]
       /\ held' = IF s.do # "hold" THEN held
                  ELSE [held EXCEPT !["tray"] = IF e # "Ok" THEN NoMode
                                                ELSE [perf |-> ec["perf1"], fan |-> ec["fan1"]]]
       /\ got' = (IF s.do \in {"get", "again"} /\ s.arg \in DOMAIN NoReading /\ reply.e = "Ok"
                  THEN [got EXCEPT !["tray"][s.arg] = reply.shows] ELSE got)
       /\ first' = [first EXCEPT !["tray"] = Kept(s, e, @)]
  BY <1>3, Zenon DEF Does, e, learnt
<1>11. ec' = ec
  <2>1. Taken("tray", s) = ec
    BY <1>0, <1>3, <1>9, TakenNothing
  <2> QED
    BY <1>10, <2>1
<1>12. at'["tray"] = next
  <2>1. at' = [at EXCEPT !["tray"] = next]
    BY <1>4, Zenon DEF Goes
  <2> QED
    BY <1>0, <1>5, <2>1
<1>13. first'["tray"] = Kept(s, e, first["tray"])
  BY <1>0, <1>5, <1>10
<1>14. alone'["tray"] = alone["tray"]
  <2>1. alone["tray"] \in BOOLEAN
    BY <1>0, <1>5
  <2> QED
    BY <1>0, <1>10, <2>1, Zenon
<1>15. e = IF learnt THEN "Ok" ELSE Settled(s, reply.e)
  BY DEF e, Outcome, learnt
<1>16. e = "Ok" => learnt \/ reply.e = "Ok" \/ (s.do = "again" /\ reply.e # "NotSupported")
  BY <1>15 DEF Settled
<1>17. s.arg # "effect" /\ e # "Ok" => Fatal(s, e) /\ first'["tray"] # "Ok"
  BY <1>9, <1>13 DEF Fatal, Heard, Kept
<1>18. Fatal(s, e) => next = 0 /\ first'["tray"] # "Ok"
  <2>1. Fatal(s, e) => e # "Ok"
    BY <1>9 DEF Fatal, Heard, Stops, Retryable
  <2>2. Fatal(s, e) => next = 0
    BY <1>4, Zenon DEF Goes, i
  <2> QED
    BY <1>13, <2>1, <2>2 DEF Kept
<1>19. first'["tray"] = "Ok" \/ at'["tray"] # 0 =>
         \/ learnt \/ reply.e = "Ok" \/ s.arg = "effect"
         \/ s.do = "again" /\ reply.e # "NotSupported"
  BY <1>12, <1>16, <1>17, <1>18
<1>20. first'["tray"] = "Ok" => first["tray"] = "Ok"
  BY <1>13, <1>18 DEF Kept
<1>21. \A j \in 1 .. 11 : Runs("tray", Read, e, j) =>
         j > i /\ ~Skipped(Read[j], log', held'["tray"], got'["tray"])
  BY Zenon DEF Runs, i
<1>22. next = 0 \/ (next \in 1 .. 11 /\ Runs("tray", Read, e, next))
  BY <1>4, <1>6, Zenon DEF Goes
<1>23. at'["tray"] \in 0 .. 11 /\ (at'["tray"] = 0 \/ at'["tray"] > i)
  BY <1>6, <1>12, <1>21, <1>22
<1>24. at'["tray"] # 0 => ~Skipped(Read[at'["tray"]], log', held'["tray"], got'["tray"])
  BY <1>12, <1>21, <1>22, Zenon
<1>25. ASSUME first'["tray"] = "Ok", NEW j \in i + 1 .. 11, at'["tray"] = 0 \/ j < at'["tray"]
       PROVE  Skipped(Read[j], log', held'["tray"], got'["tray"])
  <2>1. j \in 1 .. 11 /\ j > i
    BY <1>8, <1>25
  <2>2. ~Runs("tray", Read, e, j)
    <3>1. ~(next = 0 /\ Stops(first'["tray"]))
      BY <1>25 DEF Stops, Retryable
    <3>2. \/ next \in 1 .. 11 /\ \A k \in 1 .. 11 : Runs("tray", Read, e, k) => next <= k
          \/ \A k \in 1 .. 11 : ~Runs("tray", Read, e, k)
      BY <1>4, <1>6, <1>18, <1>25, <3>1, Zenon DEF Goes, i
    <3>3. next # 0 => ~(next <= j)
      BY <1>6, <1>12, <1>25, <2>1
    <3>4. next \in 1 .. 11 => next # 0
      OBVIOUS
    <3> QED
      BY <2>1, <3>2, <3>3, <3>4, Zenon
  <2>3. e = "Ok" \/ Read[j].part # s.part
    <3>1. CASE s.arg = "effect"
      <4>1. i = 8 /\ s.part = "effect"
        BY <1>7, <1>8, <3>1
      <4>2. j # 8
        BY <2>1, <4>1
      <4>3. Read[j].arg # "effect"
        BY <1>7, <2>1, <4>2
      <4>4. Read[j].part = None
        BY <1>7, <2>1, <4>3
      <4> QED
        BY <4>1, <4>4 DEF None
    <3>2. CASE s.arg # "effect"
      BY <1>17, <1>25, <3>2
    <3> QED
      BY <3>1, <3>2
  <2> QED
    BY <2>1, <2>2, <2>3, Zenon DEF Runs, i
<1>26. s.do # "hold" => held' = held
  BY <1>10
<1>27. s.do = "hold" /\ reply.e = "Ok" => held'["tray"] = [perf |-> ec["perf1"], fan |-> ec["fan1"]]
  <2>1. s.do = "hold" /\ reply.e = "Ok" => e = "Ok"
    BY <1>15 DEF Settled
  <2> QED
    BY <1>0, <1>5, <1>10, <2>1
<1> QED
  BY <1>1, <1>3, <1>8, <1>10, <1>11, <1>14, <1>19, <1>20, <1>23, <1>24, <1>25, <1>26, <1>27, Zenon
     DEF i, learnt

\* The settings the tray has read: what was left out, and what shows what is set.
Once == {2, 3, 4, 5, 6, 11}
Apart(s) ==
  \/ s.opt \in log
  \/ s.when = "Custom" /\ ec["perf1"] # "Custom"
  \/ s.when = "Manual" /\ ec["fan1"] # "Manual"
Showing(reg) == got["tray"][reg] = Shows(reg) /\ OptionOf(reg) \notin Machine.lacks

\* Of the charge limit, a false "off" is still to be read again, and nothing more will go wrong.
CareSeen ==
  \/ "BatteryCare" \in log
  \/ Showing("care")
  \/ /\ ~Passed(10) /\ got["tray"].care = "Off"
     /\ left["fault"] = 0 /\ "BatteryCare" \notin Machine.lacks

ReadInv ==
  mode = "adopt" /\ op["tray"] = "read" /\ alone["tray"] /\ first["tray"] = "Ok" =>
    /\ Passed(1) => /\ ~Lacking("tray", "ModeRead")
                    /\ held["tray"] = [perf |-> ec["perf1"], fan |-> ec["fan1"]]
    /\ at["tray"] = 10 => got["tray"].care = "Off"
    /\ \A j \in Once : Passed(j) => Apart(Read[j]) \/ Showing(Read[j].arg)
    /\ Passed(9) => CareSeen

\* The charge limit reads as off where it is not at most once.
OneFalseOff == \A s \in Scenes : s.mode = "adopt" /\ "off" \in s.faults => s.left["fault"] <= 1
OneFalse == mode = "adopt" /\ "off" \in scene.faults => left["fault"] <= 1

LEMMA GotAt ==
  ASSUME got \in [Proc -> Reading], NEW a \in DOMAIN NoReading, NEW v,
         got' = [got EXCEPT !["tray"][a] = v]
  PROVE  /\ got'["tray"][a] = v
         /\ \A b \in DOMAIN NoReading \ {a} : got'["tray"][b] = got["tray"][b]
<1>1. got["tray"] \in Reading /\ "tray" \in Proc
  BY DEF Proc
<1>2. got' = [got EXCEPT !["tray"] = [got["tray"] EXCEPT ![a] = v]]
  OBVIOUS
<1>3. got'["tray"] = [got["tray"] EXCEPT ![a] = v]
  BY <1>1, <1>2
<1>4. DOMAIN got["tray"] = DOMAIN NoReading
  BY <1>1 DEF Reading, NoReading
<1> QED
  BY <1>3, <1>4

LEMMA OnceGets ==
  ASSUME NEW j \in Once
  PROVE  /\ j \in 1 .. 11 /\ Read[j].do = "get" /\ Read[j].keep = "stop"
         /\ Read[j].arg \in {"cpu", "gpu", "point1", "logo", "bright", "max"}
         /\ Read[j].when \in {None, "Custom", "Manual"}
         /\ \A k \in 1 .. 11 : Read[k].arg = Read[j].arg => k = j
<1>1. \A k \in 1 .. 11 :
        k = 1 \/ k = 2 \/ k = 3 \/ k = 4 \/ k = 5 \/ k = 6 \/ k = 7 \/ k = 8 \/ k = 9 \/ k = 10 \/ k = 11
  OBVIOUS
<1> QED
  BY <1>1, ReadShape DEF Looks, Once, None

LEMMA ReadStep ==
  ASSUME TypeInv, AdoptInv, ReadInv, OneFalse, Step("tray"), op["tray"] = "read"
  PROVE  ReadInv'
<1> DEFINE i == at["tray"]
           s == Read[i]
<1>1. PICK reply \in {Honest("tray", s)} \cup Faulty("tray", s) :
         LET learnt == Learnt("tray", s, reply.e) IN
              /\ log' = (IF learnt THEN log \cup {s.opt} ELSE log)
              /\ left' = (IF reply.fault = None THEN left ELSE [left EXCEPT !["fault"] = @ - 1])
              /\ s.do # "hold" => held' = held
              /\ s.do = "hold" /\ reply.e = "Ok" =>
                   held'["tray"] = [perf |-> ec["perf1"], fan |-> ec["fan1"]]
              /\ got' = (IF s.do \in {"get", "again"} /\ s.arg \in DOMAIN NoReading /\ reply.e = "Ok"
                         THEN [got EXCEPT !["tray"][s.arg] = reply.shows] ELSE got)
              /\ first'["tray"] = "Ok" \/ at'["tray"] # 0 =>
                   \/ learnt \/ reply.e = "Ok" \/ s.arg = "effect"
                   \/ s.do = "again" /\ reply.e # "NotSupported"
              /\ first'["tray"] = "Ok" =>
                   /\ first["tray"] = "Ok"
                   /\ \A j \in i + 1 .. 11 : at'["tray"] = 0 \/ j < at'["tray"] =>
                        Skipped(Read[j], log', held'["tray"], got'["tray"])
  BY ReadSent, Zenon
<1>2. /\ i \in 1 .. 11 /\ s \in Commands
      /\ UNCHANGED <<scene, dev, op, mode, unsup>> /\ ec' = ec
      /\ alone'["tray"] = alone["tray"]
      /\ at'["tray"] \in 0 .. 11 /\ (at'["tray"] = 0 \/ at'["tray"] > i)
      /\ at'["tray"] # 0 => ~Skipped(Read[at'["tray"]], log', held'["tray"], got'["tray"])
  BY ReadSent, Zenon
<1> SUFFICES ASSUME mode = "adopt", alone["tray"], first'["tray"] = "Ok"
             PROVE  /\ Passed(1)' => /\ ~Lacking("tray", "ModeRead")'
                                     /\ held'["tray"] = [perf |-> ec["perf1"], fan |-> ec["fan1"]]
                    /\ at'["tray"] = 10 => got'["tray"].care = "Off"
                    /\ \A j \in Once : Passed(j)' => Apart(Read[j])' \/ Showing(Read[j].arg)'
                    /\ Passed(9)' => CareSeen'
  BY <1>2, Zenon DEF ReadInv
<1> DEFINE learnt == Learnt("tray", s, reply.e)
<1>3. /\ Passed(1) => /\ ~Lacking("tray", "ModeRead")
                      /\ held["tray"] = [perf |-> ec["perf1"], fan |-> ec["fan1"]]
      /\ i = 10 => got["tray"].care = "Off"
      /\ \A j \in Once : Passed(j) => Apart(Read[j]) \/ Showing(Read[j].arg)
      /\ Passed(9) => CareSeen
  BY <1>1, Zenon DEF ReadInv
<1>4. /\ got \in [Proc -> Reading] /\ ec \in [Reg -> Value] /\ left \in [Event -> Nat]
      /\ "tray" \in Proc /\ log \subseteq Optional
  BY DEF TypeInv, RunTypes, WorldTypes, Proc
<1>5. /\ log' = (IF learnt THEN log \cup {s.opt} ELSE log)
      /\ left' = (IF reply.fault = None THEN left ELSE [left EXCEPT !["fault"] = @ - 1])
      /\ s.do # "hold" => held' = held
      /\ s.do = "hold" /\ reply.e = "Ok" =>
           held'["tray"] = [perf |-> ec["perf1"], fan |-> ec["fan1"]]
      /\ got' = (IF s.do \in {"get", "again"} /\ s.arg \in DOMAIN NoReading /\ reply.e = "Ok"
                 THEN [got EXCEPT !["tray"][s.arg] = reply.shows] ELSE got)
      /\ \/ learnt \/ reply.e = "Ok" \/ s.arg = "effect"
         \/ s.do = "again" /\ reply.e # "NotSupported"
      /\ \A j \in i + 1 .. 11 : at'["tray"] = 0 \/ j < at'["tray"] =>
           Skipped(Read[j], log', held'["tray"], got'["tray"])
  BY <1>1
<1>6. /\ learnt => s.opt \in Optional /\ s.opt \in log' /\ reply.e = "NotSupported"
      /\ log \subseteq log'
  <2>1. learnt => s.opt \in Optional /\ reply.e = "NotSupported"
    BY Zenon DEF Learnt
  <2> HIDE DEF learnt
  <2> QED
    BY <1>5, <2>1
<1>7. \A reg : Shows(reg)' = Shows(reg)
  BY <1>2 DEF Shows, Machine
<1>8. Machine' = Machine /\ (\A x : Lacking("tray", x)' = Lacking("tray", x))
  BY <1>2 DEF Machine, Lacking
<1>9. s.do \in {"get", "again"} /\ reply.e = "Ok" =>
        /\ ~Refuses("tray", s)
        /\ \/ reply.shows = Shows(s.arg)
           \/ /\ s.arg = "care" /\ reply.shows = "Off" /\ reply.fault = "off"
              /\ left["fault"] > 0 /\ "off" \in scene.faults
  BY <1>4, GetBrings
<1>10. s.do \in {"get", "again"} =>
         (Refuses("tray", s) <=> Lacking("tray", OptionOf(s.arg)))
  BY DEF Refuses
<1>11. /\ s.do \in {"get", "again"} /\ s.arg \in DOMAIN NoReading /\ reply.e = "Ok" =>
            got'["tray"][s.arg] = reply.shows
       /\ \A b \in DOMAIN NoReading \ {s.arg} : got'["tray"][b] = got["tray"][b]
  BY <1>4, <1>5, GotAt
<1>12. /\ i = 1 <=> s.do = "hold"
       /\ i = 1 => s.opt = None /\ s.arg = None
  <2>1. \/ i = 1 \/ i = 2 \/ i = 3 \/ i = 4 \/ i = 5 \/ i = 6 \/ i = 7 \/ i = 8 \/ i = 9 \/ i = 10 \/ i = 11
    BY <1>2
  <2> QED
    BY <2>1, ReadShape DEF Looks, None
<1> HIDE DEF learnt, s, i
<1>13. ~Lacking("tray", "ModeRead") /\ held'["tray"] = [perf |-> ec["perf1"], fan |-> ec["fan1"]]
  <2>1. CASE i = 1
    <3>1. ~learnt
      BY <1>6, <1>12, <2>1 DEF Optional, None
    <3>2. reply.e = "Ok"
      BY <1>5, <1>12, <2>1, <3>1 DEF None
    <3>3. Answer("tray", s) = "Ok"
      BY <1>2, <1>4, <1>12, <2>1, <3>2, Replied DEF s
    <3>4. ~Lacking("tray", "ModeRead")
      BY <1>12, <2>1, <3>3 DEF Answer, ReadsModes
    <3> QED
      BY <1>5, <1>12, <2>1, <3>2, <3>4
  <2>2. CASE i # 1
    <3>1. Passed(1)
      BY <1>2, <2>2 DEF Passed, i
    <3> QED
      BY <1>3, <1>5, <1>12, <2>2, <3>1
  <2> QED
    BY <2>1, <2>2
<1>14. at'["tray"] = 10 => got'["tray"].care = "Off"
  BY <1>2, ReadShape DEF Looks, Skipped
<1>15. dev["tray"] = Machine.laptop
  BY <1>13 DEF Lacking
<1>16. ASSUME NEW j \in Once, Passed(j)'
       PROVE  Apart(Read[j])' \/ Showing(Read[j].arg)'
  <2>1. /\ j \in 1 .. 11 /\ Read[j].do = "get"
        /\ Read[j].arg \in {"cpu", "gpu", "point1", "logo", "bright", "max"}
        /\ Read[j].when \in {None, "Custom", "Manual"}
        /\ \A k \in 1 .. 11 : Read[k].arg = Read[j].arg => k = j
    BY OnceGets
  <2>2. Read[j].arg \in DOMAIN NoReading
    BY <2>1 DEF NoReading
  <2>3. CASE j < i
    <3>1. Passed(j)
      BY <2>3 DEF Passed, i
    <3>2. s.arg # Read[j].arg
      BY <1>2, <2>1, <2>3 DEF s
    <3>3. got'["tray"][Read[j].arg] = got["tray"][Read[j].arg]
      BY <1>11, <2>2, <3>2
    <3>4. Apart(Read[j]) => Apart(Read[j])'
      BY <1>2, <1>6 DEF Apart
    <3>5. Showing(Read[j].arg) => Showing(Read[j].arg)'
      BY <1>7, <1>8, <3>3 DEF Showing
    <3> QED
      BY <1>3, <3>1, <3>4, <3>5
  <2>4. CASE j = i
    <3>1. s.do = "get" /\ s.arg \in DOMAIN NoReading /\ s.arg \notin {"effect", "care"}
      BY <2>1, <2>2, <2>4 DEF s
    <3>2. learnt => Apart(Read[j])'
      BY <1>6, <2>4 DEF Apart, s
    <3>3. ASSUME reply.e = "Ok" PROVE Showing(Read[j].arg)'
      <4>1. got'["tray"][s.arg] = Shows(s.arg) /\ ~Lacking("tray", OptionOf(s.arg))
        BY <1>9, <1>10, <1>11, <3>1, <3>3
      <4>2. OptionOf(s.arg) \notin Machine.lacks
        BY <4>1 DEF Lacking
      <4> QED
        BY <1>7, <1>8, <2>4, <4>1, <4>2 DEF Showing, s
    <3> QED
      BY <1>5, <3>1, <3>2, <3>3
  <2>5. CASE j > i
    <3>1. Skipped(Read[j], log', held'["tray"], got'["tray"])
      <4>1. j \in i + 1 .. 11
        BY <1>2, <2>1, <2>5 DEF i
      <4>2. at'["tray"] = 0 \/ j < at'["tray"]
        BY <1>16, Zenon DEF Passed
      <4> QED
        BY <1>5, <4>1, <4>2, Zenon
    <3>2. \/ Read[j].opt \in log'
          \/ Read[j].when = "Custom" /\ held'["tray"].perf # "Custom"
          \/ Read[j].when = "Manual" /\ held'["tray"].fan # "Manual"
      BY <2>1, <3>1 DEF Skipped, None
    <3> QED
      BY <1>2, <1>13, <3>2 DEF Apart
  <2> QED
    BY <1>2, <2>1, <2>3, <2>4, <2>5
<1>17. ASSUME Passed(9)' PROVE CareSeen'
  <2>1. /\ Read[9].do = "get" /\ Read[9].arg = "care" /\ Read[9].opt = "BatteryCare" /\ Read[9].when = None
        /\ Read[10].do = "again" /\ Read[10].arg = "care" /\ Read[10].opt = "BatteryCare"
        /\ Read[10].when = "off" /\ Read[11].arg = "max"
        /\ OptionOf("care") = "BatteryCare" /\ "care" \in DOMAIN NoReading
    BY ReadShape DEF Looks, OptionOf, NoReading
  <2>2. CASE i < 9
    <3>1. Skipped(Read[9], log', held'["tray"], got'["tray"])
      <4>1. 9 \in i + 1 .. 11
        BY <1>2, <2>2 DEF i
      <4>2. at'["tray"] = 0 \/ 9 < at'["tray"]
        BY <1>17, Zenon DEF Passed
      <4> QED
        BY <1>5, <4>1, <4>2, Zenon
    <3> QED
      BY <2>1, <3>1 DEF Skipped, CareSeen, None
  <2>3. CASE i = 9
    <3>1. s.do = "get" /\ s.arg = "care" /\ s.opt = "BatteryCare"
      BY <2>1, <2>3 DEF s
    <3>2. learnt => CareSeen'
      BY <1>6, <3>1 DEF CareSeen
    <3>3. ASSUME reply.e = "Ok" PROVE CareSeen'
      <4>1. "BatteryCare" \notin Machine.lacks /\ got'["tray"].care = reply.shows
        BY <1>9, <1>10, <1>11, <2>1, <3>1, <3>3 DEF Lacking
      <4>2. reply.shows = Shows("care") => CareSeen'
        BY <1>7, <1>8, <2>1, <4>1 DEF CareSeen, Showing
      <4>3. ASSUME reply.shows = "Off", reply.fault = "off", left["fault"] > 0, "off" \in scene.faults
            PROVE  CareSeen'
        <5>1. left["fault"] <= 1 /\ "fault" \in Event
          BY <4>3 DEF OneFalse, Event
        <5>2. left'["fault"] = 0
          BY <1>4, <1>5, <4>3, <5>1 DEF None
        <5>3. ASSUME Passed(10)' PROVE "BatteryCare" \in log'
          <6>1. Skipped(Read[10], log', held'["tray"], got'["tray"])
            BY <1>2, <1>5, <2>3, <5>3 DEF Passed
          <6> QED
            BY <2>1, <4>1, <4>3, <6>1 DEF Skipped
        <5> QED
          BY <1>8, <4>1, <4>3, <5>2, <5>3 DEF CareSeen
      <4> QED
        BY <1>9, <3>1, <3>3, <4>2, <4>3
    <3> QED
      BY <1>5, <3>1, <3>2, <3>3
  <2>4. CASE i = 10
    <3>1. s.do = "again" /\ s.arg = "care" /\ s.opt = "BatteryCare"
      BY <2>1, <2>4 DEF s
    <3>2. CareSeen /\ got["tray"].care = "Off"
      BY <1>3, <2>4 DEF Passed, i
    <3>3. "BatteryCare" \in log => CareSeen'
      BY <1>6 DEF CareSeen
    <3>4. ASSUME Showing("care") PROVE CareSeen'
      <4>1. got'["tray"].care = Shows("care")
        <5>1. CASE reply.e = "Ok"
          BY <1>9, <1>11, <2>1, <3>1, <3>2, <3>4, <5>1 DEF Showing
        <5>2. CASE reply.e # "Ok"
          BY <1>5, <3>4, <5>2 DEF Showing
        <5> QED
          BY <5>1, <5>2
      <4> QED
        BY <1>7, <1>8, <3>4, <4>1 DEF CareSeen, Showing
    <3>5. ASSUME left["fault"] = 0, "BatteryCare" \notin Machine.lacks PROVE CareSeen'
      <4>1. Faulty("tray", s) = {}
        <5>1. ~(left["fault"] > 0)
          BY <3>5
        <5> QED
          BY <5>1, Zenon DEF Faulty
      <4>2. reply.e = "Ok" /\ reply.shows = Shows("care")
        <5>1. reply = Honest("tray", s)
          BY <4>1 DEF s
        <5>2. ~Refuses("tray", s)
          BY <1>10, <1>15, <2>1, <3>1, <3>5 DEF Lacking
        <5> QED
          BY <3>1, <5>1, <5>2 DEF Honest, Reply, Answer
      <4>3. got'["tray"].care = Shows("care")
        BY <1>11, <2>1, <3>1, <4>2
      <4> QED
        BY <1>7, <1>8, <2>1, <3>5, <4>3 DEF CareSeen, Showing
    <3> QED
      BY <3>2, <3>3, <3>4, <3>5 DEF CareSeen
  <2>5. CASE i = 11
    <3>1. CareSeen /\ Passed(10) /\ s.arg # "care"
      BY <1>3, <2>1, <2>5 DEF Passed, i, s
    <3>2. got'["tray"].care = got["tray"].care
      BY <1>11, <2>1, <3>1
    <3> QED
      BY <1>6, <1>7, <1>8, <3>1, <3>2 DEF CareSeen, Showing
  <2> QED
    BY <1>2, <2>2, <2>3, <2>4, <2>5
<1> QED
  BY <1>8, <1>13, <1>14, <1>16, <1>17

LEMMA AdoptStep ==
  ASSUME TypeInv, AdoptInv, Step("tray")
  PROVE  AdoptInv'
<1> SUFFICES ASSUME mode' = "adopt"
             PROVE  AdoptInv'
  BY DEF AdoptInv
<1>1. mode = "adopt" /\ UNCHANGED <<scene, dev, op, mode, unsup>> /\ at["tray"] > 0
  BY Stepped DEF tray, Proc, Step
<1>2. op["tray"] = "read"
  <2>1. op["tray"] \in {None, "read"} /\ op["tray"] \in TrayOp \cup CliOp
    BY <1>1, Stepped DEF AdoptInv, Proc
  <2> QED
    BY <2>1 DEF TrayOp, CliOp, None
<1> DEFINE i == at["tray"]
           s == Read[i]
<1>3. i \in 1 .. 11 /\ s \in Commands /\ at'["tray"] \in 0 .. 11
  BY <1>2, ReadSent
<1>4. PICK reply \in {Honest("tray", s)} \cup Faulty("tray", s) :
        /\ log' = (IF Learnt("tray", s, reply.e) THEN log \cup {s.opt} ELSE log)
        /\ first'["tray"] = "Ok" \/ at'["tray"] # 0 =>
             \/ Learnt("tray", s, reply.e) \/ reply.e = "Ok" \/ s.arg = "effect"
             \/ s.do = "again" /\ reply.e # "NotSupported"
  BY <1>2, ReadSent, Zenon
<1>5. /\ i = 1 <=> s.do = "hold"
      /\ i = 1 => s.opt = None /\ s.arg = None
      /\ i # 1 => s.do \in {"get", "again"}
  <2>1. \/ i = 1 \/ i = 2 \/ i = 3 \/ i = 4 \/ i = 5 \/ i = 6 \/ i = 7 \/ i = 8 \/ i = 9 \/ i = 10 \/ i = 11
    BY <1>3
  <2> QED
    BY <2>1, ReadShape DEF Looks, None
<1>6. ec \in [Reg -> Value] /\ log \subseteq Truly /\ unsup \subseteq Truly
      /\ (dev["tray"] = Machine.laptop => Machine.known \subseteq log)
      /\ (i > 1 => dev["tray"] = Machine.laptop) /\ "tray" \in Proc
  BY <1>1, <1>2 DEF TypeInv, WorldTypes, AdoptInv, Proc
<1> HIDE DEF s, i
<1>7. Machine' = Machine /\ Truly' = Truly
  BY <1>1 DEF Machine, Truly, Learns
<1>8. ASSUME Learnt("tray", s, reply.e) PROVE s.opt \in Truly
  <2>1. s.opt \in Optional /\ reply.e = "NotSupported" /\ Learns
    BY <1>8, Zenon DEF Learnt
  <2>2. i # 1
    BY <1>5, <2>1 DEF Optional, None
  <2>3. dev["tray"] = Machine.laptop
    BY <1>3, <1>6, <2>2
  <2>4. Answer("tray", s) = "NotSupported" /\ s.do \in {"get", "again"}
    BY <1>3, <1>5, <1>6, <2>1, <2>2, Replied DEF s
  <2>5. OptionOf(s.arg) \in Machine.lacks
    BY <2>3, <2>4 DEF Answer, Refuses, Lacking
  <2>6. OptionOf(s.arg) = s.opt
    BY <1>3, <2>1, <2>4 DEF Commands, Optional, None
  <2> QED
    BY <2>1, <2>5, <2>6 DEF Truly
<1>9. log' \subseteq Truly /\ log \subseteq log'
  BY <1>4, <1>6, <1>8
<1>10. at'["tray"] > 1 => dev["tray"] = Machine.laptop
  <2>1. CASE i = 1
    <3> SUFFICES ASSUME at'["tray"] > 1 PROVE dev["tray"] = Machine.laptop
      OBVIOUS
    <3>1. ~Learnt("tray", s, reply.e)
      BY <1>5, <2>1 DEF Learnt, Optional, None
    <3>2. reply.e = "Ok"
      <4>1. at'["tray"] # 0
        BY <1>3
      <4> QED
        BY <1>4, <1>5, <2>1, <3>1, <4>1 DEF None
    <3>3. Answer("tray", s) = "Ok"
      BY <1>3, <1>4, <1>5, <1>6, <2>1, <3>2, Replied DEF s
    <3> QED
      BY <1>5, <2>1, <3>3 DEF Answer, ReadsModes, Lacking
  <2>2. CASE i # 1
    BY <1>3, <1>6, <2>2
  <2> QED
    BY <2>1, <2>2
<1> QED
  BY <1>1, <1>2, <1>6, <1>7, <1>9, <1>10 DEF AdoptInv

LEMMA AdoptKept ==
  ASSUME TypeInv, AdoptInv, ReadInv, OneFalse, [Next]_vars
  PROVE  AdoptInv' /\ ReadInv' /\ OneFalse'
<1>1. scene' = scene /\ left'["fault"] <= left["fault"] /\ (mode' = "adopt" => mode = "adopt")
  BY WorldMoves
<1>2. OneFalse'
  <2>1. left["fault"] \in Nat /\ left'["fault"] \in Nat
    BY TypesKept DEF TypeInv, WorldTypes, Event
  <2> QED
    BY <1>1, <2>1 DEF OneFalse
<1> SUFFICES ASSUME mode' = "adopt" PROVE AdoptInv' /\ ReadInv'
  BY <1>2 DEF AdoptInv, ReadInv
<1>3. mode = "adopt" /\ Machine' = Machine /\ Truly' = Truly
  BY <1>1 DEF Machine, Truly, Learns
<1>4. CASE Step("tray")
  <2>1. op["tray"] = "read"
    <3>1. op["tray"] \in {None, "read"} /\ op["tray"] \in TrayOp \cup CliOp
      BY <1>3, <1>4, Stepped DEF AdoptInv, Proc
    <3> QED
      BY <3>1 DEF TrayOp, CliOp, None
  <2> QED
    BY <1>4, <2>1, AdoptStep, ReadStep
<1>5. CASE (TrayStep \/ Pick \/ WakeCheck) /\ ~Step("tray")
  <2>1. /\ \/ op'["tray"] = None /\ at'["tray"] = 0
           \/ op'["tray"] = "read" /\ at'["tray"] = 1
        /\ unsup' = unsup
        /\ \/ dev'["tray"] = dev["tray"] /\ log' = log
           \/ dev'["tray"] = Detect /\ log' = FreshLog(Detect)
    BY <1>3, <1>5, AdoptMoves
  <2>2. FreshLog(Detect) \subseteq Truly
    BY DEF FreshLog, Truly
  <2>3. AdoptInv'
    <3>1. log' \subseteq Truly /\ unsup' \subseteq Truly
          /\ (dev'["tray"] = Machine.laptop => Machine.known \subseteq log')
      BY <1>3, <2>1, <2>2 DEF AdoptInv, FreshLog
    <3> QED
      BY <1>3, <2>1, <3>1 DEF AdoptInv, None
  <2>4. ReadInv'
    BY <2>1 DEF ReadInv, Passed, Once, None
  <2> QED
    BY <2>3, <2>4
<1>6. CASE ~TrayStep /\ ~Pick /\ ~WakeCheck
  <2>1. /\ UNCHANGED <<scene, log, refused, intent, mode, unsup>> /\ dev'["tray"] = dev["tray"]
        /\ op'["tray"] = op["tray"] /\ at'["tray"] = at["tray"] /\ first'["tray"] = first["tray"]
        /\ held'["tray"] = held["tray"] /\ got'["tray"] = got["tray"]
        /\ alone'["tray"] => alone["tray"] /\ ec' = ec
    BY <1>6, TrayLeftAlone
  <2>2. AdoptInv'
    BY <1>3, <2>1 DEF AdoptInv
  <2>3. ReadInv'
    <3> SUFFICES ASSUME op["tray"] = "read", alone'["tray"], first["tray"] = "Ok"
                 PROVE  ReadInv'
      BY <2>1 DEF ReadInv
    <3>1. alone["tray"] /\ ec' = ec
      BY <2>1
    <3>2. /\ Lacking("tray", "ModeRead")' = Lacking("tray", "ModeRead")
          /\ \A j : Passed(j)' = Passed(j)
          /\ \A j : Apart(Read[j])' = Apart(Read[j])
          /\ \A reg : Shows(reg)' = Shows(reg)
      BY <1>3, <2>1, <3>1 DEF Lacking, Machine, Passed, Apart, Shows
    <3>3. \A reg : Showing(reg)' = Showing(reg)
      BY <1>3, <2>1, <3>2 DEF Showing
    <3>4. CareSeen => CareSeen'
      <4>1. left["fault"] = 0 => left'["fault"] = 0
        <5>1. left'["fault"] \in Nat
          BY TypesKept DEF TypeInv, WorldTypes, Event
        <5> QED
          BY <1>1, <5>1
      <4> QED
        BY <1>3, <2>1, <3>2, <3>3, <4>1 DEF CareSeen
    <3> QED
      BY <1>3, <2>1, <3>1, <3>2, <3>3, <3>4 DEF ReadInv
  <2> QED
    BY <2>2, <2>3
<1> QED
  BY <1>4, <1>5, <1>6

LEMMA AdoptStarts ==
  ASSUME OneFalseOff, Init
  PROVE  AdoptInv /\ ReadInv /\ OneFalse
<1>1. PICK s \in Scenes : scene = s /\ left = s.left /\ mode = s.mode
  BY DEF Init
<1>2. /\ op["tray"] = None /\ at["tray"] = 0 /\ unsup = {}
      /\ dev["tray"] = Detect /\ log = FreshLog(Detect)
  BY DEF Init, Proc
<1>3. OneFalse
  BY <1>1 DEF OneFalseOff, OneFalse
<1>4. AdoptInv
  BY <1>2 DEF AdoptInv, Truly, FreshLog, None
<1>5. ReadInv
  BY <1>2 DEF ReadInv, None
<1> QED
  BY <1>3, <1>4, <1>5

\* Adopting takes what is set: with nobody else writing meanwhile, and one false "off" of the
\* charge limit at most, what becomes the profile is what the laptop's registers hold, setting by
\* setting, but for what it lacks and what its mode leaves without meaning (get_battery_care's
\* second reading, observe, with_lacking_from).
THEOREM AdoptsWhatIsSetHolds ==
  ASSUME OneFalseOff
  PROVE  Spec => AdoptsWhatIsSet
<1>1. Init => AdoptInv /\ ReadInv /\ OneFalse
  BY AdoptStarts
<1>2. TypeInv /\ (AdoptInv /\ ReadInv /\ OneFalse) /\ [Next]_vars => (AdoptInv /\ ReadInv /\ OneFalse)'
  BY AdoptKept
<1>3. TypeInv /\ (AdoptInv /\ ReadInv /\ OneFalse) /\ [Next]_vars =>
        [mode = "adopt" /\ mode' = "apply" /\ alone["tray"] =>
           \A x \in Setting :
             \/ OptionOf(x) \in log
             \/ x = "rpm" /\ ec["fan1"] # "Manual"
             \/ x \in {"cpu", "gpu", "max"} /\ ec["perf1"] # "Custom"
             \/ intent'[x] = Register(x)]_vars
  <2> SUFFICES ASSUME TypeInv, AdoptInv, ReadInv, [Next]_vars, mode = "adopt", mode' = "apply",
                      alone["tray"], NEW x \in Setting
               PROVE  \/ OptionOf(x) \in log
                      \/ x = "rpm" /\ ec["fan1"] # "Manual"
                      \/ x \in {"cpu", "gpu", "max"} /\ ec["perf1"] # "Custom"
                      \/ intent'[x] = Register(x)
    BY Zenon
  <2>1. /\ Done("read") /\ first["tray"] = "Ok"
        /\ \E lacking \in {log, unsup} : intent' = Observed(lacking)
    BY AdoptsNow
  <2>2. PICK lacking \in {log, unsup} : intent' = Observed(lacking)
    BY <2>1
  <2>3. /\ ~Lacking("tray", "ModeRead")
        /\ held["tray"] = [perf |-> ec["perf1"], fan |-> ec["fan1"]]
        /\ \A j \in Once : Apart(Read[j]) \/ Showing(Read[j].arg)
        /\ CareSeen /\ Passed(10)
    BY <2>1, Zenon DEF ReadInv, Passed, Done
  <2>4. ASSUME NEW y \in lacking, y \notin log PROVE y \in Machine.lacks
    <3>1. dev["tray"] = Machine.laptop
      BY <2>3 DEF Lacking
    <3> QED
      BY <2>4, <3>1 DEF AdoptInv, Truly
  <2>5. log \subseteq Optional
    BY DEF TypeInv, WorldTypes
  <2>6. CASE x \in {"perf", "fan"}
    BY <2>2, <2>3, <2>6 DEF Observed, Register
  <2>7. ASSUME NEW j \in Once PROVE Apart(Read[j]) \/ Showing(Read[j].arg)
    BY <2>3
  <2>8. CASE x = "rpm"
    <3>1. ec["fan1"] # "Manual" \/ got["tray"].point1 = Shows("point1")
      <4>1. Apart(Read[4]) \/ Showing("point1")
        BY <2>7, ReadShape DEF Looks, Once
      <4> QED
        BY <2>5, <4>1, ReadShape DEF Apart, Showing, Looks, Optional, None
    <3>2. Shows("point1") = ec["point1"]
      BY DEF Shows, Reg
    <3> QED
      BY <2>2, <2>8, <3>1, <3>2 DEF Observed, Register
  <2>9. CASE x \in {"cpu", "gpu"}
    <3>1. ec["perf1"] # "Custom" \/ got["tray"][x] = Shows(x)
      <4>1. Apart(Read[IF x = "cpu" THEN 2 ELSE 3]) \/ Showing(x)
        BY <2>7, <2>9, ReadShape DEF Looks, Once
      <4> QED
        BY <2>5, <2>9, <4>1, ReadShape DEF Apart, Showing, Looks, Optional, None
    <3> QED
      BY <2>2, <2>9, <3>1 DEF Observed, Register
  <2>10. ASSUME NEW y \in {"logo", "bright", "max"}
         PROVE  \/ OptionOf(y) \in log
                \/ y = "max" /\ ec["perf1"] # "Custom"
                \/ got["tray"][y] = Shows(y) /\ OptionOf(y) \notin Machine.lacks
    <3>1. OptionOf("logo") = "Logo" /\ OptionOf("bright") = "KeyboardBrightness" /\ OptionOf("max") = "MaxFan"
      BY DEF OptionOf
    <3>2. CASE y = "logo"
      BY <2>7, <3>1, <3>2, ReadShape DEF Apart, Showing, Looks, Once, None
    <3>3. CASE y = "bright"
      BY <2>7, <3>1, <3>3, ReadShape DEF Apart, Showing, Looks, Once, None
    <3>4. CASE y = "max"
      BY <2>7, <3>1, <3>4, ReadShape DEF Apart, Showing, Looks, Once, None
    <3> QED
      BY <3>2, <3>3, <3>4
  <2>11. CASE x = "logo"
    BY <2>2, <2>4, <2>10, <2>11 DEF Observed, Register, OptionOf
  <2>12. CASE x = "bright"
    BY <2>2, <2>4, <2>10, <2>12 DEF Observed, Register, OptionOf
  <2>13. CASE x = "max"
    BY <2>2, <2>4, <2>10, <2>13 DEF Observed, Register, OptionOf
  <2>14. CASE x = "care"
    BY <2>2, <2>3, <2>4, <2>14 DEF CareSeen, Showing, Observed, Register, OptionOf
  <2> QED
    BY <2>6, <2>8, <2>9, <2>11, <2>12, <2>13, <2>14 DEF Setting
<1> QED
  BY <1>1, <1>2, <1>3, TypesAlways, PTL DEF Spec, AdoptsWhatIsSet
=============================================================================
