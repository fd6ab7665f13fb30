------------------------------- MODULE Laptop -------------------------------
(***************************************************************************)
(* One laptop and the two programs that drive it: the tray, which applies, *)
(* reads, mirrors, repairs and enforces settings, and one razer-cli        *)
(* command.  Both find the laptop among the attached Razer devices, work   *)
(* around what it lacks, and share its EC with no lock between them.       *)
(*                                                                         *)
(* What an operation sends is data: Prog gives the commands of each, and   *)
(* Step executes the next one.  One command is one step, except that       *)
(* get_perf_mode, which reads two zones up to twice, is one (Bus takes it  *)
(* apart).  An exchange has had its retries when it is answered here.      *)
(* What the tray decides about profiles, Actions and give-ups is in Tray:  *)
(* here its config is applied, followed, or waits for a first reading.     *)
(***************************************************************************)
EXTENDS Integers, Sequences, FiniteSets

LOCAL INSTANCE FiniteSetsExt

CONSTANTS
  Value,         \* what a register, a setting or a reading may be
  Scenes,        \* the laptops, settings and commands to look at
  MaxRepairs,    \* ZONE2_MAX_REPAIRS
  ReopenAfter    \* failed resyncs before the device is reopened: 3

Proc == {"tray", "cli"}
Optional == {"Logo", "KeyboardBrightness", "BatteryCare", "MaxFan"}
Reg == {"perf1", "perf2", "fan1", "fan2", "point1", "point2", "cpu", "gpu", "max",
        "logo", "lit", "effect", "bright", "care"}
Event == {"pick", "wake", "cli", "kill", "fault", "busy"}
None == "none"

Retryable == {"Bus", "Diverged", "NotApplied"}
Error == Retryable \cup {"Failure", "NotSupported", "NeedsCustom"}
Stops(e) == e \in Retryable \ {"NotApplied"}

Intent == [perf : Value, fan : Value, rpm : Value, cpu : Value, gpu : Value,
           max : Value, logo : Value, bright : Value, care : Value, effect : Value]

TrayOp == {"apply", "confirm", "enforce", "read", "reread", "after", "zones"}
CliOp == {"rpm", "switch", "points", "switched", "back", "fan", "perf", "cpu", "gpu", "max",
          "logo", "bright", "care", "effect", "json", "info"}
\* What one can type: the rest are the stages of `fan rpm`.
Command == CliOp \ {"switch", "points", "switched", "back"}

\* What a scene is made of.  A machine has the PIDs of the attached Razer devices, the
\* laptop's own among them, those the laptop table lists, and what it is like.
Pid == 1..65535
Laptops ==
  [pids : SUBSET Pid, laptop : Pid, table : SUBSET Pid,
   sku : {"listed", "unlisted", "other"}, known : SUBSET Optional, lacks : SUBSET STRING,
   lies : BOOLEAN, resets : BOOLEAN]
SceneType ==
  [machine : Laptops, ec : [Reg -> Value], intent : Intent, pick : Intent,
   mode : {"apply", "follow", "adopt"}, enforce : BOOLEAN, reassert : BOOLEAN,
   commands : SUBSET [op : Command, want : Value], faults : SUBSET STRING,
   left : [Event -> Nat]]

ASSUME LaptopAssumption ==
  /\ MaxRepairs \in Nat
  /\ ReopenAfter \in Nat \ {0}
  /\ "held" \notin Value
  /\ {None, "Auto", "Manual", "Custom", "Off", "On", "Disable", "0", "lie"} \subseteq Value
  /\ Scenes \subseteq SceneType

VARIABLES
  scene,      \* which laptop, settings and command this is
  ec,         \* its registers
  left,       \* bound: how often each kind of event may still happen
  busy,       \* another program holds the laptop's interface
  dev,        \* the PID each program has open, 0 for none
  log,        \* what the tray's open device is known to lack, UnsupportedLog
  op, at,     \* what each program is doing, and at which command, 0 when it is through
  want,       \* the value the command line asks for
  first,      \* the error it will return, so far
  held,       \* the mode it read last
  got,        \* what its reading holds so far
  why,        \* what the tray does it for
  failed,     \* an earlier error it will return: of the apply, of `fan rpm`
  mode,       \* what the tray does with its config: "apply", "follow" or "adopt"
  intent,     \* device_state
  unsup,      \* ProgramState::unsupported
  guard,      \* Zone2DriftGuard
  resync,     \* "no", "probe" or "apply": needs_sync and sync_apply
  failures,   \* sync_failures
  alone,      \* history: nobody else wrote the EC since the operation began
  refused     \* history: what this laptop refused of the running apply

run == <<op, at, want, first, held, got, why, failed>>
tray == <<mode, intent, unsup, guard, resync, failures>>
opened == <<dev, log>>
history == <<alone, refused>>
vars == <<scene, ec, left, busy, opened, run, tray, history>>

Spend(e) == left[e] > 0 /\ left' = [left EXCEPT ![e] = @ - 1]

-----------------------------------------------------------------------------
(* Detection *)

Machine == scene.machine

\* The interfaces that open now, of the attached Razer devices'.
Openable == IF busy THEN Machine.pids \ {Machine.laptop} ELSE Machine.pids

\* Mutant: lowest first.
AnyOrder(p, q) == p < q

\* fallback_pid_order: PIDs of the laptop table, then the highest.
Before(p, q) ==
  IF (p \in Machine.table) = (q \in Machine.table) THEN p > q ELSE p \in Machine.table

\* Device::detect, as the PID it opens, or 0.
Detect ==
  IF Machine.sku = "other" \/ Openable = {} THEN 0
  ELSE IF Machine.sku = "listed"
       THEN IF Machine.laptop \in Openable THEN Machine.laptop ELSE 0
       ELSE CHOOSE p \in Openable : \A q \in Openable \ {p} : Before(p, q)

\* with_known_lacking and learning_unsupported start with what is known of the PID.
FreshLog(pid) == IF pid = Machine.laptop THEN Machine.known ELSE {}

\* Only the generic profile learns from a 0x05.
Learns == Machine.sku # "listed"

-----------------------------------------------------------------------------
(* Commands.  opt: the setting it is skipped for once that is known to be   *)
(* lacking; when: what the mode read before must be; part and keep: the     *)
(* commands an error skips, and what becomes of it.                         *)

Do(do, arg, val) ==
  [do |-> do, arg |-> arg, val |-> val, opt |-> None, part |-> None, keep |-> "stop",
   when |-> None]
Set(reg, val) == Do("set", reg, val)
Get(reg) == Do("get", reg, None)
Hold == Do("hold", None, None)                  \* get_perf_mode
EnsureCustom == Do("custom", None, None)
Confirm(perf, fan) == Do("confirm", perf, fan)  \* confirm_perf_mode
Modes(perf, fan) == << Do("mode1", perf, fan), Do("mode2", perf, fan) >>

\* Mutant: an "off" is believed at once.
CareReadOnce == << Get("care") >>

\* get_battery_care: an "off" is read a second time.
ReadCare == << Get("care"), [Do("again", "care", None) EXCEPT !.when = "off"] >>

For(opt, steps) == [i \in DOMAIN steps |-> [steps[i] EXCEPT !.opt = opt]]
\* Only in this mode; what stands under a condition of its own keeps that one.
When(c, steps) ==
  [i \in DOMAIN steps |-> [steps[i] EXCEPT !.when = IF @ = None THEN c ELSE @]]
Part(part, keep, steps) ==
  [i \in DOMAIN steps |-> [steps[i] EXCEPT !.part = part, !.keep = keep]]

SetFanMode(fan) == <<Hold>> \o Modes("held", fan)
\* Mutant: not read back.
SetFanModeUnread(fan) == SetFanMode(fan)

SetFanModeConfirmed(fan) == SetFanMode(fan) \o << Confirm("held", fan) >>
SetPoints(rpm) == << Set("point1", rpm), Set("point2", rpm) >>
SetBoost(cluster, boost) == << EnsureCustom, Set(cluster, boost) >>
SetMaxFan(max) == << EnsureCustom, Set("max", max) >>

\* The stored mode first, so the logo never lights up in the old one.
SetLogo(logo) ==
  IF logo = "Off" THEN << Set("lit", "Off") >>
  ELSE << Set("logo", logo), Set("lit", "On") >>

SetPerf(w) ==
  IF w.perf # "Custom" THEN Modes(w.perf, "Auto")
  ELSE Modes("Custom", "Auto") \o << Confirm("Custom", "Auto") >>
       \o SetBoost("cpu", w.cpu) \o SetBoost("gpu", w.gpu)

SetFan(w) ==
  SetFanMode(w.fan) \o (IF w.fan = "Manual" THEN SetPoints(w.rpm) ELSE << >>)

\* Mutant: the Custom check inside write_optional, so a 0x05 to it is Max Fan's.
MaxWithCheck(w) == For("MaxFan", SetMaxFan(w.max))

WriteMax(w) == << EnsureCustom >> \o For("MaxFan", << Set("max", w.max) >>)

\* apply_perf_fan_logo: all four are attempted, and the first error is kept.
PerfFanLogo(w) ==
  Part("perf", "any", SetPerf(w))
  \o (IF w.perf = "Custom" THEN Part("max", "any", WriteMax(w)) ELSE << >>)
  \o Part("fan", "any", SetFan(w))
  \o Part("logo", "any", For("Logo", SetLogo(w.logo)))

WriteCare(w) == Part("care", "rejected", For("BatteryCare", << Set("care", w.care) >>))

\* Mutant: brightness before the effect that resets it.
BrightnessFirst(w) ==
  PerfFanLogo(w)
  \o Part("bright", "rejected", For("KeyboardBrightness", << Set("bright", w.bright) >>))
  \o Part("effect", "rejected", << Set("effect", w.effect) >>)
  \o WriteCare(w)

\* DeviceState::apply.
Apply(w) ==
  PerfFanLogo(w)
  \o (IF w.effect = None THEN << >>
      ELSE Part("effect", "rejected", << Set("effect", w.effect) >>))
  \o Part("bright", "rejected", For("KeyboardBrightness", << Set("bright", w.bright) >>))
  \o WriteCare(w)

\* enforce_to.
Enforce(w) == PerfFanLogo(w) \o WriteCare(w)

\* DeviceState::read.
Read ==
  << Hold >>
  \o When("Custom", << Get("cpu"), Get("gpu") >>)
  \o When("Manual", << Get("point1") >>)
  \o For("Logo", << Get("logo") >>)
  \o For("KeyboardBrightness", << Get("bright") >>)
  \o << Get("always") >>
  \o Part("effect", "ignore", << Get("effect") >>)
  \o For("BatteryCare", ReadCare)
  \o When("Custom", For("MaxFan", << Get("max") >>))

\* fan_setpoint_zones_differ: both zones again, if the first look was off.
CheckZones == << Get("point2") >> \o When("differ", << Get("point1"), Get("point2") >>)

\* json_status: what the laptop lacks is listed, three reads may fail.
Json ==
  Part("modes", "lists", << Hold >>)
  \o When("Custom", Part("cpu", "lists", << Get("cpu") >>)
                    \o Part("gpu", "lists", << Get("gpu") >>))
  \o When("Manual", Part("point", "lists", << Get("point1") >>))
  \o Part("actual", "lists", << Get("actual") >>)
  \o Part("bright", "lists", << Get("bright") >>)
  \o Part("logo", "lists", << Get("logo") >>)
  \o Part("effect", "ignore", << Get("effect") >>)
  \o Part("care", "lists", ReadCare)
  \o When("Custom", Part("max", "lists", << Get("max") >>))
  \o Part("temps", "ignore", << Get("temps") >>)
  \o Part("power", "ignore", << Get("power") >>)

\* `info`'s fan lines.
Fans ==
  Part("modes", "ignore", << Hold >>)
  \o When("Manual", Part("point", "ignore", << Get("point1") >>))
  \o Part("actual", "notes", << Get("actual") >>)
  \o Part("actual", "ignore", << Get("temps") >>)

\* print_info, feature by feature: what is missing is printed, the first other error
\* is the result.
Info ==
  Part("care", "prints", ReadCare) \o Part("care", "ignore", << Get("power") >>)
  \o Part("logo", "prints", << Get("logo") >>)
  \o Part("always", "prints", << Get("always") >>)
  \o Part("bright", "prints", << Get("bright") >>)
  \o Fans
  \o Part("perf", "prints", << Hold >>
                            \o When("Custom", << Get("cpu"), Get("gpu") >>)
                            \o When("boosted", << Get("max") >>))

\* What the commands of an operation are, for the settings w or the value asked for.
Prog(o, w, asked) ==
  CASE o = "apply" -> Apply(w)
    [] o = "confirm" -> << Confirm(w.perf, w.fan) >>
    [] o = "enforce" -> Enforce(w)
    [] o \in {"read", "reread", "after"} -> Read
    [] o = "zones" -> CheckZones
    [] o = "rpm" -> << Hold >>
    [] o = "switch" -> SetFanModeConfirmed("Manual")
    [] o \in {"points", "switched"} -> SetPoints(asked)
    [] o = "back" -> SetFanModeConfirmed("Auto")
    [] o = "fan" -> SetFanModeConfirmed(asked)
    [] o = "perf" -> Modes(asked, "Auto") \o << Confirm(asked, "Auto") >>
    [] o \in {"cpu", "gpu"} -> SetBoost(o, asked)
    [] o = "max" -> SetMaxFan(asked)
    [] o = "logo" -> SetLogo(asked)
    [] o \in {"bright", "care", "effect"} -> << Set(o, asked) >>
    [] o = "json" -> Json
    [] o = "info" -> Info

-----------------------------------------------------------------------------
(* What the EC answers.                                                     *)

\* A mouse that was bound instead answers "not supported" to everything.
Lacking(p, what) == dev[p] # Machine.laptop \/ what \in Machine.lacks

OptionOf(reg) ==
  CASE reg \in {"logo", "lit"} -> "Logo"
    [] reg = "bright" -> "KeyboardBrightness"
    [] reg = "care" -> "BatteryCare"
    [] reg = "max" -> "MaxFan"
    [] OTHER -> reg

PerfOf(p, s) == IF s.arg = "held" THEN held[p].perf ELSE s.arg
ZonesAgree == ec["perf1"] = ec["perf2"] /\ ec["fan1"] = ec["fan2"]

\* get_perf_mode.
ReadsModes(p) ==
  CASE Lacking(p, "ModeRead") -> "NotSupported"
    [] ~Lacking(p, "ModeRead") /\ ~ZonesAgree -> "Diverged"
    [] OTHER -> "Ok"

\* _set_boost and set_max_fan_speed_mode want Custom.
ChecksCustom(p) ==
  IF ReadsModes(p) = "Ok" /\ ec["perf1"] # "Custom" THEN "NeedsCustom" ELSE ReadsModes(p)

\* Mutant: any mode will do.
ConfirmsAny(p, perf, fan) ==
  IF ReadsModes(p) = "NotSupported" THEN "Ok" ELSE ReadsModes(p)

\* confirm_perf_mode: a laptop that cannot read its mode back cannot confirm a write.
Confirms(p, perf, fan) ==
  CASE ReadsModes(p) = "NotSupported" -> "Ok"
    [] ReadsModes(p) = "Ok" /\ <<ec["perf1"], ec["fan1"]>> # <<perf, fan>> -> "NotApplied"
    [] OTHER -> ReadsModes(p)

\* Some laptops have the Max Fan getter and refuse to turn it on.
Refuses(p, s) ==
  \/ Lacking(p, IF s.do \in {"mode1", "mode2"} THEN "ModeWrite" ELSE OptionOf(s.arg))
  \/ s.do = "set" /\ s.arg = "max" /\ s.val = "Enable" /\ Lacking(p, "MaxFanOn")

Answer(p, s) ==
  CASE s.do = "hold" -> ReadsModes(p)
    [] s.do = "custom" -> ChecksCustom(p)
    [] s.do = "confirm" -> Confirms(p, PerfOf(p, s), s.val)
    [] OTHER -> IF Refuses(p, s) THEN "NotSupported" ELSE "Ok"

\* The registers once it is taken: some effects reset the brightness, and a mode other
\* than Custom ends Max Fan.
Taken(p, s) ==
  CASE s.do = "set" ->
         [reg \in Reg |-> IF reg = s.arg THEN s.val
                         ELSE IF <<s.arg, reg>> = <<"effect", "bright">> /\ Machine.resets
                         THEN "0" ELSE ec[reg]]
    [] s.do \in {"mode1", "mode2"} ->
         [ec EXCEPT ![IF s.do = "mode1" THEN "perf1" ELSE "perf2"] = PerfOf(p, s),
                    ![IF s.do = "mode1" THEN "fan1" ELSE "fan2"] = s.val,
                    !["max"] = IF PerfOf(p, s) = "Custom" THEN @ ELSE "Disable"]
    [] OTHER -> ec

Shows(reg) ==
  CASE reg = "logo" -> IF ec["lit"] = "Off" THEN "Off" ELSE ec["logo"]
    [] reg = "point2" /\ Machine.lies -> "lie"
    [] reg \in Reg -> ec[reg]
    [] OTHER -> None

\* One answer: what is wrong with it, the error, whether a write was taken, and what a
\* read shows.
Reply(fault, e, taken, shows) ==
  [fault |-> fault, e |-> e, taken |-> taken, shows |-> shows]

Honest(p, s) == Reply(None, Answer(p, s), Answer(p, s) = "Ok", Shows(s.arg))

\* What may go wrong: rejected, lost before or after it was taken, a mode write
\* acknowledged and ignored, a charge limit that reads as off.
Faulty(p, s) ==
  LET can == ~Refuses(p, s)
      modes == s.do \in {"mode1", "mode2"}
      care == s.do \in {"get", "again"} /\ s.arg = "care"
  IN { r \in { Reply("refused", "Failure", FALSE, None), Reply("lost", "Bus", FALSE, None),
               Reply("late", "Bus", TRUE, None), Reply("ignored", "Ok", FALSE, None),
               Reply("off", "Ok", FALSE, "Off") } :
         /\ left["fault"] > 0 /\ r.fault \in scene.faults
         /\ r.fault = "late" => can /\ (s.do = "set" \/ modes)
         /\ r.fault = "ignored" => can /\ modes
         /\ r.fault = "off" => can /\ care }

-----------------------------------------------------------------------------
(* Executing one command. *)

ModeRead == [perf : Value, fan : Value]
Reading == [cpu : Value, gpu : Value, point1 : Value, point2 : Value, logo : Value,
            bright : Value, effect : Value, care : Value, max : Value]
NoMode == [perf |-> None, fan |-> None]
NoReading ==
  [cpu |-> None, gpu |-> None, point1 |-> None, point2 |-> None, logo |-> "Off",
   bright |-> "0", effect |-> None, care |-> "Off", max |-> "Disable"]

\* Commands left out: settings known to be lacking, and what the mode read before, or
\* the first of two readings, makes pointless.
Skipped(s, known, mode_, reading) ==
  \/ s.opt \in known
  \/ s.when = "Custom" /\ mode_.perf # "Custom"
  \/ s.when = "Manual" /\ mode_.fan # "Manual"
  \/ s.when = "differ" /\ reading.point2 = intent.rpm
  \/ s.when = "off" /\ reading.care # "Off"
  \/ s.when = "boosted" /\ ~(/\ mode_.perf = "Custom"
                             /\ reading.cpu \in {"Boost", "Undervolt"}
                             /\ reading.gpu = "High")

\* What an error means to the operation: nothing, one to return at the end, or its end.
Heard(s, e) ==
  CASE s.keep = "ignore" -> "Ok"
    [] s.keep \in {"lists", "notes", "prints"} /\ e = "NotSupported" -> "Ok"
    [] OTHER -> e
Fatal(s, e) ==
  \/ s.keep \in {"stop", "lists"} /\ Heard(s, e) # "Ok"
  \/ s.keep = "rejected" /\ Stops(e)
Kept(s, e, f) ==
  IF Fatal(s, e) THEN e ELSE IF f = "Ok" THEN Heard(s, e) ELSE f

\* A second look at the charge limit that fails leaves the first.
Settled(s, e) == IF s.do = "again" /\ e # "NotSupported" THEN "Ok" ELSE e

\* read_optional, write_optional: a 0x05 is learnt, and no error.
Learnt(p, s, e) == p = "tray" /\ s.opt \in Optional /\ e = "NotSupported" /\ Learns

Advance(p, prog, reply) ==
  LET s == prog[at[p]]
      learnt == Learnt(p, s, reply.e)
      e == IF learnt THEN "Ok" ELSE Settled(s, reply.e)
      known == IF p = "tray" THEN log' ELSE {}
      runs(j) == /\ j > at[p] /\ ~Skipped(prog[j], known, held'[p], got'[p])
                 /\ \/ e = "Ok"
                    \/ s.keep = "notes" /\ e = "NotSupported"
                    \/ prog[j].part # s.part
      ends(j) == prog[j].keep = "rejected" /\ Stops(first'[p])
  IN /\ log' = IF learnt THEN log \cup {s.opt} ELSE log
     /\ ec' = IF reply.taken THEN Taken(p, s) ELSE ec
     /\ left' = IF reply.fault = None THEN left ELSE [left EXCEPT !["fault"] = @ - 1]
     /\ alone' = [q \in Proc |-> alone[q] /\ (q = p \/ ec' = ec)]
     /\ refused' = IF p = "tray" /\ s.do = "set" /\ reply.e # "Ok"
                   THEN refused \cup {s.arg} ELSE refused
     /\ held' = IF s.do # "hold" THEN held
                ELSE [held EXCEPT ![p] = IF e # "Ok" THEN NoMode
                                         ELSE [perf |-> ec["perf1"], fan |-> ec["fan1"]]]
     /\ got' = IF s.do \in {"get", "again"} /\ s.arg \in DOMAIN NoReading /\ reply.e = "Ok"
               THEN [got EXCEPT ![p][s.arg] = reply.shows] ELSE got
     /\ first' = [first EXCEPT ![p] = Kept(s, e, @)]
     /\ \E rest \in {{ j \in DOMAIN prog : runs(j) }} :
          at' = [at EXCEPT ![p] =
                   IF Fatal(s, e) \/ rest = {} THEN 0
                   ELSE LET next == Min(rest) IN IF ends(next) THEN 0 ELSE next]

\* One command of p's operation.
Step(p) ==
  /\ at[p] > 0
  /\ \E prog \in {Prog(op[p], intent, want)} :
       \E reply \in {Honest(p, prog[at[p]])} \cup Faulty(p, prog[at[p]]) :
         Advance(p, prog, reply)
  /\ UNCHANGED <<scene, busy, dev, op, want, why, failed, tray>>

\* Start an operation.
Begin(p, o) ==
  /\ op' = [op EXCEPT ![p] = o]
  /\ at' = [at EXCEPT ![p] = 1]
  /\ first' = [first EXCEPT ![p] = "Ok"]
  /\ got' = [got EXCEPT ![p] = IF o = "zones" THEN @ ELSE NoReading]
  /\ alone' = [alone EXCEPT ![p] = @ \/ o \in {"apply", "read"}]
  /\ refused' = IF o = "apply" THEN {} ELSE refused
  /\ UNCHANGED held

Rest(p) ==
  /\ op' = [op EXCEPT ![p] = None]
  /\ at' = [at EXCEPT ![p] = 0]
  /\ got' = [got EXCEPT ![p] = NoReading]
  /\ held' = [held EXCEPT ![p] = NoMode]
  /\ first' = [first EXCEPT ![p] = "Ok"]
  /\ alone' = [alone EXCEPT ![p] = FALSE]
  /\ UNCHANGED refused

Idle == op["tray"] = None
Done(o) == op["tray"] = o /\ at["tray"] = 0

-----------------------------------------------------------------------------
(* The tray: one operation at a time, on its event loop. *)

\* Mutant: with the placeholders.
ObservedRaw(lacking) ==
  LET r == got["tray"] IN
    [perf |-> held["tray"].perf, fan |-> held["tray"].fan, cpu |-> r.cpu, gpu |-> r.gpu,
     rpm |-> r.point1, effect |-> r.effect, logo |-> r.logo, bright |-> r.bright,
     care |-> r.care, max |-> r.max]

\* The reading, with placeholders for what the laptop lacks taken from the intent.
Observed(lacking) ==
  LET r == got["tray"] IN
    [perf |-> held["tray"].perf, fan |-> held["tray"].fan, cpu |-> r.cpu, gpu |-> r.gpu,
     rpm |-> r.point1, effect |-> r.effect,
     logo |-> IF "Logo" \in lacking THEN intent.logo ELSE r.logo,
     bright |-> IF "KeyboardBrightness" \in lacking THEN intent.bright ELSE r.bright,
     care |-> IF "BatteryCare" \in lacking THEN intent.care ELSE r.care,
     max |-> IF "MaxFan" \in lacking THEN intent.max ELSE r.max]

\* observe: while the config is not applied the intent follows the reading, and a profile
\* that waited for one becomes it.
Observe(lacking) ==
  /\ intent' = IF mode = "apply" THEN intent ELSE Observed(lacking)
  /\ mode' = IF mode = "adopt" THEN "apply" ELSE mode

\* Mutant: the charge limit is not among them.
DiffersButCare(w) ==
  LET r == Observed(log) IN
    \/ r.perf # w.perf \/ r.cpu # w.cpu \/ r.gpu # w.gpu
    \/ r.fan # w.fan \/ r.rpm # w.rpm
    \/ r.max # w.max \/ r.logo # w.logo

\* enforced_fields_differ_on: what the laptop lacks never differs.
Differs(w) ==
  LET r == Observed(log) IN
    \/ r.perf # w.perf \/ r.cpu # w.cpu \/ r.gpu # w.gpu
    \/ r.fan # w.fan \/ r.rpm # w.rpm
    \/ r.max # w.max \/ r.logo # w.logo \/ r.care # w.care

\* drifted_from looks at zone 2 when nothing else differs.
WantsZones(w) == ~Differs(w) /\ w.fan = "Manual" /\ guard.given_up = FALSE

\* fan_setpoint_zones_differ, when it could read.
ZonesDiffer == got["tray"].point2 # intent.rpm \/ got["tray"].point1 # intent.rpm

\* Mutant: it never gives up.
DriftSeenForever ==
  [drift |-> TRUE,
   guard |-> [guard EXCEPT !.unrepaired = IF @ < MaxRepairs THEN @ + 1 ELSE @]]

\* Mutant: one detection too late.
DriftSeenOnceMore ==
  IF guard.unrepaired > MaxRepairs
  THEN [drift |-> FALSE, guard |-> [guard EXCEPT !.given_up = TRUE]]
  ELSE [drift |-> TRUE, guard |-> [guard EXCEPT !.unrepaired = @ + 1]]

\* Zone2DriftGuard::drift_seen.
DriftSeen ==
  IF guard.unrepaired >= MaxRepairs
  THEN [drift |-> FALSE, guard |-> [guard EXCEPT !.given_up = TRUE]]
  ELSE [drift |-> TRUE, guard |-> [guard EXCEPT !.unrepaired = @ + 1]]

MayWrite == mode = "apply" /\ why \in {"mend", "sync"}

\* sync returns: whatever its last apply failed with, if that is worth another try.
SyncEnds ==
  IF why = "sync" /\ failed["tray"] \in Retryable
  THEN /\ resync' = "apply"
       /\ failures' = IF failures < ReopenAfter THEN failures + 1 ELSE failures
  ELSE IF why = "sync" THEN resync' = "no" /\ failures' = 0
  ELSE UNCHANGED <<resync, failures>>

\* The reconcile, or poll, is over.
Finish == Rest("tray") /\ SyncEnds /\ UNCHANGED <<why, failed>>

ReadFor(for) ==
  Begin("tray", "read") /\ why' = for /\ UNCHANGED <<failed, resync, failures>>

\* A menu pick, while the config is applied.
Pick ==
  /\ Idle /\ mode = "apply" /\ Spend("pick")
  /\ intent' = scene.pick
  /\ IF resync = "no"
     THEN Begin("tray", "apply") /\ why' = "update" /\ UNCHANGED resync
     ELSE /\ resync' = "apply"
          /\ UNCHANGED <<op, at, first, held, got, alone, refused, why>>
  /\ UNCHANGED <<scene, ec, busy, opened, want, failed, mode, unsup, guard, failures>>

\* apply is through: bus trouble ends it, anything else is followed by confirm_modes.
ApplyDone ==
  /\ Done("apply")
  /\ Begin("tray", IF first["tray"] \in Retryable THEN "reread" ELSE "confirm")
  /\ failed' = [failed EXCEPT !["tray"] = first["tray"]]
  /\ UNCHANGED <<scene, ec, left, busy, opened, want, why, tray>>

\* What apply_and_refresh goes by.
Applied ==
  IF op["tray"] = "reread" THEN failed["tray"]
  ELSE IF first["tray"] = "NotApplied" \/ failed["tray"] = "Ok" THEN first["tray"]
  ELSE failed["tray"]

\* After a failure what the EC holds is read, for the display alone.
ConfirmFails ==
  /\ Done("confirm") /\ Applied # "Ok"
  /\ Begin("tray", "reread")
  /\ failed' = [failed EXCEPT !["tray"] = Applied]
  /\ UNCHANGED <<scene, ec, left, busy, opened, want, why, tray>>

\* The end of apply_and_refresh.  `sync` reconciles whatever it did.
ApplyEnds ==
  /\ Done("reread") \/ (Done("confirm") /\ Applied = "Ok")
  /\ unsup' = log
  /\ failed' = [failed EXCEPT !["tray"] = Applied]
  /\ IF why = "sync" THEN Begin("tray", "read") /\ UNCHANGED <<resync, failures>>
     ELSE /\ Rest("tray")
          /\ IF Applied \in Retryable
             THEN resync' = "apply" /\ failures' = IF failures = 0 THEN 1 ELSE failures
             ELSE UNCHANGED <<resync, failures>>
  /\ UNCHANGED <<scene, ec, left, busy, opened, want, why, mode, intent, guard>>

\* The resync at the top of the loop.  A handle that keeps failing is replaced, unless
\* what failed is a mode the EC acknowledged and ignored.
StartSync ==
  /\ Idle /\ resync # "no"
  /\ LET reopened == failures >= ReopenAfter /\ failed["tray"] # "NotApplied" /\ Detect # 0
         applies == mode = "apply" /\ (reopened \/ resync = "apply")
     IN /\ dev' = IF reopened THEN [dev EXCEPT !["tray"] = Detect] ELSE dev
        /\ log' = IF reopened THEN FreshLog(Detect) ELSE log
        /\ resync' = IF applies THEN "no" ELSE IF reopened THEN "apply" ELSE resync
        /\ Begin("tray", IF applies THEN "apply" ELSE "read")
        /\ why' = IF applies THEN "sync" ELSE "probe"
  /\ UNCHANGED <<scene, ec, left, busy, want, failed, mode, intent, unsup, guard, failures>>

\* sync's probe fails: again later.
ProbeFails ==
  /\ Done("read") /\ why = "probe" /\ first["tray"] \in Retryable \ {"Diverged"}
  /\ Rest("tray")
  /\ failures' = IF failures < ReopenAfter THEN failures + 1 ELSE failures
  /\ UNCHANGED <<scene, ec, left, busy, opened, want, why, failed, mode, intent, unsup,
                 guard, resync>>

\* It answers, or the zones disagree: probe_may_write decides by the mode from before.
ProbeDone ==
  /\ Done("read") /\ why = "probe" /\ first["tray"] \notin Retryable \ {"Diverged"}
  /\ IF first["tray"] = "Ok" THEN Observe(unsup) ELSE UNCHANGED <<mode, intent>>
  /\ resync' = "no" /\ failures' = 0
  /\ Begin("tray", "read")
  /\ why' = IF mode = "apply" /\ (scene.enforce \/ first["tray"] = "Diverged")
            THEN "mend" ELSE "look"
  /\ UNCHANGED <<scene, ec, left, busy, opened, want, failed, unsup, guard>>

\* The Mirror poll.  A hover takes the same reading, and only shows it.
Poll ==
  /\ Idle /\ resync = "no"
  /\ ReadFor("poll")
  /\ UNCHANGED <<scene, ec, left, busy, opened, want, mode, intent, unsup, guard>>

\* A check after a wake: a resume message may write, a display that came on only with
\* Enforce.
WakeCheck ==
  /\ Idle /\ resync = "no" /\ Spend("wake")
  /\ \E resume \in BOOLEAN :
       ReadFor(IF (resume /\ scene.reassert) \/ scene.enforce THEN "mend" ELSE "look")
  /\ UNCHANGED <<scene, ec, busy, opened, want, mode, intent, unsup, guard>>

\* A poll, or a reconcile, has its reading.
Reads == Done("read") /\ why # "probe"

\* An Fn-key brightness is taken in; what else differs is only for Enforce.
PollDone ==
  /\ Reads /\ why = "poll" /\ first["tray"] = "Ok"
  /\ unsup' = log
  /\ IF mode = "apply"
     THEN intent' = [intent EXCEPT !.bright = Observed(log).bright] /\ UNCHANGED mode
     ELSE Observe(log)
  /\ IF scene.enforce /\ mode = "apply" /\ (Differs(intent) \/ WantsZones(intent))
     THEN /\ Begin("tray", IF Differs(intent) THEN "enforce" ELSE "zones")
          /\ UNCHANGED <<why, failed, resync, failures>>
     ELSE Finish
  /\ UNCHANGED <<scene, ec, left, busy, opened, want, guard>>

\* Mutant: a poll leaves zones that disagree alone.
PollIgnoresZones ==
  /\ Reads /\ why = "poll" /\ first["tray"] # "Ok"
  /\ Rest("tray") /\ UNCHANGED <<resync, failures, why>>
  /\ UNCHANGED <<scene, ec, left, busy, opened, want, failed, mode, intent, unsup, guard>>

\* Zones that disagree are repaired whatever Enforce says; bus trouble asks for a probe.
PollFails ==
  /\ Reads /\ why = "poll" /\ first["tray"] # "Ok"
  /\ CASE first["tray"] = "Diverged" -> Begin("tray", "read") /\ why' = "mend"
                                        /\ UNCHANGED <<resync, failures>>
       [] first["tray"] = "Bus" -> /\ Rest("tray") /\ resync' = "probe"
                                   /\ failures' = IF failures = 0 THEN 1 ELSE failures
                                   /\ UNCHANGED why
       [] OTHER -> Rest("tray") /\ UNCHANGED <<resync, failures, why>>
  /\ UNCHANGED <<scene, ec, left, busy, opened, want, failed, mode, intent, unsup, guard>>

\* reconcile's reading: what it can see of zone 2 is looked at even if it may not write.
ReconcileDone ==
  /\ Reads /\ why # "poll" /\ first["tray"] = "Ok"
  /\ unsup' = log
  /\ Observe(log)
  /\ IF WantsZones(intent')
     THEN Begin("tray", "zones") /\ UNCHANGED <<why, failed, resync, failures>>
     ELSE IF MayWrite /\ Differs(intent)
     THEN Begin("tray", "enforce") /\ UNCHANGED <<why, failed, resync, failures>>
     ELSE Finish
  /\ UNCHANGED <<scene, ec, left, busy, opened, want, guard>>

\* It fails: zones that disagree are drift, anything else ends it.
ReconcileFails ==
  /\ Reads /\ why # "poll" /\ first["tray"] # "Ok"
  /\ IF first["tray"] = "Diverged" /\ MayWrite
     THEN Begin("tray", "enforce") /\ UNCHANGED <<why, failed, resync, failures>>
     ELSE Finish
  /\ UNCHANGED <<scene, ec, left, busy, opened, want, mode, intent, unsup, guard>>

\* Zone 2 has been looked at.
ZonesDone ==
  /\ Done("zones")
  /\ LET off == first["tray"] = "Ok" /\ ZonesDiffer
         right == first["tray"] = "Ok" /\ ~ZonesDiffer
         writes == off /\ DriftSeen.drift /\ (why = "poll" \/ MayWrite)
     IN /\ guard' = CASE off -> DriftSeen.guard
                      [] right -> [guard EXCEPT !.unrepaired = 0]
                      [] OTHER -> guard
        /\ IF writes THEN Begin("tray", "enforce") /\ UNCHANGED <<why, failed, resync, failures>>
           ELSE Finish
  /\ UNCHANGED <<scene, ec, left, busy, opened, want, mode, intent, unsup>>

\* A reconcile's writes are read back, for the display alone.
EnforceDone ==
  /\ Done("enforce")
  /\ unsup' = IF why = "poll" THEN unsup ELSE log
  /\ IF why # "poll" /\ first["tray"] = "Ok"
     THEN Begin("tray", "after") /\ UNCHANGED <<why, failed, resync, failures>>
     ELSE Finish
  /\ UNCHANGED <<scene, ec, left, busy, opened, want, mode, intent, guard>>

AfterDone ==
  /\ Done("after")
  /\ Finish
  /\ UNCHANGED <<scene, ec, left, busy, opened, want, mode, intent, unsup, guard>>

-----------------------------------------------------------------------------
(* razer-cli: one command, from detection to its exit code. *)

CliIdle == op["cli"] = None
CliDone(o) == op["cli"] = o /\ at["cli"] = 0
OnlyCli == UNCHANGED <<scene, ec, busy, log, why, tray>>

\* `auto`: detect, then the command; without a laptop it ends there.
CliStart ==
  /\ CliIdle /\ Spend("cli")
  /\ \E c \in scene.commands :
       IF Detect = 0
       THEN UNCHANGED <<dev, op, at, want, first, got, held, alone, refused, failed>>
       ELSE /\ dev' = [dev EXCEPT !["cli"] = Detect]
            /\ op' = [op EXCEPT !["cli"] = c.op]
            /\ at' = [at EXCEPT !["cli"] = 1]
            /\ want' = c.want
            /\ alone' = [alone EXCEPT !["cli"] = TRUE]
            /\ UNCHANGED <<first, got, held, refused, failed>>
  /\ OnlyCli

\* set_fan_rpm_manual: an Auto fan is switched first; a laptop without the mode read gets
\* the set point alone.
RpmRead ==
  /\ CliDone("rpm")
  /\ CASE first["cli"] = "Ok" ->
            Begin("cli", IF held["cli"].fan = "Manual" THEN "points" ELSE "switch")
       [] first["cli"] = "NotSupported" -> Begin("cli", "points")
       [] OTHER -> Rest("cli")
  /\ UNCHANGED <<left, dev, want, failed>> /\ OnlyCli

\* put_fan_back after what failed from the switch on.
RpmSwitched ==
  /\ CliDone("switch") \/ (CliDone("switched") /\ first["cli"] # "Ok")
  /\ Begin("cli", IF first["cli"] = "Ok" THEN "switched" ELSE "back")
  /\ failed' = [failed EXCEPT !["cli"] = first["cli"]]
  /\ UNCHANGED <<left, dev, want>> /\ OnlyCli

\* Its last command is through.
Exits ==
  at["cli"] = 0 /\ op["cli"] \in CliOp \ {"rpm", "switch"}
                /\ (op["cli"] = "switched" => first["cli"] = "Ok")

CliEnds ==
  /\ Exits
  /\ Rest("cli")
  /\ dev' = [dev EXCEPT !["cli"] = 0]
  /\ want' = None
  /\ failed' = [failed EXCEPT !["cli"] = "Ok"]
  /\ UNCHANGED left /\ OnlyCli

\* Ctrl-C, or a closed window, anywhere.
Kill ==
  /\ ~CliIdle /\ Spend("kill")
  /\ Rest("cli")
  /\ dev' = [dev EXCEPT !["cli"] = 0]
  /\ want' = None
  /\ failed' = [failed EXCEPT !["cli"] = "Ok"]
  /\ OnlyCli

\* Another program takes or releases the laptop's interface.
Busy ==
  /\ Spend("busy") /\ busy' = ~busy
  /\ UNCHANGED <<scene, ec, opened, run, tray, history>>

-----------------------------------------------------------------------------
Init ==
  \E s \in Scenes :
    /\ scene = s /\ ec = s.ec /\ left = s.left /\ busy = FALSE
    /\ dev = [p \in Proc |-> IF p = "tray" THEN Detect ELSE 0]
    /\ log = FreshLog(Detect)
    /\ op = [p \in Proc |-> None] /\ at = [p \in Proc |-> 0] /\ want = None
    /\ first = [p \in Proc |-> "Ok"] /\ failed = first /\ why = None
    /\ held = [p \in Proc |-> NoMode] /\ got = [p \in Proc |-> NoReading]
    /\ mode = s.mode /\ intent = s.intent /\ unsup = {}
    /\ guard = [unrepaired |-> 0, given_up |-> FALSE]
    /\ resync = "apply" /\ failures = 0
    /\ alone = [p \in Proc |-> FALSE] /\ refused = {}

TrayStep ==
  \/ Step("tray")
  \/ StartSync \/ ApplyDone \/ ConfirmFails \/ ApplyEnds
  \/ ProbeFails \/ ProbeDone
  \/ Poll \/ PollDone \/ PollFails
  \/ ReconcileDone \/ ReconcileFails \/ ZonesDone \/ EnforceDone \/ AfterDone

CliStep == Step("cli") \/ RpmRead \/ RpmSwitched \/ CliEnds

Next == TrayStep \/ CliStep \/ Pick \/ WakeCheck \/ CliStart \/ Kill \/ Busy

Spec == Init /\ [][Next]_vars

\* The event loop goes on, input keeps the Mirror polling, a command gets to its end.
FairSpec == Spec /\ WF_vars(TrayStep) /\ WF_vars(CliStep)

-----------------------------------------------------------------------------
(* Properties *)

\* Every variable has its type.
TypeOK ==
  /\ scene \in Scenes
  /\ ec \in [Reg -> Value]
  /\ left \in [Event -> Nat]
  /\ busy \in BOOLEAN /\ dev \in [Proc -> Pid \cup {0}]
  /\ held \in [Proc -> ModeRead] /\ got \in [Proc -> Reading] /\ want \in Value
  /\ log \subseteq Optional /\ unsup \subseteq Optional
  /\ op \in [Proc -> TrayOp \cup CliOp \cup {None}]
  /\ op["tray"] \notin CliOp /\ op["cli"] \notin TrayOp
  /\ at \in [Proc -> Nat]
  /\ first \in [Proc -> Error \cup {"Ok"}] /\ failed \in [Proc -> Error \cup {"Ok"}]
  /\ intent \in Intent
  /\ mode \in {"apply", "follow", "adopt"}
  /\ why \in {None, "update", "sync", "probe", "poll", "mend", "look"}
  /\ resync \in {"no", "probe", "apply"}
  /\ guard \in [unrepaired : 0..MaxRepairs, given_up : BOOLEAN]
  /\ failures \in 0..ReopenAfter
  /\ alone \in [Proc -> BOOLEAN]
  /\ refused \subseteq Reg

\* A 0x05 to a mode read or to any other command is never taken for a missing setting:
\* what the tray leaves alone, this laptop lacks (apply_perf_fan_logo's comment).
OnlyLackingLearnt ==
  dev["tray"] = Machine.laptop =>
    log \subseteq Machine.known \cup Machine.lacks
                  \cup (IF "MaxFanOn" \in Machine.lacks THEN {"MaxFan"} ELSE {})

\* What the EC holds is w, where this laptop can hold it.
Lights(w) ==
  [logo |-> ec["lit"] = (IF w.logo = "Off" THEN "Off" ELSE "On")
            /\ (w.logo # "Off" => ec["logo"] = w.logo),
   bright |-> ec["bright"] = w.bright,
   effect |-> w.effect # None => ec["effect"] = w.effect,
   care |-> ec["care"] = w.care]

HoldsModes(w) ==
  /\ ec["perf1"] = w.perf /\ ec["perf2"] = w.perf
  /\ ec["fan1"] = w.fan /\ ec["fan2"] = w.fan
  /\ w.perf = "Custom" => /\ ec["cpu"] = w.cpu /\ ec["gpu"] = w.gpu
                          /\ "MaxFan" \in log \/ ec["max"] = w.max
  /\ w.fan = "Manual" => ec["point1"] = w.rpm /\ ec["point2"] = w.rpm

\* An apply the tray shows as done, with nobody else writing meanwhile, has put every
\* setting the laptop has where it was asked: whatever the EC acknowledged and dropped.
OkMeansApplied ==
  Done("confirm") /\ Applied = "Ok" /\ alone["tray"] =>
    /\ HoldsModes(intent)
    /\ \A x \in {"logo", "bright", "effect", "care"} :
         OptionOf(x) \in log \/ Lights(intent)[x]

\* A write the EC rejects takes no other with it: without bus trouble, each of the
\* independent settings whose own write was not refused holds its target when apply is
\* through (continue_after_rejection).
RejectionIsolated ==
  Done("apply") /\ alone["tray"] /\ ~Stops(first["tray"]) =>
    \A x \in {"logo", "bright", "effect", "care"} :
      \/ OptionOf(x) \in log \/ Lights(intent)[x]
      \/ refused \cap (IF x = "logo" THEN {"logo", "lit"} ELSE {x}) # {}

\* Exit status 0 of a fan or perf command, with nobody else writing meanwhile, means both
\* zones took it.
ExitMeansApplied ==
  Exits /\ first["cli"] = "Ok" /\ alone["cli"] /\ ~Lacking("cli", "ModeRead") =>
    /\ op["cli"] = "perf" => ec["perf1"] = want /\ ec["perf2"] = want
    /\ op["cli"] = "fan" => ec["fan1"] = want /\ ec["fan2"] = want
    /\ op["cli"] = "switched" => /\ ec["fan1"] = "Manual" /\ ec["fan2"] = "Manual"
                                 /\ ec["point1"] = want /\ ec["point2"] = want

Setting == {"perf", "fan", "rpm", "cpu", "gpu", "max", "logo", "bright", "care"}
Register(x) ==
  CASE x = "perf" -> ec["perf1"] [] x = "fan" -> ec["fan1"] [] x = "rpm" -> ec["point1"]
    [] OTHER -> Shows(x)

\* Adopting, with nobody else writing meanwhile, takes what is set: one false "off" of the
\* charge limit does not become a profile without a limit (get_battery_care).
AdoptsWhatIsSet ==
  [][mode = "adopt" /\ mode' = "apply" /\ alone["tray"] =>
       \A x \in Setting :
         \/ OptionOf(x) \in log
         \/ x = "rpm" /\ ec["fan1"] # "Manual"
         \/ x \in {"cpu", "gpu", "max"} /\ ec["perf1"] # "Custom"
         \/ intent'[x] = Register(x)]_vars

\* No reading puts a placeholder for what this laptop lacks into the intent: a poll
\* or a reconcile keeps the tray's own value (with_lacking_from).
KeepsItsOwn ==
  [][Reads => \A x \in Setting : OptionOf(x) \in log => intent'[x] = intent[x]]_vars

\* The same of every reading, the resync's probe too: "Call after each device write, and
\* after each read before `observe`" (track_unsupported).
PlaceholdersStayOut ==
  [][Done("read") => \A x \in Setting : OptionOf(x) \in log => intent'[x] = intent[x]]_vars

\* An unlisted laptop is found among the Razer devices attached to it, whichever order
\* they are listed in, while its interface can be opened (fallback_pid_order).
BindsTheLaptop ==
  [][\A p \in Proc : dev'[p] # dev[p] /\ busy = FALSE => dev'[p] \in {0, Machine.laptop}]_vars

Applies == scene.mode = "apply" /\ "ModeRead" \notin Machine.lacks

\* A program killed between two zone writes, or a lost answer, does not leave the laptop in
\* two modes: the tray repairs that whatever Enforce says.
ZonesMend == (Applies => <>[]ZonesAgree)

\* With Enforce, what the tray asks for wins, zone 2 of the set point included unless it
\* has given up on it.
EnforceWins ==
  (Applies /\ scene.enforce =>
     <>[](/\ ec["perf1"] = intent.perf /\ ec["fan1"] = intent.fan
          /\ intent.perf = "Custom" => ec["cpu"] = intent.cpu /\ ec["gpu"] = intent.gpu
          /\ intent.fan = "Manual" => /\ ec["point1"] = intent.rpm
                                      /\ guard.given_up \/ ec["point2"] = intent.rpm
          /\ "Logo" \in log \/ Shows("logo") = intent.logo
          /\ "BatteryCare" \in log \/ ec["care"] = intent.care))

\* And it comes to rest, even where zone 2 never reads back as written (Zone2DriftGuard).
EnforceRests == (Applies => <>[](op["tray"] # "enforce"))
=============================================================================
