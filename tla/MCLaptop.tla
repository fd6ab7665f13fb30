------------------------------- MODULE MCLaptop -------------------------------
(***************************************************************************)
(* The laptops and moments the runs look at.  Each scene has one machine,  *)
(* its registers, the tray's profile and switches, the commands somebody   *)
(* may type, the faults of its bus, and how many events of each kind.      *)
(***************************************************************************)
EXTENDS Laptop

MCValue ==
  {None, "Auto", "Manual", "Balanced", "Silent", "Custom", "Off", "On", "Static", "Disable",
   "Enable", "Low", "Boost", "High", "3000", "4000", "0", "1", "2", "80", "Wave", "lie"}

\* A catalogued Blade that has everything; its effects reset the brightness.
Blade ==
  [pids |-> {1, 9}, laptop |-> 9, table |-> {9}, sku |-> "listed", known |-> {},
   lacks |-> {}, lies |-> FALSE, resets |-> TRUE]

\* One that reads zone 2 back differently from what was written.
OddZone2 == [Blade EXCEPT !.lies = TRUE]

\* A Blade nobody has listed, with a mouse attached, missing some settings.
Unlisted(lacks) == [Blade EXCEPT !.sku = "unlisted", !.pids = {3, 9}, !.lacks = lacks]

\* Both it and a Razer keyboard are strangers to the table; its PID is the higher one.
Stranger == [Unlisted({"Logo"}) EXCEPT !.table = {}]

Quiet ==
  [perf |-> "Balanced", fan |-> "Auto", rpm |-> None, cpu |-> None, gpu |-> None,
   max |-> "Disable", logo |-> "Off", bright |-> "1", care |-> "80", effect |-> "Wave"]
Gaming ==
  [perf |-> "Custom", fan |-> "Manual", rpm |-> "4000", cpu |-> "Boost", gpu |-> "High",
   max |-> "Enable", logo |-> "Static", bright |-> "2", care |-> "80", effect |-> None]

Cool == [Quiet EXCEPT !.fan = "Manual", !.rpm = "3000"]

\* Registers that hold w, or nearly.
Holding(w) ==
  [perf1 |-> w.perf, perf2 |-> w.perf, fan1 |-> w.fan, fan2 |-> w.fan,
   point1 |-> IF w.rpm = None THEN "3000" ELSE w.rpm,
   point2 |-> IF w.rpm = None THEN "3000" ELSE w.rpm,
   cpu |-> IF w.cpu = None THEN "Low" ELSE w.cpu, gpu |-> IF w.gpu = None THEN "Low" ELSE w.gpu,
   max |-> w.max, logo |-> IF w.logo = "Off" THEN "Static" ELSE w.logo,
   lit |-> IF w.logo = "Off" THEN "Off" ELSE "On",
   effect |-> IF w.effect = None THEN "Wave" ELSE w.effect, bright |-> w.bright,
   care |-> w.care]

NoEvents == [e \in Event |-> 0]
Type(op_, want_) == [op |-> op_, want |-> want_]

Scene(machine, w) ==
  [machine |-> machine, ec |-> Holding(Quiet), intent |-> w, pick |-> w, mode |-> "apply",
   enforce |-> FALSE, reassert |-> TRUE, commands |-> {}, faults |-> {}, left |-> NoEvents]

\* A profile is applied, and another picked, on a bus that fails twice.
BadBus ==
  [Scene(Blade, Gaming) EXCEPT
     !.pick = Quiet, !.faults = {"refused", "late", "ignored"},
     !.left = [NoEvents EXCEPT !["fault"] = 2, !["pick"] = 1]]

\* A perf command is interrupted; Enforce is off.
Interrupted ==
  [Scene(Blade, Quiet) EXCEPT
     !.commands = {Type("perf", "Silent")}, !.left = [NoEvents EXCEPT !["cli"] = 1, !["kill"] = 1]]

\* A fan command is interrupted, with Enforce on.
Enforced ==
  [Scene(Blade, Cool) EXCEPT
     !.enforce = TRUE, !.commands = {Type("rpm", "4000")},
     !.left = [NoEvents EXCEPT !["cli"] = 1, !["kill"] = 1]]

\* Zone 2 reads back wrong, and it wakes up once.
Odd ==
  [Scene(OddZone2, Cool) EXCEPT !.enforce = TRUE, !.left = [NoEvents EXCEPT !["wake"] = 1]]

\* A new install on an unlisted laptop takes its settings over, on a bus that fails.
NewHere ==
  [Scene(Unlisted({"Logo", "KeyboardBrightness"}), Quiet) EXCEPT
     !.ec = Holding(Gaming), !.mode = "adopt", !.faults = {"refused", "lost", "off"},
     !.left = [NoEvents EXCEPT !["fault"] = 1, !["wake"] = 1]]

\* A broken settings file on a laptop that lacks the charge limit.
Following ==
  [Scene(Unlisted({"BatteryCare"}), Quiet) EXCEPT
     !.ec = Holding(Gaming), !.mode = "follow", !.commands = {Type("perf", "Silent")},
     !.left = [NoEvents EXCEPT !["cli"] = 1]]

\* Laptops without a mode read, and with a Max Fan that cannot be turned on.
NoModes == Scene(Unlisted({"ModeRead", "BatteryCare"}), Gaming)
NoMaxFan == [Scene(Unlisted({"MaxFanOn"}), Gaming) EXCEPT !.enforce = TRUE]

\* Somebody else holds the interface now and then.
Held ==
  [Scene(Stranger, Quiet) EXCEPT
     !.mode = "follow", !.commands = {Type("json", None), Type("info", None)},
     !.left = [NoEvents EXCEPT !["busy"] = 2, !["cli"] = 1]]

\* Every command that writes, on a laptop whose tray only watches.
Typed ==
  [Scene(Blade, Quiet) EXCEPT
     !.mode = "follow", !.faults = {"refused", "late", "ignored"},
     !.commands = {Type("rpm", "4000"), Type("fan", "Manual"), Type("perf", "Custom"),
                   Type("cpu", "Boost"), Type("max", "Enable"), Type("logo", "Static"),
                   Type("care", "Off"), Type("effect", "Off")},
     !.left = [NoEvents EXCEPT !["cli"] = 1, !["fault"] = 1]]

\* A handle that fails until it is replaced; the fan was switched half way.
Stale ==
  [Scene(Unlisted({"BatteryCare"}), Cool) EXCEPT
     !.faults = {"lost"}, !.left = [NoEvents EXCEPT !["fault"] = 4]]

\* Enforce against somebody else's settings, on a bus that fails once.
Tug ==
  [Scene(Blade, Cool) EXCEPT
     !.enforce = TRUE, !.faults = {"late", "ignored"},
     !.commands = {Type("perf", "Silent"), Type("care", "Off")},
     !.left = [NoEvents EXCEPT !["cli"] = 1, !["fault"] = 1]]

AllScenes ==
  {BadBus, Interrupted, Enforced, Odd, NewHere, Following, NoModes, NoMaxFan, Held, Typed,
   Stale, Tug}

\* A new install on a laptop without a logo.
FirstRun ==
  {[Scene(Unlisted({"Logo"}), Gaming) EXCEPT !.ec = Holding(Quiet), !.mode = "adopt"]}
=============================================================================
