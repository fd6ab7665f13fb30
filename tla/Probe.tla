--------------------------------- MODULE Probe ---------------------------------
(***************************************************************************)
(* `razer-cli probe --writes`: a run that writes test values to the EC and *)
(* puts back what it found, and `probe --restore`, which finishes for a    *)
(* run that died.                                                          *)
(*                                                                         *)
(* The EC is the adversary: any zone of any write may be acknowledged and  *)
(* not taken, or taken and not acknowledged, and any read may fail; a read *)
(* that succeeds is true.  The process may die between any two writes.     *)
(* One command of one step is a step here.  What the fans do while they    *)
(* settle decides no write and is left out, as are the capture and the     *)
(* laptop named in the recovery file: there is one laptop, and one --out.  *)
(* Nothing else writes the EC (tray_closed).                               *)
(***************************************************************************)
EXTENDS Integers, Sequences

CONSTANTS
  Rpm,        \* set points, as names
  Sweep,      \* those a run tries, sweep_points of the range
  Settings    \* what the EC may hold before

Zone == {1, 2}    \* fan zones; in a boost write, the CPU's and the GPU's cluster
Perf == {"Balanced", "Performance", "Custom", "Silent", "Battery", "Hyperboost"}
Fan == {"Auto", "Manual"}
Boost == {"Low", "Medium", "High", "Boost", "Undervolt"}
None == "none"
EC == [perf : [Zone -> Perf], fan : [Zone -> Fan], rpm : [Zone -> Rpm],
       boost : [Zone -> Boost], max : {"Disable", "Enable"}]

\* Max Fan exists only in Custom.
Sound(e) == e.max = "Enable" => \A z \in Zone : e.perf[z] = "Custom"

ASSUME ProbeAssumption == /\ Sweep \in Seq(Rpm)
                          /\ Settings \subseteq {e \in EC : Sound(e)}

Snapshot == [perf : Perf, fan : Fan, rpm : [Zone -> Rpm],
             boost : [Zone -> Boost \cup {None}], max : {"Disable", "Enable", None}]
NoSnapshot == [perf |-> None]
NoFile == [perf |-> "no file"]
PartFile == [perf |-> "part of a file"]

VARIABLES
  ec,          \* the EC's registers
  file,        \* the recovery file
  pc,          \* where the process is, "idle" when there is none
  snap,        \* the settings it is to put back
  step,        \* the test it is at
  confirmed,   \* what the tests so far read back
  cancelled,   \* Ctrl-C
  todo,        \* what restore found to differ: clusters, and 0 for the set points
  problem,     \* restore noted a failed write
  before,      \* the EC when the recovery file was created
  faulty       \* the EC failed restore in a write or a read

vars == <<ec, file, pc, snap, step, confirmed, cancelled, todo, problem, before, faulty>>
process == <<snap, step, confirmed, cancelled, todo, problem, faulty>>

Restoring == {"boosts", "enter", "cpu", "gpu", "perf", "manual", "zone1", "zone2",
              "fan", "max", "verify"}

Init ==
  /\ ec \in Settings
  /\ file = NoFile
  /\ pc = "idle"
  /\ snap = NoSnapshot
  /\ step = 1
  /\ confirmed = {}
  /\ cancelled = FALSE
  /\ todo = {}
  /\ problem = FALSE
  /\ before = ec
  /\ faulty = FALSE

-----------------------------------------------------------------------------
(* The EC: a write as the zones, of those asked, that took it.              *)

\* get_perf_mode, as what it can return: nothing when the zones disagree.
Modes(e) ==
  {m \in [perf : Perf, fan : Fan] : \A z \in Zone : e.perf[z] = m.perf /\ e.fan[z] = m.fan}

InCustom(e) == \E m \in Modes(e) : m.perf = "Custom"

\* 0x0d02.  Leaving Custom clears Max Fan.
PutMode(e, mode, fan, took) ==
  [e EXCEPT !.perf = [z \in Zone |-> IF z \in took THEN mode ELSE @[z]],
            !.fan = [z \in Zone |-> IF z \in took THEN fan ELSE @[z]],
            !.max = IF took # {} /\ mode # "Custom" THEN "Disable" ELSE @]

\* set_fan_mode keeps the perf mode it reads, and fails if it cannot.
PutFan(e, fan, took) ==
  IF Modes(e) = {} THEN e ELSE PutMode(e, e.perf[1], fan, took)

\* 0x0d01.
PutPoints(e, rpm, took) ==
  [e EXCEPT !.rpm = [z \in Zone |-> IF z \in took THEN rpm[z] ELSE @[z]]]

\* 0x0d07, in Custom only.
PutBoosts(e, boost, took) ==
  IF InCustom(e)
  THEN [e EXCEPT !.boost = [z \in Zone |-> IF z \in took THEN boost[z] ELSE @[z]]]
  ELSE e

\* Mutant: the mode is not read first.
PutMaxAnywhere(e, max, took) == IF took # {} THEN [e EXCEPT !.max = max] ELSE e

\* 0x070f, in Custom only.
PutMax(e, max, took) == IF InCustom(e) /\ took # {} THEN [e EXCEPT !.max = max] ELSE e

-----------------------------------------------------------------------------
(* The write set, run_writes, as data.                                      *)

Test(op, arg, needs, gives) == [op |-> op, arg |-> arg, needs |-> needs, gives |-> gives]

ModesTests ==
  << Test("perf", "Balanced", {}, {}), Test("perf", "Silent", {}, {}),
     Test("perf", "Performance", {}, {}), Test("perf", "Custom", {}, {"Custom"}),
     Test("boosts", "", {"Custom"}, {}),
     Test("max", "Disable", {"Custom"}, {}), Test("max", "Enable", {"Custom"}, {}),
     Test("max", "Disable", {"Custom"}, {}),
     Test("perf", "Balanced", {}, {"Balanced"}),
     Test("fan", "Manual", {"Balanced"}, {"Manual"}) >>
SweepTests == [i \in DOMAIN Sweep |-> Test("points", Sweep[i], {"Manual"}, {})]
LastTests == << Test("fan", "Auto", {"Balanced"}, {}) >>

Plan == ModesTests \o SweepTests \o LastTests

TestBoosts == <<"Medium", "High">>

Put(e, t, took) ==
  CASE t.op = "perf" -> PutMode(e, t.arg, "Auto", took)
    [] t.op = "fan" -> PutFan(e, t.arg, took)
    [] t.op = "boosts" -> PutBoosts(e, TestBoosts, took)
    [] t.op = "max" -> PutMax(e, t.arg, took)
    [] t.op = "points" -> PutPoints(e, [z \in Zone |-> t.arg], took)

\* confirm, and the read-back of the other tests.
ReadsBack(e, t) ==
  CASE t.op = "perf" -> Modes(e) = {[perf |-> t.arg, fan |-> "Auto"]}
    [] t.op = "fan" -> Modes(e) = {[perf |-> "Balanced", fan |-> t.arg]}
    [] t.op = "boosts" -> e.boost = TestBoosts
    [] t.op = "max" -> e.max = t.arg
    [] t.op = "points" -> \A z \in Zone : e.rpm[z] = t.arg

\* Mutant: a test does not wait for the one it needs.
ReadyAnyway(t) ==
  /\ ~cancelled
  /\ t.op = "boosts" => \A z \in Zone : snap.boost[z] # None

\* A test is not run after a cancel, before what it needs, or if it cannot be undone.
Ready(t) ==
  /\ ~cancelled
  /\ t.needs \subseteq confirmed
  /\ t.op = "boosts" => \A z \in Zone : snap.boost[z] # None

-----------------------------------------------------------------------------
(* probe --writes.                                                          *)

\* snapshot.  A boost that cannot be read is left unknown, outside Custom.
TakeSnapshot ==
  /\ pc = "idle"
  /\ \E m \in Modes(ec), known \in SUBSET Zone :
       /\ m.perf = "Custom" => known = Zone
       /\ snap' = [perf |-> m.perf, fan |-> m.fan, rpm |-> ec.rpm,
                   boost |-> [z \in Zone |-> IF z \in known THEN ec.boost[z] ELSE None],
                   max |-> IF m.perf = "Custom" THEN ec.max ELSE None]
  /\ pc' = "create"
  /\ step' = 1
  /\ confirmed' = {}
  /\ cancelled' = FALSE
  /\ UNCHANGED <<ec, file, todo, problem, before, faulty>>

\* create_new: never over an unfinished run's file.
Create ==
  /\ pc = "create"
  /\ \/ file # NoFile /\ pc' = "idle" /\ UNCHANGED <<file, before>>
     \/ file = NoFile /\ pc' = "save" /\ file' = PartFile /\ before' = ec
  /\ UNCHANGED <<ec, process>>

\* write_all.  A failure ends the run.
Save ==
  /\ pc = "save"
  /\ \/ pc' = "test" /\ file' = snap
     \/ pc' = "idle" /\ UNCHANGED file
  /\ UNCHANGED <<ec, process, before>>

Cancel ==
  /\ pc = "test"
  /\ ~cancelled
  /\ cancelled' = TRUE
  /\ UNCHANGED <<ec, file, pc, snap, step, confirmed, todo, problem, before, faulty>>

RunTest ==
  /\ pc = "test"
  /\ step <= Len(Plan)
  /\ Ready(Plan[step])
  /\ \E took \in SUBSET Zone, ok \in BOOLEAN :
       /\ ec' = Put(ec, Plan[step], took)
       /\ confirmed' = IF ok /\ ReadsBack(ec', Plan[step])
                       THEN confirmed \cup Plan[step].gives ELSE confirmed
  /\ step' = step + 1
  /\ UNCHANGED <<file, pc, snap, cancelled, todo, problem, before, faulty>>

SkipTest ==
  /\ pc = "test"
  /\ step <= Len(Plan)
  /\ ~Ready(Plan[step])
  /\ step' = step + 1
  /\ UNCHANGED <<ec, file, pc, snap, confirmed, cancelled, todo, problem, before, faulty>>

\* The variables of the process when none of them matters.
Fresh ==
  /\ step' = 1
  /\ confirmed' = {}
  /\ cancelled' = FALSE
  /\ todo' = {}
  /\ problem' = FALSE
  /\ faulty' = FALSE

Ends == pc' = "idle" /\ snap' = NoSnapshot /\ Fresh

TestsDone ==
  /\ pc = "test"
  /\ step > Len(Plan)
  /\ pc' = "boosts"
  /\ Fresh
  /\ UNCHANGED <<ec, file, snap, before>>

\* probe --restore.  Part of a file does not parse.
RestoreFromFile ==
  /\ pc = "idle"
  /\ file \notin {NoFile, PartFile}
  /\ pc' = "boosts"
  /\ snap' = file
  /\ Fresh
  /\ UNCHANGED <<ec, file, before>>

-----------------------------------------------------------------------------
(* restore, one register after the other.                                   *)

tests == <<step, confirmed, cancelled>>

\* A command was sent to `asked`, after a read that came back or did not; `can` is whether
\* the EC's mode allows it.  Whatever goes wrong is noted, and restore goes on.
Notes(read, can, asked, took, ok) ==
  /\ ok => can
  /\ problem' = (problem \/ ~ok)
  /\ faulty' = (faulty \/ ~read \/ (can /\ (~ok \/ took # asked)))

Keeps == UNCHANGED <<ec, problem, faulty>>

HasPerf(e, mode) == \E m \in Modes(e) : m.perf = mode
HasFan(e, fan) == \E m \in Modes(e) : m.fan = fan

\* A boost that could not be read counts as moved.
FindsBoosts ==
  /\ pc = "boosts"
  /\ pc' = "enter"
  /\ LET known == {z \in Zone : snap.boost[z] # None}
     IN \E read \in SUBSET known :
          /\ todo' = {z \in known : z \in read => ec.boost[z] # snap.boost[z]}
          /\ faulty' = (faulty \/ read # known)
  /\ UNCHANGED <<ec, file, snap, tests, problem, before>>

\* Mutant: the boosts are written from whatever mode the EC is in.
StaysInMode ==
  /\ pc = "enter"
  /\ pc' = IF todo = {} THEN "perf" ELSE "cpu"
  /\ Keeps
  /\ UNCHANGED <<file, snap, tests, todo, before>>

\* Boosts live in Custom.
EntersCustom ==
  /\ pc = "enter"
  /\ \/ todo = {} /\ pc' = "perf" /\ Keeps
     \/ /\ todo # {}
        /\ pc' = "cpu"
        /\ \E took \in SUBSET Zone, ok \in BOOLEAN :
             /\ ec' = PutMode(ec, "Custom", "Auto", took)
             /\ Notes(TRUE, TRUE, Zone, took, ok)
  /\ UNCHANGED <<file, snap, tests, todo, before>>

RestoresBoost(z) ==
  /\ pc = <<"cpu", "gpu">>[z]
  /\ pc' = <<"gpu", "perf">>[z]
  /\ \/ z \notin todo /\ Keeps
     \/ /\ z \in todo
        /\ \E took \in SUBSET {z}, ok \in BOOLEAN :
             /\ ec' = PutBoosts(ec, snap.boost, took)
             /\ Notes(TRUE, InCustom(ec), {z}, took, ok)
  /\ UNCHANGED <<file, snap, tests, todo, before>>

\* A mode that could not be read counts as moved.  The write sets the fan to Auto.
RestoresPerf ==
  /\ pc = "perf"
  /\ pc' = "manual"
  /\ \E read \in BOOLEAN :
       \/ todo = {} /\ read /\ HasPerf(ec, snap.perf) /\ Keeps
       \/ /\ ~(todo = {} /\ read /\ HasPerf(ec, snap.perf))
          /\ \E took \in SUBSET Zone, ok \in BOOLEAN :
               /\ ec' = PutMode(ec, snap.perf, "Auto", took)
               /\ Notes(read, TRUE, Zone, took, ok)
  /\ UNCHANGED <<file, snap, tests, todo, before>>

\* Set points are written in Manual.
EntersManual ==
  /\ pc = "manual"
  /\ \E read \in BOOLEAN :
       \/ read /\ ec.rpm = snap.rpm /\ pc' = "fan" /\ Keeps /\ UNCHANGED todo
       \/ /\ ~(read /\ ec.rpm = snap.rpm)
          /\ pc' = "zone1"
          /\ todo' = todo \cup {0}
          /\ \E took \in SUBSET Zone, ok \in BOOLEAN :
               /\ ec' = PutFan(ec, "Manual", took)
               /\ Notes(read, Modes(ec) # {}, Zone, took, ok)
  /\ UNCHANGED <<file, snap, tests, before>>

\* Raw: the set point may be one set_fan_rpm would not accept.
RestoresPoint(z) ==
  /\ pc = <<"zone1", "zone2">>[z]
  /\ pc' = <<"zone2", "fan">>[z]
  /\ \E took \in SUBSET {z}, ok \in BOOLEAN :
       /\ ec' = PutPoints(ec, snap.rpm, took)
       /\ Notes(TRUE, TRUE, {z}, took, ok)
  /\ UNCHANGED <<file, snap, tests, todo, before>>

RestoresFan ==
  /\ pc = "fan"
  /\ pc' = "max"
  /\ \E read \in BOOLEAN :
       \/ 0 \notin todo /\ read /\ HasFan(ec, snap.fan) /\ Keeps
       \/ /\ ~(0 \notin todo /\ read /\ HasFan(ec, snap.fan))
          /\ \E took \in SUBSET Zone, ok \in BOOLEAN :
               /\ ec' = PutFan(ec, snap.fan, took)
               /\ Notes(read, Modes(ec) # {}, Zone, took, ok)
  /\ UNCHANGED <<file, snap, tests, todo, before>>

\* Leaving Custom already cleared Max Fan.
RestoresMax ==
  /\ pc = "max"
  /\ pc' = "verify"
  /\ \E read \in BOOLEAN :
       \/ (snap.max = None \/ (read /\ ec.max = snap.max)) /\ Keeps
       \/ /\ ~(snap.max = None \/ (read /\ ec.max = snap.max))
          /\ \E took \in SUBSET {1}, ok \in BOOLEAN :
               /\ ec' = PutMax(ec, snap.max, took)
               /\ Notes(read, InCustom(ec), {1}, took, ok)
  /\ UNCHANGED <<file, snap, tests, todo, before>>

\* Mutant: the set points are not compared.
MatchesButPoints(e, s) ==
  /\ Modes(e) = {[perf |-> s.perf, fan |-> s.fan]}
  /\ \A z \in Zone : s.boost[z] \in {None, e.boost[z]}
  /\ s.max \in {None, e.max}

\* What verify compares: every field the snapshot has.
Matches(e, s) ==
  /\ Modes(e) = {[perf |-> s.perf, fan |-> s.fan]}
  /\ e.rpm = s.rpm
  /\ \A z \in Zone : s.boost[z] \in {None, e.boost[z]}
  /\ s.max \in {None, e.max}

\* Verified is no problem on the way and every field read back as it was.
Verifies ==
  /\ pc = "verify"
  /\ \/ ~problem /\ Matches(ec, snap) /\ pc' = "remove" /\ UNCHANGED process
     \/ Ends
  /\ UNCHANGED <<ec, file, before>>

\* remove_file may fail too.
RemoveFile ==
  /\ pc = "remove"
  /\ file' \in {file, NoFile}
  /\ Ends
  /\ UNCHANGED <<ec, before>>

Restore ==
  \/ FindsBoosts
  \/ EntersCustom
  \/ \E z \in Zone : RestoresBoost(z)
  \/ RestoresPerf
  \/ EntersManual
  \/ \E z \in Zone : RestoresPoint(z)
  \/ RestoresFan
  \/ RestoresMax
  \/ Verifies

Die ==
  /\ pc # "idle"
  /\ Ends
  /\ UNCHANGED <<ec, file, before>>

\* The user removes a file nothing can be restored from.
UserDeletes ==
  /\ pc = "idle"
  /\ file = PartFile
  /\ file' = NoFile
  /\ UNCHANGED <<ec, pc, process, before>>

Next ==
  \/ TakeSnapshot
  \/ Create
  \/ Save
  \/ Cancel
  \/ RunTest
  \/ SkipTest
  \/ TestsDone
  \/ RestoreFromFile
  \/ Restore
  \/ RemoveFile
  \/ Die
  \/ UserDeletes

Spec == Init /\ [][Next]_vars

-----------------------------------------------------------------------------
(* Properties.                                                              *)

\* Every variable keeps its type, and the EC never holds Max Fan outside Custom: with one
\* writer, the mode set_max_fan_speed_mode reads is still the mode when it writes.
TypeOK ==
  /\ ec \in EC /\ before \in EC
  /\ Sound(ec)
  /\ file \in Snapshot \cup {NoFile, PartFile}
  /\ snap \in Snapshot \cup {NoSnapshot}
  /\ pc \in {"idle", "create", "save", "test", "remove"} \cup Restoring
  /\ step \in 1 .. Len(Plan) + 1
  /\ confirmed \subseteq {"Custom", "Balanced", "Manual"}
  /\ todo \subseteq {0, 1, 2}
  /\ cancelled \in BOOLEAN /\ problem \in BOOLEAN /\ faulty \in BOOLEAN

\* What a restore of s that meets no fault leaves in the EC.
Restored(s) ==
  [perf |-> [z \in Zone |-> s.perf], fan |-> [z \in Zone |-> s.fan], rpm |-> s.rpm,
   boost |-> [z \in Zone |-> IF s.boost[z] = None THEN ec.boost[z] ELSE s.boost[z]],
   max |-> IF s.max = None THEN "Disable" ELSE s.max]

\* Whenever the EC is not as the run found it, a whole recovery file holds what it takes to
\* put every register back (probe.rs:100-115, main.rs:672): nothing is written before the
\* file is, a write that could not be undone is not made, no later run, which would save
\* test values as the settings, writes over the file, and it is removed only when every
\* register is back, those it does not hold included (main.rs:708-713, 642-643).
Restorable ==
  ec # before => /\ file \notin {NoFile, PartFile}
                 /\ Restored(file) = before

\* The set points are tried only in Balanced and Manual on both zones, whatever the EC made
\* of the writes before: elsewhere a set point may be a floor under the EC's own curve
\* (probe.rs:108-111).
SweepsWhereItCounts ==
  [][pc = "test" /\ ec'.rpm # ec.rpm => Modes(ec) = {[perf |-> "Balanced", fan |-> "Manual"]}]_vars

\* A restore during which the EC took every write and answered every read finds nothing
\* left to complain of, from whatever state the tests, a failed restore or a death between
\* two zone writes left the registers in: the order of the writes is enough (probe.rs:253-334).
ObedientRestored ==
  pc = "verify" /\ ~faulty => ~problem /\ ec = before

=============================================================================
