------------------------------ MODULE ProbeProofs ------------------------------
(***************************************************************************)
(* Proofs about the write test of Probe, for every range of set points and *)
(* all settings found.                                                     *)
(***************************************************************************)
EXTENDS Probe, TLAPS, SequenceTheorems

Shape(s) == s \in Snapshot => (s.max = None <=> s.perf # "Custom")

\* What the recovery file and the snapshot hold, by where the run is.
Held ==
  /\ Shape(file) /\ Shape(snap)
  /\ file \in Snapshot => Restored(file) = before
  /\ file \notin Snapshot => ec = before
  /\ pc # "idle" => snap \in Snapshot
  /\ pc = "create" => Restored(snap) = ec
  /\ pc = "save" => file = PartFile /\ Restored(snap) = before
  /\ pc \in {"test", "remove"} \cup Restoring => file = snap
  /\ pc = "remove" => ec = before

\* The restore writes only boosts it knows.
Known == pc \in Restoring => \A z \in Zone : z \in todo => snap.boost[z] # None

\* From the test of Manual to the end of the sweep, what it read back stands.
Swept ==
  /\ pc \in {"create", "save"} => confirmed = {}
  /\ pc = "test" /\ "Manual" \in confirmed
    => /\ step > 10
       /\ step <= Len(Plan) => Modes(ec) = {[perf |-> "Balanced", fan |-> "Manual"]}

Boosted(z) == snap.boost[z] \in {None, ec.boost[z]}

\* What is back at each step of a restore that meets no fault.
InOrder ==
  /\ problem = FALSE
  /\ pc = "enter" => \A z \in Zone : z \in todo \/ Boosted(z)
  /\ pc = "cpu" => InCustom(ec) /\ \A z \in Zone : z \in todo \/ Boosted(z)
  /\ pc = "gpu" => InCustom(ec) /\ Boosted(1) /\ (2 \in todo \/ Boosted(2))
  /\ pc \in {"perf", "manual", "zone1", "zone2", "fan", "max", "verify"}
       => \A z \in Zone : Boosted(z)
  /\ pc \in {"manual", "zone1", "zone2", "fan", "max", "verify"} => HasPerf(ec, snap.perf)
  /\ pc = "zone2" => ec.rpm[1] = snap.rpm[1]
  /\ pc \in {"fan", "max", "verify"} => ec.rpm = snap.rpm
  /\ pc \in {"max", "verify"} => HasFan(ec, snap.fan)
  /\ pc = "verify" => snap.max \in {None, ec.max}

Back == pc \in Restoring /\ faulty = FALSE => InOrder

IInv == TypeOK /\ Held /\ Known /\ Swept /\ Back

Writable(e) == e \in EC /\ Sound(e)
Label == {"Custom", "Balanced", "Manual"}

-----------------------------------------------------------------------------
(* The write set.                                                           *)

IsTest(t) ==
  /\ t.gives \subseteq Label
  /\ \/ t.op = "perf" /\ t.arg \in Perf
     \/ t.op = "fan" /\ t.arg \in Fan
     \/ t.op = "boosts"
     \/ t.op = "max" /\ t.arg \in {"Disable", "Enable"}
     \/ t.op = "points" /\ t.arg \in Rpm /\ t.needs = {"Manual"} /\ t.gives = {}

LEMMA Joined ==
  ASSUME NEW S, NEW a \in Seq(S), NEW b \in Seq(S), NEW c \in Seq(S)
  PROVE  /\ Len(a \o b \o c) = Len(a) + Len(b) + Len(c)
         /\ \A i \in 1 .. Len(a) : (a \o b \o c)[i] = a[i]
         /\ \A i \in 1 .. Len(b) : (a \o b \o c)[Len(a) + i] = b[i]
         /\ \A i \in 1 .. Len(c) : (a \o b \o c)[Len(a) + Len(b) + i] = c[i]
<1>1. Len(a) \in Nat /\ Len(b) \in Nat /\ Len(c) \in Nat BY LenProperties
<1>2. /\ a \o b \in Seq(S)
      /\ Len(a \o b) = Len(a) + Len(b)
      /\ \A i \in 1 .. Len(a) + Len(b) :
           (a \o b)[i] = IF i <= Len(a) THEN a[i] ELSE b[i - Len(a)]
  BY ConcatProperties
<1>3. /\ Len(a \o b \o c) = Len(a \o b) + Len(c)
      /\ \A i \in 1 .. Len(a \o b) + Len(c) :
           (a \o b \o c)[i] = IF i <= Len(a \o b) THEN (a \o b)[i] ELSE c[i - Len(a \o b)]
  BY <1>2, ConcatProperties
<1>4. ASSUME NEW i \in 1 .. Len(a) PROVE (a \o b \o c)[i] = a[i]
  BY <1>1, <1>2, <1>3
<1>5. ASSUME NEW i \in 1 .. Len(b) PROVE (a \o b \o c)[Len(a) + i] = b[i]
  <2>1. Len(a) + i \in 1 .. Len(a) + Len(b) /\ ~(Len(a) + i <= Len(a))
    BY <1>1
  <2>2. (Len(a) + i) - Len(a) = i BY <1>1
  <2>3. (a \o b)[Len(a) + i] = b[i] BY <1>2, <2>1, <2>2
  <2> QED BY <1>1, <1>2, <1>3, <2>1, <2>3
<1>6. ASSUME NEW i \in 1 .. Len(c) PROVE (a \o b \o c)[Len(a) + Len(b) + i] = c[i]
  <2>1. /\ Len(a) + Len(b) + i \in 1 .. Len(a \o b) + Len(c)
        /\ ~(Len(a) + Len(b) + i <= Len(a \o b))
    BY <1>1, <1>2
  <2>2. (Len(a) + Len(b) + i) - Len(a \o b) = i BY <1>1, <1>2
  <2> QED BY <1>3, <2>1, <2>2
<1> QED BY <1>2, <1>3, <1>4, <1>5, <1>6

LEMMA PlanParts ==
  /\ Len(Sweep) \in Nat
  /\ Len(Plan) = 11 + Len(Sweep)
  /\ \A i \in 1 .. 10 : Plan[i] = ModesTests[i]
  /\ \A i \in 1 .. Len(Sweep) : Plan[10 + i] = Test("points", Sweep[i], {"Manual"}, {})
  /\ Plan[11 + Len(Sweep)] = Test("fan", "Auto", {"Balanced"}, {})
<1> DEFINE T == {ModesTests[i] : i \in 1 .. 10} \cup {SweepTests[i] : i \in 1 .. Len(Sweep)}
                \cup {LastTests[1]}
<1>1. Len(Sweep) \in Nat /\ DOMAIN Sweep = 1 .. Len(Sweep) BY ProbeAssumption, LenProperties
<1>2. DOMAIN ModesTests = 1 .. 10 /\ ModesTests = [i \in 1 .. 10 |-> ModesTests[i]]
  BY DEF ModesTests
<1>3. ModesTests \in Seq(T) /\ Len(ModesTests) = 10
  <2>1. ModesTests \in [1 .. 10 -> T] BY <1>2
  <2>2. ModesTests \in Seq(T) BY <2>1, SeqDef
  <2>3. DOMAIN ModesTests = 1 .. Len(ModesTests) /\ Len(ModesTests) \in Nat
    BY <2>2, LenProperties
  <2> QED BY <1>2, <2>2, <2>3
<1>4. SweepTests \in Seq(T) /\ Len(SweepTests) = Len(Sweep)
  <2>1. DOMAIN SweepTests = 1 .. Len(Sweep)
        /\ SweepTests = [i \in 1 .. Len(Sweep) |-> SweepTests[i]]
    BY <1>1 DEF SweepTests
  <2>2. SweepTests \in [1 .. Len(Sweep) -> T] BY <2>1
  <2>3. SweepTests \in Seq(T) BY <1>1, <2>2, SeqDef
  <2>4. DOMAIN SweepTests = 1 .. Len(SweepTests) /\ Len(SweepTests) \in Nat
    BY <2>3, LenProperties
  <2> QED BY <1>1, <2>1, <2>3, <2>4
<1>5. LastTests \in Seq(T) /\ Len(LastTests) = 1
  <2>1. DOMAIN LastTests = 1 .. 1 /\ LastTests = [i \in 1 .. 1 |-> LastTests[i]]
    BY DEF LastTests
  <2>2. \A i \in 1 .. 1 : LastTests[i] \in T OBVIOUS
  <2>3. LastTests \in [1 .. 1 -> T] BY <2>1, <2>2
  <2>4. LastTests \in Seq(T) BY <2>3, SeqDef
  <2>5. DOMAIN LastTests = 1 .. Len(LastTests) /\ Len(LastTests) \in Nat
    BY <2>4, LenProperties
  <2> QED BY <2>1, <2>4, <2>5
<1> HIDE DEF T
<1>6. /\ Len(Plan) = 10 + Len(Sweep) + 1
      /\ \A i \in 1 .. 10 : Plan[i] = ModesTests[i]
      /\ \A i \in 1 .. Len(Sweep) : Plan[10 + i] = SweepTests[i]
      /\ \A i \in 1 .. 1 : Plan[10 + Len(Sweep) + i] = LastTests[i]
  <2>1. /\ Len(Plan) = Len(ModesTests) + Len(SweepTests) + Len(LastTests)
        /\ \A i \in 1 .. Len(ModesTests) : Plan[i] = ModesTests[i]
        /\ \A i \in 1 .. Len(SweepTests) : Plan[Len(ModesTests) + i] = SweepTests[i]
        /\ \A i \in 1 .. Len(LastTests) :
             Plan[Len(ModesTests) + Len(SweepTests) + i] = LastTests[i]
    <3>1. ModesTests \in Seq(T) /\ SweepTests \in Seq(T) /\ LastTests \in Seq(T)
      BY <1>3, <1>4, <1>5
    <3>2. /\ Len(ModesTests \o SweepTests \o LastTests)
               = Len(ModesTests) + Len(SweepTests) + Len(LastTests)
          /\ \A i \in 1 .. Len(ModesTests) :
               (ModesTests \o SweepTests \o LastTests)[i] = ModesTests[i]
          /\ \A i \in 1 .. Len(SweepTests) :
               (ModesTests \o SweepTests \o LastTests)[Len(ModesTests) + i] = SweepTests[i]
          /\ \A i \in 1 .. Len(LastTests) :
               (ModesTests \o SweepTests \o LastTests)[Len(ModesTests) + Len(SweepTests) + i]
                 = LastTests[i]
      BY <3>1, Joined
    <3> QED BY <3>2 DEF Plan
  <2> QED BY <2>1, <1>1, <1>3, <1>4, <1>5
<1>7. \A i \in 1 .. Len(Sweep) : SweepTests[i] = Test("points", Sweep[i], {"Manual"}, {})
  BY <1>1 DEF SweepTests
<1>8. Plan[11 + Len(Sweep)] = LastTests[1]
  <2>1. 10 + Len(Sweep) + 1 = 11 + Len(Sweep) BY <1>1
  <2> QED BY <1>6, <2>1
<1>9. LastTests[1] = Test("fan", "Auto", {"Balanced"}, {}) BY DEF LastTests
<1> QED BY <1>1, <1>6, <1>7, <1>8, <1>9

LEMMA PlanTests ==
  ASSUME NEW i \in 1 .. Len(Plan)
  PROVE  /\ IsTest(Plan[i])
         /\ i < 10 => "Manual" \notin Plan[i].gives
         /\ i = 10 => Plan[i].op = "fan" /\ Plan[i].arg = "Manual"
         /\ i > 10 /\ i < Len(Plan) => Plan[i].op = "points"
<1>1. CASE i \in 1 .. 10
  <2>1. Plan[i] = ModesTests[i] BY <1>1, PlanParts
  <2>2. /\ IsTest(ModesTests[1]) /\ IsTest(ModesTests[2]) /\ IsTest(ModesTests[3])
        /\ IsTest(ModesTests[4]) /\ IsTest(ModesTests[5]) /\ IsTest(ModesTests[6])
        /\ IsTest(ModesTests[7]) /\ IsTest(ModesTests[8]) /\ IsTest(ModesTests[9])
        /\ IsTest(ModesTests[10])
    BY DEF ModesTests, Test, IsTest, Perf, Fan, Label
  <2>3. /\ "Manual" \notin ModesTests[1].gives /\ "Manual" \notin ModesTests[2].gives
        /\ "Manual" \notin ModesTests[3].gives /\ "Manual" \notin ModesTests[4].gives
        /\ "Manual" \notin ModesTests[5].gives /\ "Manual" \notin ModesTests[6].gives
        /\ "Manual" \notin ModesTests[7].gives /\ "Manual" \notin ModesTests[8].gives
        /\ "Manual" \notin ModesTests[9].gives
    BY DEF ModesTests, Test
  <2>4. ModesTests[10].op = "fan" /\ ModesTests[10].arg = "Manual"
    BY DEF ModesTests, Test
  <2> QED BY <1>1, <2>1, <2>2, <2>3, <2>4
<1>2. CASE i \in 11 .. 10 + Len(Sweep)
  <2>1. PICK j \in 1 .. Len(Sweep) : i = 10 + j
    <3>1. i - 10 \in 1 .. Len(Sweep) /\ i = 10 + (i - 10) BY <1>2, PlanParts
    <3> QED BY <3>1
  <2>2. Plan[i] = Test("points", Sweep[j], {"Manual"}, {}) BY <2>1, PlanParts
  <2>3. Sweep[j] \in Rpm BY ProbeAssumption, ElementOfSeq
  <2> QED BY <1>2, <2>2, <2>3 DEF Test, IsTest
<1>3. CASE i = 11 + Len(Sweep)
  <2>1. Plan[i] = Test("fan", "Auto", {"Balanced"}, {}) BY <1>3, PlanParts
  <2> QED BY <1>3, <2>1, PlanParts DEF Test, IsTest, Fan
<1> QED BY <1>1, <1>2, <1>3, PlanParts

-----------------------------------------------------------------------------
(* The EC's registers.                                                      *)

LEMMA NotSnapshots ==
  /\ NoFile \notin Snapshot /\ PartFile \notin Snapshot /\ NoSnapshot \notin Snapshot
  /\ NoFile # PartFile
BY DEF NoFile, PartFile, NoSnapshot, Snapshot, Perf, None

LEMMA ModesAre ==
  ASSUME NEW e \in EC
  PROVE  /\ \A m \in Modes(e) : /\ m \in [perf : Perf, fan : Fan]
                                /\ \A z \in Zone : e.perf[z] = m.perf /\ e.fan[z] = m.fan
         /\ \A m, n \in Modes(e) : m = n
         /\ \A p \in Perf, f \in Fan : (\A z \in Zone : e.perf[z] = p /\ e.fan[z] = f)
              => Modes(e) = {[perf |-> p, fan |-> f]}
BY DEF Modes, Zone

LEMMA PutModeOK ==
  ASSUME NEW e, Writable(e), NEW mode \in Perf, NEW fan \in Fan, NEW took \in SUBSET Zone
  PROVE  LET n == PutMode(e, mode, fan, took)
         IN /\ Writable(n)
            /\ n.rpm = e.rpm /\ n.boost = e.boost
            /\ took = Zone => \A z \in Zone : n.perf[z] = mode /\ n.fan[z] = fan
<1> DEFINE n == PutMode(e, mode, fan, took)
           P == [z \in Zone |-> IF z \in took THEN mode ELSE e.perf[z]]
           F == [z \in Zone |-> IF z \in took THEN fan ELSE e.fan[z]]
           M == IF took # {} /\ mode # "Custom" THEN "Disable" ELSE e.max
<1>1. e \in [perf : [Zone -> Perf], fan : [Zone -> Fan], rpm : [Zone -> Rpm],
             boost : [Zone -> Boost], max : {"Disable", "Enable"}]
  BY DEF Writable, EC
<1>2. P \in [Zone -> Perf] /\ F \in [Zone -> Fan] /\ M \in {"Disable", "Enable"} BY <1>1
<1>3. n = [e EXCEPT !.perf = P, !.fan = F, !.max = M] BY DEF PutMode
<1>4. n \in EC /\ n.perf = P /\ n.fan = F /\ n.max = M /\ n.rpm = e.rpm /\ n.boost = e.boost
  BY <1>1, <1>2, <1>3 DEF EC
<1>5. Sound(n)
  <2> SUFFICES ASSUME M = "Enable", NEW z \in Zone PROVE P[z] = "Custom"
    BY <1>4 DEF Sound
  <2>1. e.max = "Enable" /\ (took = {} \/ mode = "Custom") OBVIOUS
  <2>2. e.perf[z] = "Custom" BY <2>1 DEF Writable, Sound
  <2> QED BY <2>1, <2>2
<1> QED BY <1>4, <1>5 DEF Writable

LEMMA PutFanOK ==
  ASSUME NEW e, Writable(e), NEW fan \in Fan, NEW took \in SUBSET Zone
  PROVE  LET n == PutFan(e, fan, took)
         IN /\ Writable(n)
            /\ n.rpm = e.rpm /\ n.boost = e.boost
            /\ \A m \in Modes(e) :
                 took = Zone => \A z \in Zone : n.perf[z] = m.perf /\ n.fan[z] = fan
<1>1. CASE Modes(e) = {} BY <1>1 DEF PutFan
<1>2. CASE Modes(e) # {}
  <2>1. e.perf[1] \in Perf BY DEF Writable, EC, Zone
  <2>2. \A m \in Modes(e) : e.perf[1] = m.perf BY ModesAre DEF Writable, Zone
  <2> QED BY <1>2, <2>1, <2>2, PutModeOK DEF PutFan
<1> QED BY <1>1, <1>2

LEMMA PutPointsOK ==
  ASSUME NEW e, Writable(e), NEW rpm \in [Zone -> Rpm], NEW took \in SUBSET Zone
  PROVE  LET n == PutPoints(e, rpm, took)
         IN /\ Writable(n)
            /\ n.perf = e.perf /\ n.fan = e.fan /\ n.boost = e.boost /\ n.max = e.max
            /\ Modes(n) = Modes(e)
            /\ \A z \in Zone : n.rpm[z] = IF z \in took THEN rpm[z] ELSE e.rpm[z]
<1> DEFINE n == PutPoints(e, rpm, took)
           R == [z \in Zone |-> IF z \in took THEN rpm[z] ELSE e.rpm[z]]
<1>1. e \in [perf : [Zone -> Perf], fan : [Zone -> Fan], rpm : [Zone -> Rpm],
             boost : [Zone -> Boost], max : {"Disable", "Enable"}]
  BY DEF Writable, EC
<1>2. R \in [Zone -> Rpm] BY <1>1
<1>3. n = [e EXCEPT !.rpm = R] BY DEF PutPoints
<1>4. n \in EC /\ n.rpm = R /\ n.perf = e.perf /\ n.fan = e.fan /\ n.boost = e.boost
      /\ n.max = e.max
  BY <1>1, <1>2, <1>3 DEF EC
<1>5. Modes(n) = Modes(e) BY <1>4 DEF Modes
<1>6. Sound(n) BY <1>4 DEF Sound, Writable
<1> QED BY <1>4, <1>5, <1>6 DEF Writable

LEMMA PutBoostsOK ==
  ASSUME NEW e, Writable(e), NEW boost \in [Zone -> Boost \cup {None}],
         NEW took \in SUBSET Zone, \A z \in took : boost[z] # None
  PROVE  LET n == PutBoosts(e, boost, took)
         IN /\ Writable(n)
            /\ n.perf = e.perf /\ n.fan = e.fan /\ n.rpm = e.rpm /\ n.max = e.max
            /\ Modes(n) = Modes(e)
            /\ \A z \in Zone : n.boost[z] = IF InCustom(e) /\ z \in took THEN boost[z]
                                            ELSE e.boost[z]
<1>1. CASE ~InCustom(e) BY <1>1 DEF PutBoosts
<1>2. CASE InCustom(e)
  <2> DEFINE n == PutBoosts(e, boost, took)
             B == [z \in Zone |-> IF z \in took THEN boost[z] ELSE e.boost[z]]
  <2>1. e \in [perf : [Zone -> Perf], fan : [Zone -> Fan], rpm : [Zone -> Rpm],
               boost : [Zone -> Boost], max : {"Disable", "Enable"}]
    BY DEF Writable, EC
  <2>2. B \in [Zone -> Boost] BY <2>1
  <2>3. n = [e EXCEPT !.boost = B] BY <1>2 DEF PutBoosts
  <2>4. n \in EC /\ n.boost = B /\ n.perf = e.perf /\ n.fan = e.fan /\ n.rpm = e.rpm
        /\ n.max = e.max
    BY <2>1, <2>2, <2>3 DEF EC
  <2>5. Modes(n) = Modes(e) BY <2>4 DEF Modes
  <2>6. Sound(n) BY <2>4 DEF Sound, Writable
  <2> QED BY <1>2, <2>4, <2>5, <2>6 DEF Writable
<1> QED BY <1>1, <1>2

LEMMA PutMaxOK ==
  ASSUME NEW e, Writable(e), NEW max \in {"Disable", "Enable"}, NEW took \in SUBSET Zone
  PROVE  LET n == PutMax(e, max, took)
         IN /\ Writable(n)
            /\ n.perf = e.perf /\ n.fan = e.fan /\ n.rpm = e.rpm /\ n.boost = e.boost
            /\ Modes(n) = Modes(e)
            /\ InCustom(e) /\ took # {} => n.max = max
<1>1. CASE ~(InCustom(e) /\ took # {}) BY <1>1 DEF PutMax
<1>2. CASE InCustom(e) /\ took # {}
  <2> DEFINE n == PutMax(e, max, took)
  <2>1. e \in [perf : [Zone -> Perf], fan : [Zone -> Fan], rpm : [Zone -> Rpm],
               boost : [Zone -> Boost], max : {"Disable", "Enable"}]
    BY DEF Writable, EC
  <2>2. n = [e EXCEPT !.max = max] BY <1>2 DEF PutMax
  <2>3. n \in EC /\ n.max = max /\ n.perf = e.perf /\ n.fan = e.fan /\ n.rpm = e.rpm
        /\ n.boost = e.boost
    BY <2>1, <2>2 DEF EC
  <2>4. Modes(n) = Modes(e) BY <2>3 DEF Modes
  <2>5. \A z \in Zone : e.perf[z] = "Custom" BY <1>2, ModesAre DEF InCustom, Writable
  <2>6. Sound(n) BY <2>3, <2>5 DEF Sound
  <2> QED BY <1>2, <2>3, <2>4, <2>6 DEF Writable
<1> QED BY <1>1, <1>2

-----------------------------------------------------------------------------
(* One command: what its outcome notes and what it leaves alone.            *)

LEMMA NotesTypes ==
  ASSUME NEW read \in BOOLEAN, NEW can \in BOOLEAN, NEW asked, NEW took, NEW ok \in BOOLEAN,
         problem \in BOOLEAN, faulty \in BOOLEAN, Notes(read, can, asked, took, ok)
  PROVE  problem' \in BOOLEAN /\ faulty' \in BOOLEAN
BY Zenon DEF Notes

LEMMA NotesClean ==
  ASSUME NEW read \in BOOLEAN, NEW can \in BOOLEAN, NEW asked, NEW took, NEW ok \in BOOLEAN,
         problem \in BOOLEAN, faulty \in BOOLEAN, Notes(read, can, asked, took, ok),
         faulty' = FALSE
  PROVE  /\ faulty = FALSE /\ read = TRUE
         /\ can => took = asked /\ (problem = FALSE => problem' = FALSE)
<1>1. ~faulty' BY Zenon
<1>2. ~faulty /\ read /\ ~(can /\ (~ok \/ took # asked)) BY <1>1, Zenon DEF Notes
<1>3. can => ok /\ took = asked BY <1>2, Zenon
<1>4. faulty = FALSE /\ read = TRUE BY <1>2, Zenon
<1>5. ASSUME can, problem = FALSE PROVE problem' = FALSE
  <2>1. ok /\ ~problem BY <1>3, <1>5, Zenon
  <2>2. problem' = (problem \/ ~ok) BY DEF Notes
  <2> QED BY <2>1, <2>2, Zenon
<1> QED BY <1>3, <1>4, <1>5

\* The steps that may write the EC.
Command ==
  \/ RunTest
  \/ EntersCustom
  \/ \E z \in Zone : RestoresBoost(z)
  \/ RestoresPerf
  \/ EntersManual
  \/ \E z \in Zone : RestoresPoint(z)
  \/ RestoresFan
  \/ RestoresMax

\* What the EC may be after a step: nothing is written that snap could not put back.
Writes ==
  /\ Writable(ec')
  /\ \A z \in Zone : snap.boost[z] = None => ec'.boost[z] = ec.boost[z]

LEMMA SnapshotFields ==
  ASSUME NEW s \in Snapshot
  PROVE  /\ s.perf \in Perf /\ s.fan \in Fan /\ s.rpm \in [Zone -> Rpm]
         /\ s.boost \in [Zone -> Boost \cup {None}] /\ s.max \in {"Disable", "Enable", None}
BY DEF Snapshot

LEMMA WritesNothing ==
  ASSUME TypeOK, ec' = ec
  PROVE  Writes
BY DEF Writes, Writable, TypeOK

LEMMA WritesNoBoost ==
  ASSUME Writable(ec'), ec'.boost = ec.boost
  PROVE  Writes
BY DEF Writes

LEMMA TestWrites ==
  ASSUME TypeOK, Held, RunTest
  PROVE  Writes
<1> DEFINE t == Plan[step]
<1>1. step \in 1 .. Len(Plan) BY DEF RunTest, TypeOK
<1>2. IsTest(t) BY <1>1, PlanTests
<1>3. PICK took \in SUBSET Zone : ec' = Put(ec, t, took) BY DEF RunTest
<1>4. Writable(ec) BY DEF TypeOK, Writable
<1>5. CASE t.op = "perf" /\ t.arg \in Perf
  <2>1. ec' = PutMode(ec, t.arg, "Auto", took) BY <1>3, <1>5 DEF Put
  <2>2. "Auto" \in Fan BY DEF Fan
  <2> QED BY <1>4, <1>5, <2>1, <2>2, PutModeOK, WritesNoBoost
<1>6. CASE t.op = "fan" /\ t.arg \in Fan
  <2>1. ec' = PutFan(ec, t.arg, took) BY <1>3, <1>6 DEF Put
  <2> QED BY <1>4, <1>6, <2>1, PutFanOK, WritesNoBoost
<1>7. CASE t.op = "boosts"
  <2>1. ec' = PutBoosts(ec, TestBoosts, took) BY <1>3, <1>7 DEF Put
  <2>2. TestBoosts \in [Zone -> Boost \cup {None}] /\ \A z \in Zone : TestBoosts[z] # None
    BY DEF TestBoosts, Zone, Boost, None
  <2>3. Writable(ec') BY <1>4, <2>1, <2>2, PutBoostsOK
  <2>4. Ready(t) BY DEF RunTest
  <2>5. \A z \in Zone : snap.boost[z] # None BY <1>7, <2>4 DEF Ready
  <2> QED BY <2>3, <2>5 DEF Writes
<1>8. CASE t.op = "max" /\ t.arg \in {"Disable", "Enable"}
  <2>1. ec' = PutMax(ec, t.arg, took) BY <1>3, <1>8 DEF Put
  <2> QED BY <1>4, <1>8, <2>1, PutMaxOK, WritesNoBoost
<1>9. CASE t.op = "points" /\ t.arg \in Rpm
  <2>1. ec' = PutPoints(ec, [z \in Zone |-> t.arg], took) BY <1>3, <1>9 DEF Put
  <2>2. [z \in Zone |-> t.arg] \in [Zone -> Rpm] BY <1>9
  <2> QED BY <1>4, <2>1, <2>2, PutPointsOK, WritesNoBoost
<1> QED BY <1>2, <1>5, <1>6, <1>7, <1>8, <1>9 DEF IsTest

LEMMA CommandFrame ==
  ASSUME Command
  PROVE  /\ file' = file /\ snap' = snap /\ before' = before
         /\ pc \in {"test"} \cup Restoring /\ pc' \in {"test"} \cup Restoring
         /\ pc = "test" <=> RunTest
         /\ pc = "test" <=> pc' = "test"
<1>1. CASE RunTest BY <1>1 DEF RunTest, Restoring
<1>2. CASE EntersCustom BY <1>2 DEF EntersCustom, RunTest, Restoring
<1>3. ASSUME NEW z \in Zone, RestoresBoost(z)
      PROVE  /\ file' = file /\ snap' = snap /\ before' = before
             /\ pc \in Restoring /\ pc' \in Restoring /\ pc # "test" /\ pc' # "test"
  <2>1. z = 1 \/ z = 2 BY DEF Zone
  <2> QED BY <1>3, <2>1 DEF RestoresBoost, Restoring
<1>4. CASE RestoresPerf BY <1>4 DEF RestoresPerf, RunTest, Restoring
<1>5. CASE EntersManual BY <1>5 DEF EntersManual, RunTest, Restoring
<1>6. ASSUME NEW z \in Zone, RestoresPoint(z)
      PROVE  /\ file' = file /\ snap' = snap /\ before' = before
             /\ pc \in Restoring /\ pc' \in Restoring /\ pc # "test" /\ pc' # "test"
  <2>1. z = 1 \/ z = 2 BY DEF Zone
  <2> QED BY <1>6, <2>1 DEF RestoresPoint, Restoring
<1>7. CASE RestoresFan BY <1>7 DEF RestoresFan, RunTest, Restoring
<1>8. CASE RestoresMax BY <1>8 DEF RestoresMax, RunTest, Restoring
<1>9. pc = "test" <=> RunTest
  BY <1>1, <1>2, <1>3, <1>4, <1>5, <1>6, <1>7, <1>8 DEF Command, RunTest, EntersCustom,
     RestoresPerf, EntersManual, RestoresFan, RestoresMax
<1> QED BY <1>1, <1>2, <1>3, <1>4, <1>5, <1>6, <1>7, <1>8, <1>9 DEF Command

LEMMA RestoreWrites ==
  ASSUME TypeOK, Held, Known, Command, ~RunTest
  PROVE  Writes
<1>1. Writable(ec) BY DEF TypeOK, Writable
<1>2. pc \in Restoring BY CommandFrame
<1>3. snap \in Snapshot BY <1>2 DEF Held, Restoring
<1>4. "Auto" \in Fan /\ "Manual" \in Fan /\ "Custom" \in Perf BY DEF Fan, Perf
<1>5. CASE ec' = ec BY <1>5, WritesNothing
<1>6. CASE EntersCustom /\ ec' # ec
  <2>1. PICK took \in SUBSET Zone : ec' = PutMode(ec, "Custom", "Auto", took)
    BY <1>6 DEF EntersCustom, Keeps
  <2> QED BY <1>1, <1>4, <2>1, PutModeOK, WritesNoBoost
<1>7. ASSUME NEW z \in Zone, RestoresBoost(z), ec' # ec PROVE Writes
  <2>1. PICK took \in SUBSET {z} : ec' = PutBoosts(ec, snap.boost, took)
    BY <1>7 DEF RestoresBoost, Keeps
  <2>2. z \in todo BY <1>7 DEF RestoresBoost, Keeps
  <2>3. snap.boost[z] # None BY <1>2, <2>2 DEF Known
  <2>4. took \in SUBSET Zone /\ \A y \in took : snap.boost[y] # None BY <2>1, <2>3
  <2>5. snap.boost \in [Zone -> Boost \cup {None}] BY <1>3, SnapshotFields
  <2>6. /\ Writable(ec')
        /\ \A y \in Zone : ec'.boost[y] = IF InCustom(ec) /\ y \in took THEN snap.boost[y]
                                          ELSE ec.boost[y]
    BY <1>1, <2>1, <2>4, <2>5, PutBoostsOK
  <2> QED BY <2>4, <2>6 DEF Writes
<1>8. CASE RestoresPerf /\ ec' # ec
  <2>1. PICK took \in SUBSET Zone : ec' = PutMode(ec, snap.perf, "Auto", took)
    BY <1>8 DEF RestoresPerf, Keeps
  <2> QED BY <1>1, <1>3, <1>4, <2>1, PutModeOK, WritesNoBoost, SnapshotFields
<1>9. CASE EntersManual /\ ec' # ec
  <2>1. PICK took \in SUBSET Zone : ec' = PutFan(ec, "Manual", took)
    BY <1>9 DEF EntersManual, Keeps
  <2> QED BY <1>1, <1>4, <2>1, PutFanOK, WritesNoBoost
<1>10. ASSUME NEW z \in Zone, RestoresPoint(z) PROVE Writes
  <2>1. PICK took \in SUBSET {z} : ec' = PutPoints(ec, snap.rpm, took)
    BY <1>10 DEF RestoresPoint
  <2>2. took \in SUBSET Zone BY <2>1
  <2> QED BY <1>1, <1>3, <2>1, <2>2, PutPointsOK, WritesNoBoost, SnapshotFields
<1>11. CASE RestoresFan /\ ec' # ec
  <2>1. PICK took \in SUBSET Zone : ec' = PutFan(ec, snap.fan, took)
    BY <1>11 DEF RestoresFan, Keeps
  <2> QED BY <1>1, <1>3, <2>1, PutFanOK, WritesNoBoost, SnapshotFields
<1>12. CASE RestoresMax /\ ec' # ec
  <2>1. PICK took \in SUBSET {1} : ec' = PutMax(ec, snap.max, took) /\ snap.max # None
    BY <1>12 DEF RestoresMax, Keeps
  <2>2. took \in SUBSET Zone BY DEF Zone
  <2>3. snap.max \in {"Disable", "Enable"} BY <1>3, <2>1, SnapshotFields
  <2> QED BY <1>1, <2>1, <2>2, <2>3, PutMaxOK, WritesNoBoost
<1> QED BY <1>5, <1>6, <1>7, <1>8, <1>9, <1>10, <1>11, <1>12 DEF Command

LEMMA CommandWrites ==
  ASSUME TypeOK, Held, Known, Command
  PROVE  Writes
BY TestWrites, RestoreWrites

-----------------------------------------------------------------------------
(* The initial states.                                                      *)

LEMMA InitInv ==
  ASSUME Init
  PROVE  IInv
<1>1. ec \in EC /\ Sound(ec) BY ProbeAssumption DEF Init
<1>2. 1 \in 1 .. Len(Plan) + 1 BY PlanParts
<1>3. TypeOK BY <1>1, <1>2 DEF Init, TypeOK
<1>4. Held BY NotSnapshots DEF Init, Held, Shape, Restoring
<1>5. Known /\ Swept /\ Back BY DEF Init, Known, Swept, Back, Restoring
<1> QED BY <1>3, <1>4, <1>5 DEF IInv

-----------------------------------------------------------------------------
(* Type correctness of a step.                                              *)

ProcessOK ==
  /\ step \in 1 .. Len(Plan) + 1
  /\ confirmed \subseteq Label
  /\ todo \subseteq {0, 1, 2}
  /\ cancelled \in BOOLEAN /\ problem \in BOOLEAN /\ faulty \in BOOLEAN

LEMMA FreshTypes ==
  ASSUME Fresh
  PROVE  ProcessOK'
<1>1. 1 \in 1 .. Len(Plan) + 1 BY PlanParts
<1> QED BY <1>1 DEF Fresh, ProcessOK

LEMMA CommandTypes ==
  ASSUME TypeOK, Command
  PROVE  ProcessOK'
<1> USE DEF TypeOK, ProcessOK, Label
<1>1. CASE RunTest
  <2>1. step \in 1 .. Len(Plan) /\ Len(Plan) \in Nat BY <1>1, PlanParts DEF RunTest
  <2>2. Plan[step].gives \subseteq Label BY <2>1, PlanTests DEF IsTest
  <2>3. step' \in 1 .. Len(Plan) + 1 BY <1>1, <2>1 DEF RunTest
  <2>4. confirmed' \subseteq Label BY <1>1, <2>2 DEF RunTest
  <2> QED BY <1>1, <2>3, <2>4 DEF RunTest
<1>2. CASE EntersCustom
  <2>1. UNCHANGED <<step, confirmed, cancelled, todo>> BY <1>2 DEF EntersCustom, tests
  <2>2. problem' \in BOOLEAN /\ faulty' \in BOOLEAN
    <3>1. CASE Keeps BY <3>1 DEF Keeps
    <3>2. CASE ~Keeps
      <4>1. PICK took \in SUBSET Zone, ok \in BOOLEAN : Notes(TRUE, TRUE, Zone, took, ok)
        BY <1>2, <3>2 DEF EntersCustom
      <4> QED BY <4>1, NotesTypes
    <3> QED BY <3>1, <3>2
  <2> QED BY <2>1, <2>2
<1>3. ASSUME NEW z \in Zone, RestoresBoost(z) PROVE ProcessOK'
  <2>1. UNCHANGED <<step, confirmed, cancelled, todo>> BY <1>3 DEF RestoresBoost, tests
  <2>2. problem' \in BOOLEAN /\ faulty' \in BOOLEAN
    <3>1. CASE Keeps BY <3>1 DEF Keeps
    <3>2. CASE ~Keeps
      <4>1. PICK took \in SUBSET {z}, ok \in BOOLEAN :
               Notes(TRUE, InCustom(ec), {z}, took, ok)
        BY <1>3, <3>2 DEF RestoresBoost
      <4>2. InCustom(ec) \in BOOLEAN BY DEF InCustom
      <4> QED BY <4>1, <4>2, NotesTypes
    <3> QED BY <3>1, <3>2
  <2> QED BY <2>1, <2>2
<1>4. CASE RestoresPerf
  <2>1. UNCHANGED <<step, confirmed, cancelled, todo>> BY <1>4 DEF RestoresPerf, tests
  <2>2. problem' \in BOOLEAN /\ faulty' \in BOOLEAN
    <3>1. CASE Keeps BY <3>1 DEF Keeps
    <3>2. CASE ~Keeps
      <4>1. PICK read \in BOOLEAN, took \in SUBSET Zone, ok \in BOOLEAN :
               Notes(read, TRUE, Zone, took, ok)
        BY <1>4, <3>2 DEF RestoresPerf
      <4> QED BY <4>1, NotesTypes
    <3> QED BY <3>1, <3>2
  <2> QED BY <2>1, <2>2
<1>5. CASE EntersManual
  <2>1. UNCHANGED <<step, confirmed, cancelled>> BY <1>5 DEF EntersManual, tests
  <2>2. todo' \subseteq {0, 1, 2} BY <1>5 DEF EntersManual
  <2>3. problem' \in BOOLEAN /\ faulty' \in BOOLEAN
    <3>1. CASE Keeps BY <3>1 DEF Keeps
    <3>2. CASE ~Keeps
      <4>1. PICK read \in BOOLEAN, took \in SUBSET Zone, ok \in BOOLEAN :
               Notes(read, Modes(ec) # {}, Zone, took, ok)
        BY <1>5, <3>2 DEF EntersManual
      <4>2. (Modes(ec) # {}) \in BOOLEAN OBVIOUS
      <4> QED BY <4>1, <4>2, NotesTypes
    <3> QED BY <3>1, <3>2
  <2> QED BY <2>1, <2>2, <2>3
<1>6. ASSUME NEW z \in Zone, RestoresPoint(z) PROVE ProcessOK'
  <2>1. UNCHANGED <<step, confirmed, cancelled, todo>> BY <1>6 DEF RestoresPoint, tests
  <2>2. PICK took \in SUBSET {z}, ok \in BOOLEAN : Notes(TRUE, TRUE, {z}, took, ok)
    BY <1>6 DEF RestoresPoint
  <2>3. problem' \in BOOLEAN /\ faulty' \in BOOLEAN BY <2>2, NotesTypes
  <2> QED BY <2>1, <2>3
<1>7. CASE RestoresFan
  <2>1. UNCHANGED <<step, confirmed, cancelled, todo>> BY <1>7 DEF RestoresFan, tests
  <2>2. problem' \in BOOLEAN /\ faulty' \in BOOLEAN
    <3>1. CASE Keeps BY <3>1 DEF Keeps
    <3>2. CASE ~Keeps
      <4>1. PICK read \in BOOLEAN, took \in SUBSET Zone, ok \in BOOLEAN :
               Notes(read, Modes(ec) # {}, Zone, took, ok)
        BY <1>7, <3>2 DEF RestoresFan
      <4>2. (Modes(ec) # {}) \in BOOLEAN OBVIOUS
      <4> QED BY <4>1, <4>2, NotesTypes
    <3> QED BY <3>1, <3>2
  <2> QED BY <2>1, <2>2
<1>8. CASE RestoresMax
  <2>1. UNCHANGED <<step, confirmed, cancelled, todo>> BY <1>8 DEF RestoresMax, tests
  <2>2. problem' \in BOOLEAN /\ faulty' \in BOOLEAN
    <3>1. CASE Keeps BY <3>1 DEF Keeps
    <3>2. CASE ~Keeps
      <4>1. PICK read \in BOOLEAN, took \in SUBSET {1}, ok \in BOOLEAN :
               Notes(read, InCustom(ec), {1}, took, ok)
        BY <1>8, <3>2 DEF RestoresMax
      <4>2. InCustom(ec) \in BOOLEAN BY DEF InCustom
      <4> QED BY <4>1, <4>2, NotesTypes
    <3> QED BY <3>1, <3>2
  <2> QED BY <2>1, <2>2
<1> QED BY <1>1, <1>2, <1>3, <1>4, <1>5, <1>6, <1>7, <1>8 DEF Command

LEMMA SnapshotTaken ==
  ASSUME TypeOK, TakeSnapshot
  PROVE  snap' \in Snapshot /\ Shape(snap)' /\ Restored(snap)' = ec
<1>1. PICK m \in Modes(ec), known \in SUBSET Zone :
        /\ m.perf = "Custom" => known = Zone
        /\ snap' = [perf |-> m.perf, fan |-> m.fan, rpm |-> ec.rpm,
                    boost |-> [z \in Zone |-> IF z \in known THEN ec.boost[z] ELSE None],
                    max |-> IF m.perf = "Custom" THEN ec.max ELSE None]
  BY DEF TakeSnapshot
<1> DEFINE B == [z \in Zone |-> IF z \in known THEN ec.boost[z] ELSE None]
           M == IF m.perf = "Custom" THEN ec.max ELSE None
<1>2. /\ ec \in [perf : [Zone -> Perf], fan : [Zone -> Fan], rpm : [Zone -> Rpm],
                 boost : [Zone -> Boost], max : {"Disable", "Enable"}]
      /\ Sound(ec) /\ ec' = ec
  BY DEF TypeOK, EC, TakeSnapshot
<1>3. m.perf \in Perf /\ m.fan \in Fan /\ \A z \in Zone : ec.perf[z] = m.perf /\ ec.fan[z] = m.fan
  BY <1>1, ModesAre DEF TypeOK
<1>4. B \in [Zone -> Boost \cup {None}] /\ M \in {"Disable", "Enable", None}
  BY <1>2
<1>5. /\ snap'.perf = m.perf /\ snap'.fan = m.fan /\ snap'.rpm = ec.rpm
      /\ snap'.boost = B /\ snap'.max = M
  BY <1>1
<1>6. snap' \in Snapshot
  BY <1>1, <1>2, <1>3, <1>4 DEF Snapshot
<1>7. Shape(snap)'
  BY <1>2, <1>5 DEF Shape, None
<1>8. /\ [z \in Zone |-> m.perf] = ec.perf /\ [z \in Zone |-> m.fan] = ec.fan
  BY <1>2, <1>3
<1>9. [z \in Zone |-> IF B[z] = None THEN ec.boost[z] ELSE B[z]] = ec.boost
  <2>1. \A z \in Zone : (IF B[z] = None THEN ec.boost[z] ELSE B[z]) = ec.boost[z] OBVIOUS
  <2> QED BY <1>2, <2>1
<1>10. (IF M = None THEN "Disable" ELSE M) = ec.max
  <2>1. CASE m.perf = "Custom" BY <1>2, <2>1 DEF None
  <2>2. CASE m.perf # "Custom"
    <3>1. 1 \in Zone BY DEF Zone
    <3>2. ec.perf[1] # "Custom" BY <1>3, <2>2, <3>1
    <3>3. ec.max # "Enable" BY <1>2, <3>1, <3>2 DEF Sound
    <3> QED BY <1>2, <2>2, <3>3
  <2> QED BY <2>1, <2>2
<1>11. Restored(snap)' = [perf |-> ec.perf, fan |-> ec.fan, rpm |-> ec.rpm,
                          boost |-> ec.boost, max |-> ec.max]
  <2> HIDE DEF B, M
  <2> QED BY <1>2, <1>5, <1>8, <1>9, <1>10 DEF Restored
<1>12. ec = [perf |-> ec.perf, fan |-> ec.fan, rpm |-> ec.rpm,
             boost |-> ec.boost, max |-> ec.max]
  BY <1>2
<1> QED BY <1>6, <1>7, <1>11, <1>12

LEMMA TypeStep ==
  ASSUME TypeOK, Held, Known, Next
  PROVE  TypeOK'
<1> USE DEF ProcessOK, Label
<1>1. CASE Command
  <2>1. Writable(ec)' BY <1>1, CommandWrites DEF Writes, Writable
  <2>2. /\ file' = file /\ snap' = snap /\ before' = before
        /\ pc' \in {"test"} \cup Restoring
    BY <1>1, CommandFrame
  <2>3. ProcessOK' BY <1>1, CommandTypes
  <2> QED BY <2>1, <2>2, <2>3 DEF TypeOK, Writable
<1>2. CASE TakeSnapshot
  <2>1. snap' \in Snapshot BY <1>2, SnapshotTaken
  <2>2. step' \in 1 .. Len(Plan) + 1 BY <1>2, PlanParts DEF TakeSnapshot
  <2> QED BY <1>2, <2>1, <2>2 DEF TakeSnapshot, TypeOK
<1>3. CASE Create BY <1>3 DEF Create, process, TypeOK
<1>4. CASE Save BY <1>4 DEF Save, process, TypeOK, Held
<1>5. CASE Cancel BY <1>5 DEF Cancel, TypeOK
<1>6. CASE SkipTest
  <2>1. step' \in 1 .. Len(Plan) + 1
    <3>1. Len(Plan) \in Nat BY PlanParts
    <3> QED BY <1>6, <3>1 DEF SkipTest, TypeOK
  <2> QED BY <1>6, <2>1 DEF SkipTest, TypeOK
<1>7. CASE TestsDone
  <2>1. ProcessOK' BY <1>7, FreshTypes DEF TestsDone
  <2> QED BY <1>7, <2>1 DEF TestsDone, TypeOK, Restoring
<1>8. CASE RestoreFromFile
  <2>1. ProcessOK' BY <1>8, FreshTypes DEF RestoreFromFile
  <2>2. snap' \in Snapshot BY <1>8 DEF RestoreFromFile, TypeOK
  <2> QED BY <1>8, <2>1, <2>2 DEF RestoreFromFile, TypeOK, Restoring
<1>9. CASE FindsBoosts
  <2>1. todo' \subseteq {0, 1, 2} BY <1>9 DEF FindsBoosts, Zone
  <2>2. faulty' \in BOOLEAN BY <1>9 DEF FindsBoosts, TypeOK
  <2> QED BY <1>9, <2>1, <2>2 DEF FindsBoosts, TypeOK, Restoring, tests
<1>10. ASSUME Ends, ec' = ec, before' = before, file' \in Snapshot \cup {NoFile, PartFile}
       PROVE  TypeOK'
  <2>1. ProcessOK' BY <1>10, FreshTypes DEF Ends
  <2> QED BY <1>10, <2>1 DEF Ends, TypeOK
<1>11. CASE Verifies
  <2>1. CASE Ends BY <1>10, <1>11, <2>1 DEF Verifies, TypeOK
  <2>2. CASE ~Ends BY <1>11, <2>2 DEF Verifies, process, TypeOK
  <2> QED BY <2>1, <2>2
<1>12. CASE RemoveFile BY <1>10, <1>12 DEF RemoveFile, TypeOK
<1>13. CASE Die BY <1>10, <1>13 DEF Die, TypeOK
<1>14. CASE UserDeletes BY <1>14 DEF UserDeletes, process, TypeOK
<1> QED BY <1>1, <1>2, <1>3, <1>4, <1>5, <1>6, <1>7, <1>8, <1>9, <1>11, <1>12, <1>13, <1>14
        DEF Next, Restore, Command

-----------------------------------------------------------------------------
(* What the file and the snapshot hold, after a step.                       *)

LEMMA RestoredSame ==
  ASSUME file' = file, \A z \in Zone : file.boost[z] = None => ec'.boost[z] = ec.boost[z]
  PROVE  Restored(file)' = Restored(file)
<1>1. [z \in Zone |-> IF file.boost[z] = None THEN ec'.boost[z] ELSE file.boost[z]]
        = [z \in Zone |-> IF file.boost[z] = None THEN ec.boost[z] ELSE file.boost[z]]
  OBVIOUS
<1> QED BY <1>1 DEF Restored

LEMMA MatchesBack ==
  ASSUME TypeOK, snap \in Snapshot, Shape(snap), Matches(ec, snap)
  PROVE  Restored(snap) = ec
<1>1. /\ ec \in [perf : [Zone -> Perf], fan : [Zone -> Fan], rpm : [Zone -> Rpm],
                 boost : [Zone -> Boost], max : {"Disable", "Enable"}]
      /\ Sound(ec)
  BY DEF TypeOK, EC
<1>2. \A z \in Zone : ec.perf[z] = snap.perf /\ ec.fan[z] = snap.fan
  <2>1. [perf |-> snap.perf, fan |-> snap.fan] \in Modes(ec) BY DEF Matches
  <2> QED BY <2>1 DEF Modes
<1>3. /\ [z \in Zone |-> snap.perf] = ec.perf /\ [z \in Zone |-> snap.fan] = ec.fan
  BY <1>1, <1>2
<1>4. [z \in Zone |-> IF snap.boost[z] = None THEN ec.boost[z] ELSE snap.boost[z]] = ec.boost
  <2>1. \A z \in Zone :
          (IF snap.boost[z] = None THEN ec.boost[z] ELSE snap.boost[z]) = ec.boost[z]
    BY DEF Matches
  <2> QED BY <1>1, <2>1
<1>5. (IF snap.max = None THEN "Disable" ELSE snap.max) = ec.max
  <2>1. CASE snap.max # None BY <2>1 DEF Matches
  <2>2. CASE snap.max = None
    <3>1. 1 \in Zone BY DEF Zone
    <3>2. ec.perf[1] # "Custom" BY <1>2, <2>2, <3>1 DEF Shape
    <3>3. ec.max # "Enable" BY <1>1, <3>1, <3>2 DEF Sound
    <3> QED BY <1>1, <2>2, <3>3
  <2> QED BY <2>1, <2>2
<1>6. Restored(snap) = [perf |-> ec.perf, fan |-> ec.fan, rpm |-> ec.rpm,
                        boost |-> ec.boost, max |-> ec.max]
  BY <1>3, <1>4, <1>5 DEF Restored, Matches
<1>7. ec = [perf |-> ec.perf, fan |-> ec.fan, rpm |-> ec.rpm,
            boost |-> ec.boost, max |-> ec.max]
  BY <1>1
<1> QED BY <1>6, <1>7

LEMMA HeldMoves ==
  ASSUME Held, Writes, file' = file, snap' = snap, before' = before,
         pc \in {"test"} \cup Restoring, pc' \in {"test"} \cup Restoring
  PROVE  Held'
<1>1. file = snap /\ snap \in Snapshot BY DEF Held, Restoring
<1>2. Restored(file)' = Restored(file) BY <1>1, RestoredSame DEF Writes
<1>3. pc' \notin {"idle", "create", "save", "remove"} BY DEF Restoring
<1> QED BY <1>1, <1>2, <1>3 DEF Held, Shape

LEMMA HeldStep ==
  ASSUME TypeOK, Held, Known, Next
  PROVE  Held'
<1> USE NotSnapshots
<1>1. CASE Command BY <1>1, CommandFrame, CommandWrites, HeldMoves
<1>2. CASE Cancel \/ SkipTest
  <2>1. Writes BY <1>2, WritesNothing DEF Cancel, SkipTest
  <2> QED BY <1>2, <2>1, HeldMoves DEF Cancel, SkipTest
<1>3. CASE TestsDone
  <2>1. Writes BY <1>3, WritesNothing DEF TestsDone
  <2> QED BY <1>3, <2>1, HeldMoves DEF TestsDone, Restoring
<1>4. CASE FindsBoosts
  <2>1. Writes BY <1>4, WritesNothing DEF FindsBoosts
  <2> QED BY <1>4, <2>1, HeldMoves DEF FindsBoosts, Restoring
<1>5. ASSUME ec' = ec, file' = file PROVE Restored(file)' = Restored(file)
  BY <1>5, RestoredSame
<1>6. CASE TakeSnapshot
  <2>1. snap' \in Snapshot /\ Shape(snap)' /\ Restored(snap)' = ec BY <1>6, SnapshotTaken
  <2>2. /\ ec' = ec /\ file' = file /\ before' = before /\ pc' = "create"
        /\ Restored(file)' = Restored(file)
    BY <1>5, <1>6 DEF TakeSnapshot
  <2> QED BY <2>1, <2>2 DEF Held, Shape, Restoring
<1>7. CASE Create
  <2>1. ec' = ec /\ snap' = snap /\ pc = "create" BY <1>7 DEF Create, process
  <2>2. CASE file' = file /\ before' = before /\ pc' = "idle"
    BY <1>5, <2>1, <2>2 DEF Held, Shape, Restoring
  <2>3. CASE file' = PartFile /\ before' = ec /\ pc' = "save"
    <3>1. Restored(snap)' = Restored(snap) BY <2>1 DEF Restored
    <3> QED BY <2>1, <2>3, <3>1 DEF Held, Shape, Restoring
  <2> QED BY <1>7, <2>2, <2>3 DEF Create
<1>8. CASE Save
  <2>1. ec' = ec /\ snap' = snap /\ pc = "save" /\ before' = before
    BY <1>8 DEF Save, process
  <2>2. CASE pc' = "test" /\ file' = snap
    <3>1. Restored(file)' = Restored(snap) BY <2>1, <2>2 DEF Restored
    <3> QED BY <2>1, <2>2, <3>1 DEF Held, Shape, Restoring
  <2>3. CASE pc' = "idle" /\ file' = file
    BY <1>5, <2>1, <2>3 DEF Held, Shape, Restoring
  <2> QED BY <1>8, <2>2, <2>3 DEF Save
<1>9. CASE RestoreFromFile
  <2>1. /\ ec' = ec /\ file' = file /\ before' = before /\ snap' = file /\ pc' = "boosts"
        /\ file \in Snapshot
    BY <1>9 DEF RestoreFromFile, TypeOK
  <2> QED BY <1>5, <2>1 DEF Held, Shape, Restoring
<1>10. ASSUME Ends, ec' = ec, before' = before, file' = file PROVE Held'
  BY <1>5, <1>10 DEF Ends, Held, Shape, Restoring
<1>11. CASE Verifies
  <2>1. CASE Ends BY <1>10, <1>11, <2>1 DEF Verifies
  <2>2. CASE ~Ends
    <3>1. /\ Matches(ec, snap) /\ pc = "verify" /\ pc' = "remove" /\ snap' = snap
          /\ ec' = ec /\ file' = file /\ before' = before
      BY <1>11, <2>2 DEF Verifies, process
    <3>2. snap \in Snapshot /\ Shape(snap) /\ file = snap
      BY <3>1 DEF Held, Restoring
    <3>3. Restored(snap) = ec BY <3>1, <3>2, MatchesBack
    <3>4. ec = before BY <3>2, <3>3 DEF Held
    <3> QED BY <1>5, <3>1, <3>2, <3>4 DEF Held, Shape, Restoring
  <2> QED BY <2>1, <2>2
<1>12. CASE RemoveFile
  <2>1. ec' = ec /\ before' = before /\ Ends /\ pc = "remove" BY <1>12 DEF RemoveFile
  <2>2. CASE file' = file BY <1>10, <2>1, <2>2
  <2>3. CASE file' = NoFile BY <2>1, <2>3 DEF Ends, Held, Shape, Restoring
  <2> QED BY <1>12, <2>2, <2>3 DEF RemoveFile
<1>13. CASE Die BY <1>10, <1>13 DEF Die
<1>14. CASE UserDeletes
  <2>1. ec' = ec /\ before' = before /\ snap' = snap /\ pc' = "idle" /\ file = PartFile
        /\ file' = NoFile
    BY <1>14 DEF UserDeletes, process
  <2> QED BY <2>1 DEF Held, Shape, Restoring
<1> QED BY <1>1, <1>2, <1>3, <1>4, <1>6, <1>7, <1>8, <1>9, <1>11, <1>12, <1>13, <1>14
        DEF Next, Restore, Command

LEMMA KnownStep ==
  ASSUME TypeOK, Held, Known, Next
  PROVE  Known'
<1>1. ASSUME snap' = snap, todo' \subseteq todo \cup {0}, pc \in Restoring PROVE Known'
  <2>1. \A z \in Zone : z # 0 BY DEF Zone
  <2> QED BY <1>1, <2>1 DEF Known
<1>2. ASSUME pc' \notin Restoring PROVE Known' BY <1>2 DEF Known
<1>3. ASSUME Fresh PROVE Known' BY <1>3 DEF Known, Fresh
<1>4. CASE Command
  <2>1. CASE RunTest BY <1>2, <2>1 DEF RunTest, Restoring
  <2>2. CASE ~RunTest
    <3>1. snap' = snap /\ pc \in Restoring BY <1>4, <2>2, CommandFrame
    <3>2. todo' \subseteq todo \cup {0}
      BY <1>4, <2>2 DEF Command, EntersCustom, RestoresBoost, RestoresPerf, EntersManual,
         RestoresPoint, RestoresFan, RestoresMax
    <3> QED BY <1>1, <3>1, <3>2
  <2> QED BY <2>1, <2>2
<1>5. CASE FindsBoosts BY <1>5 DEF FindsBoosts, Known
<1>6. CASE TakeSnapshot \/ Create \/ Save \/ Cancel \/ SkipTest \/ UserDeletes
  BY <1>2, <1>6 DEF TakeSnapshot, Create, Save, Cancel, SkipTest, UserDeletes, Restoring
<1>7. CASE TestsDone \/ RestoreFromFile \/ RemoveFile \/ Die
  BY <1>3, <1>7 DEF TestsDone, RestoreFromFile, RemoveFile, Die, Ends
<1>8. CASE Verifies BY <1>2, <1>8 DEF Verifies, Ends, Restoring
<1> QED BY <1>4, <1>5, <1>6, <1>7, <1>8 DEF Next, Restore, Command

-----------------------------------------------------------------------------
(* The sweep, after a step.                                                 *)

LEMMA SweptStep ==
  ASSUME TypeOK, Swept, Next
  PROVE  Swept'
<1> DEFINE There(e) == Modes(e) = {[perf |-> "Balanced", fan |-> "Manual"]}
<1>1. Len(Plan) \in Nat /\ step \in Nat BY PlanParts DEF TypeOK
<1>2. CASE RunTest
  <2> DEFINE t == Plan[step]
  <2>1. step \in 1 .. Len(Plan) BY <1>2 DEF RunTest, TypeOK
  <2>2. /\ IsTest(t)
        /\ step < 10 => "Manual" \notin t.gives
        /\ step = 10 => t.op = "fan" /\ t.arg = "Manual"
        /\ step > 10 /\ step < Len(Plan) => t.op = "points"
    BY <2>1, PlanTests
  <2>3. PICK took \in SUBSET Zone, ok \in BOOLEAN :
          /\ ec' = Put(ec, t, took)
          /\ confirmed' = IF ok /\ ReadsBack(ec', t) THEN confirmed \cup t.gives ELSE confirmed
    BY <1>2 DEF RunTest
  <2>4. pc = "test" /\ pc' = "test" /\ step' = step + 1 BY <1>2 DEF RunTest
  <2>5. ASSUME "Manual" \in confirmed' PROVE step' > 10 /\ (step' <= Len(Plan) => There(ec'))
    <3>1. CASE "Manual" \in confirmed
      <4>1. step > 10 /\ There(ec) BY <2>1, <2>4, <3>1 DEF Swept
      <4>2. ASSUME step' <= Len(Plan) PROVE There(ec')
        <5>1. t.op = "points" BY <1>1, <2>2, <2>4, <4>1, <4>2
        <5>2. t.arg \in Rpm BY <2>2, <5>1 DEF IsTest
        <5>3. [z \in Zone |-> t.arg] \in [Zone -> Rpm] BY <5>2
        <5>4. ec' = PutPoints(ec, [z \in Zone |-> t.arg], took) BY <2>3, <5>1 DEF Put
        <5>5. Writable(ec) BY DEF TypeOK, Writable
        <5>6. Modes(ec') = Modes(ec) BY <5>3, <5>4, <5>5, PutPointsOK
        <5> QED BY <4>1, <5>6
      <4> QED BY <1>1, <2>4, <4>1, <4>2
    <3>2. CASE "Manual" \notin confirmed
      <4>1. "Manual" \in t.gives /\ ReadsBack(ec', t) BY <2>3, <2>5, <3>2
      <4>2. step = 10 \/ (step = Len(Plan) /\ step > 10)
        <5>1. t.op # "points" BY <2>2, <4>1 DEF IsTest
        <5> QED BY <1>1, <2>1, <2>2, <4>1, <5>1
      <4>3. CASE step = 10
        <5>1. t.op = "fan" /\ t.arg = "Manual" BY <2>2, <4>3
        <5>2. There(ec') BY <4>1, <5>1 DEF ReadsBack
        <5> QED BY <2>4, <4>3, <5>2
      <4>4. CASE step = Len(Plan) /\ step > 10 BY <1>1, <2>4, <4>4
      <4> QED BY <4>2, <4>3, <4>4
    <3> QED BY <3>1, <3>2
  <2> QED BY <2>4, <2>5 DEF Swept
<1>3. CASE SkipTest BY <1>1, <1>3 DEF SkipTest, Swept
<1>4. CASE Cancel BY <1>4 DEF Cancel, Swept
<1>5. CASE TakeSnapshot BY <1>5 DEF TakeSnapshot, Swept
<1>6. CASE Create \/ Save BY <1>6 DEF Create, Save, process, Swept
<1>7. ASSUME pc' \notin {"create", "save", "test"} PROVE Swept' BY <1>7 DEF Swept
<1>8. CASE Restore
  <2>1. CASE FindsBoosts \/ Verifies BY <1>7, <2>1 DEF FindsBoosts, Verifies, Ends
  <2>2. CASE ~(FindsBoosts \/ Verifies)
    <3>1. Command BY <1>8, <2>2 DEF Restore, Command
    <3>2. pc # "test"
      <4>1. ASSUME NEW z \in Zone, RestoresBoost(z) PROVE pc # "test"
        <5>1. z = 1 \/ z = 2 BY DEF Zone
        <5> QED BY <4>1, <5>1 DEF RestoresBoost
      <4>2. ASSUME NEW z \in Zone, RestoresPoint(z) PROVE pc # "test"
        <5>1. z = 1 \/ z = 2 BY DEF Zone
        <5> QED BY <4>2, <5>1 DEF RestoresPoint
      <4> QED BY <1>8, <2>2, <4>1, <4>2 DEF Restore, EntersCustom, RestoresPerf, EntersManual,
             RestoresFan, RestoresMax
    <3>3. pc' \in {"test"} \cup Restoring /\ pc' # "test" BY <3>1, <3>2, CommandFrame
    <3> QED BY <1>7, <3>3 DEF Restoring
  <2> QED BY <2>1, <2>2
<1>9. CASE TestsDone \/ RestoreFromFile \/ RemoveFile \/ Die \/ UserDeletes
  BY <1>7, <1>9 DEF TestsDone, RestoreFromFile, RemoveFile, Die, Ends, UserDeletes
<1> QED BY <1>2, <1>3, <1>4, <1>5, <1>6, <1>8, <1>9 DEF Next

-----------------------------------------------------------------------------
(* A restore that meets no fault, after a step.                             *)

LEMMA ModesAfter ==
  ASSUME NEW e, Writable(e), NEW mode \in Perf, NEW fan \in Fan,
         \A z \in Zone : e.perf[z] = mode /\ e.fan[z] = fan
  PROVE  HasPerf(e, mode) /\ HasFan(e, fan) /\ (mode = "Custom" => InCustom(e))
<1>1. [perf |-> mode, fan |-> fan] \in Modes(e) BY ModesAre DEF Writable
<1> QED BY <1>1 DEF HasPerf, HasFan, InCustom

LEMMA SameModes ==
  ASSUME NEW d, NEW e, Modes(d) = Modes(e)
  PROVE  /\ \A p : HasPerf(d, p) <=> HasPerf(e, p)
         /\ \A f : HasFan(d, f) <=> HasFan(e, f)
         /\ InCustom(d) <=> InCustom(e)
BY DEF HasPerf, HasFan, InCustom

LEMMA BackBoosts ==
  ASSUME TypeOK, Held, Known, Back, faulty' = FALSE,
         FindsBoosts \/ EntersCustom \/ \E z \in Zone : RestoresBoost(z)
  PROVE  InOrder'
<1>1. Writable(ec) BY DEF TypeOK, Writable
<1>2. problem \in BOOLEAN /\ faulty \in BOOLEAN BY DEF TypeOK
<1>3. CASE FindsBoosts
  <2> DEFINE known == {z \in Zone : snap.boost[z] # None}
  <2>1. PICK read \in SUBSET known :
          /\ todo' = {z \in known : z \in read => ec.boost[z] # snap.boost[z]}
          /\ faulty' = (faulty \/ read # known)
    BY <1>3 DEF FindsBoosts
  <2>2. faulty = FALSE /\ read = known BY <1>2, <2>1, Zenon
  <2>3. pc = "boosts" /\ pc' = "enter" /\ ec' = ec /\ snap' = snap /\ problem' = problem
    BY <1>3 DEF FindsBoosts
  <2>4. problem = FALSE BY <2>2, <2>3 DEF Back, InOrder, Restoring
  <2>5. \A z \in Zone : z \in todo' \/ Boosted(z) BY <2>1, <2>2 DEF Boosted
  <2> QED BY <2>3, <2>4, <2>5 DEF InOrder, Boosted
<1>4. CASE EntersCustom
  <2>1. pc = "enter" /\ snap' = snap /\ todo' = todo BY <1>4 DEF EntersCustom
  <2>2. CASE todo = {} /\ pc' = "perf" /\ Keeps
    <3>1. faulty = FALSE /\ ec' = ec /\ problem' = problem BY <2>2 DEF Keeps
    <3>2. problem = FALSE /\ \A z \in Zone : Boosted(z)
      BY <2>1, <2>2, <3>1 DEF Back, InOrder, Restoring
    <3> QED BY <2>1, <2>2, <3>1, <3>2 DEF InOrder, Boosted
  <2>3. CASE ~(todo = {} /\ pc' = "perf" /\ Keeps)
    <3>1. PICK took \in SUBSET Zone, ok \in BOOLEAN :
            ec' = PutMode(ec, "Custom", "Auto", took) /\ Notes(TRUE, TRUE, Zone, took, ok)
      BY <1>4, <2>3 DEF EntersCustom
    <3>2. pc' = "cpu" BY <1>4, <2>3 DEF EntersCustom
    <3>3. faulty = FALSE /\ took = Zone /\ (problem = FALSE => problem' = FALSE)
      BY <1>2, <3>1, NotesClean
    <3>4. problem = FALSE /\ \A z \in Zone : z \in todo \/ Boosted(z)
      BY <2>1, <3>3 DEF Back, InOrder, Restoring
    <3>5. "Custom" \in Perf /\ "Auto" \in Fan BY DEF Perf, Fan
    <3>6. /\ Writable(ec') /\ ec'.boost = ec.boost
          /\ \A z \in Zone : ec'.perf[z] = "Custom" /\ ec'.fan[z] = "Auto"
      BY <1>1, <3>1, <3>3, <3>5, PutModeOK
    <3>7. InCustom(ec') BY <3>5, <3>6, ModesAfter
    <3> QED BY <2>1, <3>2, <3>3, <3>4, <3>6, <3>7 DEF InOrder, Boosted
  <2> QED BY <2>2, <2>3
<1>5. ASSUME NEW z \in Zone, RestoresBoost(z) PROVE InOrder'
  <2>1. /\ snap' = snap /\ todo' = todo /\ (z = 1 \/ z = 2)
        /\ z = 1 => pc = "cpu" /\ pc' = "gpu"
        /\ z = 2 => pc = "gpu" /\ pc' = "perf"
    BY <1>5 DEF RestoresBoost, Zone
  <2>2. CASE z \notin todo /\ Keeps
    <3>1. faulty = FALSE /\ ec' = ec /\ problem' = problem BY <2>2 DEF Keeps
    <3> QED BY <2>1, <2>2, <3>1 DEF Back, InOrder, Restoring, Boosted, Zone
  <2>3. CASE z \in todo
    <3>1. PICK took \in SUBSET {z}, ok \in BOOLEAN :
            /\ ec' = PutBoosts(ec, snap.boost, took)
            /\ Notes(TRUE, InCustom(ec), {z}, took, ok)
      BY <1>5, <2>3 DEF RestoresBoost
    <3>2. InCustom(ec) \in BOOLEAN BY DEF InCustom
    <3>3. /\ faulty = FALSE
          /\ InCustom(ec) => took = {z} /\ (problem = FALSE => problem' = FALSE)
      BY <1>2, <3>1, <3>2, NotesClean
    <3>4. InOrder BY <2>1, <3>3 DEF Back, Restoring
    <3>5. InCustom(ec) /\ problem = FALSE BY <2>1, <3>4 DEF InOrder
    <3>6. snap \in Snapshot /\ snap.boost[z] # None
      BY <2>1, <2>3 DEF Held, Known, Restoring
    <3>7. snap.boost \in [Zone -> Boost \cup {None}] BY <3>6, SnapshotFields
    <3>8. {z} \in SUBSET Zone /\ \A y \in {z} : snap.boost[y] # None BY <3>6
    <3>9. /\ Modes(ec') = Modes(ec)
          /\ \A y \in Zone : ec'.boost[y] = IF y = z THEN snap.boost[y] ELSE ec.boost[y]
      BY <1>1, <3>1, <3>3, <3>5, <3>7, <3>8, PutBoostsOK
    <3>10. InCustom(ec') BY <3>5, <3>9, SameModes
    <3>11. \A y \in Zone : Boosted(y) \/ y = z => Boosted(y)'
      BY <2>1, <3>9 DEF Boosted
    <3> QED BY <2>1, <3>3, <3>4, <3>5, <3>10, <3>11 DEF InOrder, Zone
  <2> QED BY <1>5, <2>2, <2>3 DEF RestoresBoost
<1> QED BY <1>3, <1>4, <1>5

LEMMA BackModes ==
  ASSUME TypeOK, Held, Back, faulty' = FALSE, RestoresPerf \/ EntersManual
  PROVE  InOrder'
<1>1. Writable(ec) BY DEF TypeOK, Writable
<1>2. problem \in BOOLEAN /\ faulty \in BOOLEAN BY DEF TypeOK
<1>3. snap \in Snapshot BY DEF RestoresPerf, EntersManual, Held
<1>4. snap.perf \in Perf /\ "Auto" \in Fan /\ "Manual" \in Fan
  BY <1>3, SnapshotFields DEF Fan
<1>5. CASE RestoresPerf
  <2>1. pc = "perf" /\ pc' = "manual" /\ snap' = snap BY <1>5 DEF RestoresPerf
  <2>2. CASE HasPerf(ec, snap.perf) /\ Keeps
    <3>1. faulty = FALSE /\ ec' = ec /\ problem' = problem BY <2>2 DEF Keeps
    <3> QED BY <2>1, <2>2, <3>1 DEF Back, InOrder, Restoring, Boosted
  <2>3. CASE ~(HasPerf(ec, snap.perf) /\ Keeps)
    <3>1. PICK read \in BOOLEAN, took \in SUBSET Zone, ok \in BOOLEAN :
            ec' = PutMode(ec, snap.perf, "Auto", took) /\ Notes(read, TRUE, Zone, took, ok)
      BY <1>5, <2>3 DEF RestoresPerf
    <3>2. faulty = FALSE /\ took = Zone /\ (problem = FALSE => problem' = FALSE)
      BY <1>2, <3>1, NotesClean
    <3>3. InOrder BY <2>1, <3>2 DEF Back, Restoring
    <3>4. /\ Writable(ec') /\ ec'.boost = ec.boost
          /\ \A z \in Zone : ec'.perf[z] = snap.perf /\ ec'.fan[z] = "Auto"
      BY <1>1, <1>4, <3>1, <3>2, PutModeOK
    <3>5. HasPerf(ec', snap.perf) BY <1>4, <3>4, ModesAfter
    <3> QED BY <2>1, <3>2, <3>3, <3>4, <3>5 DEF InOrder, Boosted
  <2> QED BY <2>2, <2>3
<1>6. CASE EntersManual
  <2>1. pc = "manual" /\ snap' = snap BY <1>6 DEF EntersManual
  <2>2. CASE ec.rpm = snap.rpm /\ pc' = "fan" /\ Keeps
    <3>1. faulty = FALSE /\ ec' = ec /\ problem' = problem BY <2>2 DEF Keeps
    <3> QED BY <2>1, <2>2, <3>1 DEF Back, InOrder, Restoring, Boosted
  <2>3. CASE ~(ec.rpm = snap.rpm /\ pc' = "fan" /\ Keeps)
    <3>1. PICK read \in BOOLEAN, took \in SUBSET Zone, ok \in BOOLEAN :
            /\ ec' = PutFan(ec, "Manual", took)
            /\ Notes(read, Modes(ec) # {}, Zone, took, ok)
      BY <1>6, <2>3 DEF EntersManual
    <3>2. pc' = "zone1" BY <1>6, <2>3 DEF EntersManual
    <3>3. (Modes(ec) # {}) \in BOOLEAN OBVIOUS
    <3>4. /\ faulty = FALSE
          /\ Modes(ec) # {} => took = Zone /\ (problem = FALSE => problem' = FALSE)
      BY <1>2, <3>1, <3>3, NotesClean
    <3>5. InOrder BY <2>1, <3>4 DEF Back, Restoring
    <3>6. HasPerf(ec, snap.perf) BY <2>1, <3>5 DEF InOrder
    <3>7. PICK m \in Modes(ec) : m.perf = snap.perf BY <3>6 DEF HasPerf
    <3>8. /\ Writable(ec') /\ ec'.boost = ec.boost
          /\ \A z \in Zone : ec'.perf[z] = snap.perf /\ ec'.fan[z] = "Manual"
      BY <1>1, <1>4, <3>1, <3>4, <3>7, PutFanOK
    <3>9. HasPerf(ec', snap.perf) BY <1>4, <3>8, ModesAfter
    <3> QED BY <2>1, <3>2, <3>4, <3>5, <3>7, <3>8, <3>9 DEF InOrder, Boosted
  <2> QED BY <2>2, <2>3
<1> QED BY <1>5, <1>6

LEMMA BackFans ==
  ASSUME TypeOK, Held, Back, faulty' = FALSE,
         RestoresFan \/ RestoresMax \/ \E z \in Zone : RestoresPoint(z)
  PROVE  InOrder'
<1>1. Writable(ec) BY DEF TypeOK, Writable
<1>2. problem \in BOOLEAN /\ faulty \in BOOLEAN BY DEF TypeOK
<1>3. ASSUME NEW z \in Zone, RestoresPoint(z) PROVE InOrder'
  <2>1. /\ snap' = snap /\ (z = 1 \/ z = 2)
        /\ z = 1 => pc = "zone1" /\ pc' = "zone2"
        /\ z = 2 => pc = "zone2" /\ pc' = "fan"
    BY <1>3 DEF RestoresPoint, Zone
  <2>2. PICK took \in SUBSET {z}, ok \in BOOLEAN :
          ec' = PutPoints(ec, snap.rpm, took) /\ Notes(TRUE, TRUE, {z}, took, ok)
    BY <1>3 DEF RestoresPoint
  <2>3. faulty = FALSE /\ took = {z} /\ (problem = FALSE => problem' = FALSE)
    BY <1>2, <2>2, NotesClean
  <2>4. InOrder BY <2>1, <2>3 DEF Back, Restoring
  <2>5. snap \in Snapshot BY <2>1 DEF Held
  <2>6. snap.rpm \in [Zone -> Rpm] /\ {z} \in SUBSET Zone BY <2>5, SnapshotFields
  <2>7. /\ Writable(ec') /\ ec'.boost = ec.boost /\ Modes(ec') = Modes(ec)
        /\ \A y \in Zone : ec'.rpm[y] = IF y = z THEN snap.rpm[y] ELSE ec.rpm[y]
    BY <1>1, <2>2, <2>3, <2>6, PutPointsOK
  <2>8. HasPerf(ec', snap.perf)
    <3>1. HasPerf(ec, snap.perf) BY <2>1, <2>4 DEF InOrder
    <3> QED BY <2>7, <3>1, SameModes
  <2>9. z = 2 => ec'.rpm = snap.rpm
    <3> SUFFICES ASSUME z = 2 PROVE ec'.rpm = snap.rpm OBVIOUS
    <3>1. ec.rpm[1] = snap.rpm[1] BY <2>1, <2>4 DEF InOrder
    <3>2. \A y \in Zone : ec'.rpm[y] = snap.rpm[y] BY <2>7, <3>1 DEF Zone
    <3>3. ec'.rpm \in [Zone -> Rpm] BY <2>7 DEF Writable, EC
    <3>4. /\ ec'.rpm = [y \in Zone |-> ec'.rpm[y]]
          /\ snap.rpm = [y \in Zone |-> snap.rpm[y]]
      BY <2>6, <3>3
    <3>5. [y \in Zone |-> ec'.rpm[y]] = [y \in Zone |-> snap.rpm[y]] BY <3>2
    <3> QED BY <3>4, <3>5
  <2>10. z = 1 => ec'.rpm[1] = snap.rpm[1] BY <2>7
  <2>11. problem' = FALSE /\ \A y \in Zone : Boosted(y)
    BY <2>1, <2>3, <2>4 DEF InOrder
  <2> QED BY <2>1, <2>7, <2>8, <2>9, <2>10, <2>11 DEF InOrder, Boosted
<1>4. CASE RestoresFan
  <2>1. pc = "fan" /\ pc' = "max" /\ snap' = snap BY <1>4 DEF RestoresFan
  <2>2. CASE HasFan(ec, snap.fan) /\ Keeps
    <3>1. faulty = FALSE /\ ec' = ec /\ problem' = problem BY <2>2 DEF Keeps
    <3> QED BY <2>1, <2>2, <3>1 DEF Back, InOrder, Restoring, Boosted
  <2>3. CASE ~(HasFan(ec, snap.fan) /\ Keeps)
    <3>1. PICK read \in BOOLEAN, took \in SUBSET Zone, ok \in BOOLEAN :
            /\ ec' = PutFan(ec, snap.fan, took)
            /\ Notes(read, Modes(ec) # {}, Zone, took, ok)
      BY <1>4, <2>3 DEF RestoresFan
    <3>2. (Modes(ec) # {}) \in BOOLEAN OBVIOUS
    <3>3. /\ faulty = FALSE
          /\ Modes(ec) # {} => took = Zone /\ (problem = FALSE => problem' = FALSE)
      BY <1>2, <3>1, <3>2, NotesClean
    <3>4. InOrder BY <2>1, <3>3 DEF Back, Restoring
    <3>5. HasPerf(ec, snap.perf) BY <2>1, <3>4 DEF InOrder
    <3>6. PICK m \in Modes(ec) : m.perf = snap.perf BY <3>5 DEF HasPerf
    <3>7. snap \in Snapshot BY <2>1 DEF Held
    <3>8. snap.perf \in Perf /\ snap.fan \in Fan BY <3>7, SnapshotFields
    <3>9. /\ Writable(ec') /\ ec'.boost = ec.boost /\ ec'.rpm = ec.rpm
          /\ \A z \in Zone : ec'.perf[z] = snap.perf /\ ec'.fan[z] = snap.fan
      BY <1>1, <3>1, <3>3, <3>6, <3>8, PutFanOK
    <3>10. HasPerf(ec', snap.perf) /\ HasFan(ec', snap.fan) BY <3>8, <3>9, ModesAfter
    <3> QED BY <2>1, <3>3, <3>4, <3>6, <3>9, <3>10 DEF InOrder, Boosted
  <2> QED BY <2>2, <2>3
<1>5. CASE RestoresMax
  <2>1. pc = "max" /\ pc' = "verify" /\ snap' = snap BY <1>5 DEF RestoresMax
  <2>2. CASE snap.max \in {None, ec.max} /\ Keeps
    <3>1. faulty = FALSE /\ ec' = ec /\ problem' = problem BY <2>2 DEF Keeps
    <3> QED BY <2>1, <2>2, <3>1 DEF Back, InOrder, Restoring, Boosted
  <2>3. CASE ~(snap.max \in {None, ec.max} /\ Keeps)
    <3>1. PICK read \in BOOLEAN, took \in SUBSET {1}, ok \in BOOLEAN :
            /\ ec' = PutMax(ec, snap.max, took) /\ snap.max # None
            /\ Notes(read, InCustom(ec), {1}, took, ok)
      BY <1>5, <2>3 DEF RestoresMax
    <3>2. InCustom(ec) \in BOOLEAN BY DEF InCustom
    <3>3. /\ faulty = FALSE
          /\ InCustom(ec) => took = {1} /\ (problem = FALSE => problem' = FALSE)
      BY <1>2, <3>1, <3>2, NotesClean
    <3>4. InOrder BY <2>1, <3>3 DEF Back, Restoring
    <3>5. snap \in Snapshot /\ Shape(snap) BY <2>1 DEF Held
    <3>6. snap.max \in {"Disable", "Enable"} /\ snap.perf = "Custom"
      BY <3>1, <3>5, SnapshotFields DEF Shape
    <3>7. HasPerf(ec, snap.perf) /\ HasFan(ec, snap.fan) BY <2>1, <3>4 DEF InOrder
    <3>8. InCustom(ec) BY <3>6, <3>7 DEF HasPerf, InCustom
    <3>9. took \in SUBSET Zone /\ took # {} BY <3>3, <3>8 DEF Zone
    <3>10. /\ ec'.boost = ec.boost /\ ec'.rpm = ec.rpm /\ Modes(ec') = Modes(ec)
           /\ ec'.max = snap.max
      BY <1>1, <3>1, <3>6, <3>8, <3>9, PutMaxOK
    <3>11. HasPerf(ec', snap.perf) /\ HasFan(ec', snap.fan) BY <3>7, <3>10, SameModes
    <3> QED BY <2>1, <3>3, <3>4, <3>8, <3>10, <3>11 DEF InOrder, Boosted
  <2> QED BY <2>2, <2>3
<1> QED BY <1>3, <1>4, <1>5

LEMMA BackStep ==
  ASSUME TypeOK, Held, Known, Back, Next
  PROVE  Back'
<1> SUFFICES ASSUME pc' \in Restoring, faulty' = FALSE PROVE InOrder' BY DEF Back
<1>1. CASE FindsBoosts \/ EntersCustom \/ \E z \in Zone : RestoresBoost(z) BY <1>1, BackBoosts
<1>2. CASE RestoresPerf \/ EntersManual BY <1>2, BackModes
<1>3. CASE RestoresFan \/ RestoresMax \/ \E z \in Zone : RestoresPoint(z) BY <1>3, BackFans
<1>4. CASE TestsDone \/ RestoreFromFile
  BY <1>4 DEF TestsDone, RestoreFromFile, Fresh, InOrder
<1>5. CASE Verifies BY <1>5 DEF Verifies, Ends, Restoring
<1>6. CASE TakeSnapshot \/ Create \/ Save \/ Cancel \/ RunTest \/ SkipTest \/ UserDeletes
  BY <1>6 DEF TakeSnapshot, Create, Save, Cancel, RunTest, SkipTest, UserDeletes, Restoring
<1>7. CASE RemoveFile \/ Die BY <1>7 DEF RemoveFile, Die, Ends, Restoring
<1> QED BY <1>1, <1>2, <1>3, <1>4, <1>5, <1>6, <1>7 DEF Next, Restore

-----------------------------------------------------------------------------
(* The theorems.                                                            *)

LEMMA IInvStep ==
  ASSUME IInv, [Next]_vars
  PROVE  IInv'
<1>1. CASE Next
  BY <1>1, TypeStep, HeldStep, KnownStep, SweptStep, BackStep DEF IInv
<1>2. CASE UNCHANGED vars
  BY <1>2 DEF vars, IInv, TypeOK, Held, Known, Swept, Back, InOrder, Shape, Restored, Boosted
<1> QED BY <1>1, <1>2

LEMMA Inductive == Spec => []IInv
BY InitInv, IInvStep, PTL DEF Spec

\* Every variable keeps its type and Max Fan is never on outside Custom, for any range of
\* set points and any settings found.
THEOREM TypeCorrect == Spec => []TypeOK
<1>1. IInv => TypeOK BY DEF IInv
<1> QED BY <1>1, Inductive, PTL

\* Whatever the EC refuses, garbles or half takes and whenever the process dies, the recovery
\* file can put back every register that is not as it was found (probe.rs:100-115).
THEOREM RestorableHolds == Spec => []Restorable
<1>1. IInv => Restorable BY NotSnapshots DEF IInv, Held, Restorable
<1> QED BY <1>1, Inductive, PTL

\* No set point is tried outside Balanced and Manual (probe.rs:108-111), for any sweep.
THEOREM SweepsWhereItCountsHolds == Spec => SweepsWhereItCounts
<1> DEFINE There == Modes(ec) = {[perf |-> "Balanced", fan |-> "Manual"]}
<1>1. ASSUME IInv, Next, pc = "test", ec'.rpm # ec.rpm PROVE There
  <2>1. Command \/ ec' = ec
    BY <1>1 DEF Next, Restore, Command, TakeSnapshot, Create, Save, Cancel, SkipTest, TestsDone,
       RestoreFromFile, FindsBoosts, Verifies, RemoveFile, Die, UserDeletes
  <2>2. RunTest BY <1>1, <2>1, CommandFrame
  <2> DEFINE t == Plan[step]
  <2>3. step \in 1 .. Len(Plan) BY <1>1, <2>2 DEF RunTest, IInv, TypeOK
  <2>4. IsTest(t) BY <2>3, PlanTests
  <2>5. PICK took \in SUBSET Zone : ec' = Put(ec, t, took) BY <2>2 DEF RunTest
  <2>6. Writable(ec) BY <1>1 DEF IInv, TypeOK, Writable
  <2>7. CASE t.op = "points"
    <3>1. t.needs = {"Manual"} BY <2>4, <2>7 DEF IsTest
    <3>2. Ready(t) BY <2>2 DEF RunTest
    <3>3. "Manual" \in confirmed BY <3>1, <3>2 DEF Ready
    <3>4. step <= Len(Plan) BY <2>2 DEF RunTest
    <3> QED BY <1>1, <3>3, <3>4 DEF IInv, Swept
  <2>8. CASE t.op # "points"
    <3>1. CASE t.op = "perf" /\ t.arg \in Perf
      <4>1. ec' = PutMode(ec, t.arg, "Auto", took) /\ "Auto" \in Fan
        BY <2>5, <3>1 DEF Put, Fan
      <4> QED BY <1>1, <2>6, <3>1, <4>1, PutModeOK
    <3>2. CASE t.op = "fan" /\ t.arg \in Fan
      <4>1. ec' = PutFan(ec, t.arg, took) BY <2>5, <3>2 DEF Put
      <4> QED BY <1>1, <2>6, <3>2, <4>1, PutFanOK
    <3>3. CASE t.op = "boosts"
      <4>1. ec' = PutBoosts(ec, TestBoosts, took) BY <2>5, <3>3 DEF Put
      <4> QED BY <1>1, <4>1 DEF PutBoosts
    <3>4. CASE t.op = "max" /\ t.arg \in {"Disable", "Enable"}
      <4>1. ec' = PutMax(ec, t.arg, took) BY <2>5, <3>4 DEF Put
      <4> QED BY <1>1, <2>6, <3>4, <4>1, PutMaxOK
    <3> QED BY <2>4, <2>8, <3>1, <3>2, <3>3, <3>4 DEF IsTest
  <2> QED BY <2>7, <2>8
<1>2. IInv /\ [Next]_vars => [pc = "test" /\ ec'.rpm # ec.rpm => There]_vars BY <1>1
<1> QED BY <1>2, Inductive, PTL DEF Spec, SweepsWhereItCounts

\* A restore the EC obeyed finds nothing left to complain of, whatever it started from
\* (probe.rs:253-334).
THEOREM ObedientRestoredHolds == Spec => []ObedientRestored
<1>1. ASSUME IInv, pc = "verify", ~faulty PROVE ~problem /\ ec = before
  <2>1. faulty = FALSE /\ problem \in BOOLEAN
    <3>1. faulty \in BOOLEAN /\ problem \in BOOLEAN BY <1>1 DEF IInv, TypeOK
    <3> QED BY <1>1, <3>1, Zenon
  <2>2. InOrder BY <1>1, <2>1 DEF IInv, Back, Restoring
  <2>3. snap \in Snapshot /\ Shape(snap) /\ file = snap BY <1>1 DEF IInv, Held, Restoring
  <2>4. HasPerf(ec, snap.perf) /\ HasFan(ec, snap.fan) BY <1>1, <2>2 DEF InOrder
  <2>5. Modes(ec) = {[perf |-> snap.perf, fan |-> snap.fan]}
    <3>1. ec \in EC BY <1>1 DEF IInv, TypeOK
    <3>2. PICK m \in Modes(ec) : m.perf = snap.perf BY <2>4 DEF HasPerf
    <3>3. PICK n \in Modes(ec) : n.fan = snap.fan BY <2>4 DEF HasFan
    <3>4. m = n /\ m \in [perf : Perf, fan : Fan] BY <3>1, <3>2, <3>3, ModesAre
    <3>5. m = [perf |-> snap.perf, fan |-> snap.fan] BY <3>2, <3>3, <3>4
    <3>6. \A k \in Modes(ec) : k = m BY <3>1, <3>2, ModesAre
    <3> QED BY <3>2, <3>5, <3>6
  <2>6. Matches(ec, snap) BY <1>1, <2>2, <2>5 DEF InOrder, Boosted, Matches
  <2>7. TypeOK BY <1>1 DEF IInv
  <2>8. Restored(snap) = ec BY <2>3, <2>6, <2>7, MatchesBack
  <2>9. ec = before BY <1>1, <2>3, <2>8 DEF IInv, Held
  <2>10. problem = FALSE BY <2>2 DEF InOrder
  <2>11. ~problem BY <2>10, Zenon
  <2> QED BY <2>9, <2>11
<1>2. IInv => ObedientRestored BY <1>1 DEF ObedientRestored
<1> QED BY <1>2, Inductive, PTL
=============================================================================
