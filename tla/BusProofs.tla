------------------------------- MODULE BusProofs -------------------------------
(***************************************************************************)
(* What holds of Bus for any number of processes, modes, attempts and      *)
(* faults.  The commands are dealt with first, by lemmas on what one job   *)
(* becomes after an exchange; the theorems are inductions over who sent    *)
(* last.  They say which processes may read, write and send raw commands:  *)
(* a second reader takes the first one's answer for its own.               *)
(***************************************************************************)
EXTENDS Bus, TLAPS

OpOf(step) == CASE step = "set" -> {"set", "confirm"} [] step = "get" -> {"read", "confirm"}
                [] step = "raw" -> {"raw"} [] OTHER -> {}

\* A reading has a mode unless it is an error.
Sound(r) == r \in Reading /\ (r.err = "none" => r.mode \in Mode)

\* A job that is under way: its step belongs to its command and nothing has come of it yet.
Underway(j) ==
  /\ j.step # "idle" /\ j.op \in OpOf(j.step) /\ j.outcome = "none" /\ j.mode = NoMode
  /\ j.step = "raw" => j.zone = 1
  /\ j.step = "set" => j.wanted \in Mode
  /\ j.step = "get" /\ j.zone = 2 => Sound(j.first)

\* Which outcomes, with which mode, each command has.
Promises(j, o, m) ==
  /\ o # "none"
  /\ o = "ok" /\ j.op = "confirm" => m = j.wanted
  /\ o = "not_applied" => j.op = "confirm" /\ m # j.wanted
  /\ o = "unconfirmed" => j.op = "confirm"
  /\ o = "diverged" => j.op \in {"read", "confirm"}

\* What a job may be after an exchange of it has ended.
After(j, k) ==
  /\ k \in Job /\ k.sent = FALSE /\ k.op = j.op
  /\ k.step # "idle" => Underway(k) /\ k.wanted = j.wanted
  /\ k.step = "idle" => k.wanted = NoMode /\ Promises(j, k.outcome, k.mode)

\* Outcomes that say which mode was read.
Told == {"ok", "not_applied"}

\* The job after a return.
Returned(j, o, m, k) == After(j, k) /\ k.step = "idle" /\ k.outcome = o /\ k.mode = m

\* The job after another pass over the zones has begun.
Repeats(j, k) == After(j, k) /\ k.step = "get" /\ k.zone = 1 /\ k.outcome = "none"

\* The job after the end of read_zones, which gave r1 and r2.
PassEnded(j, r1, r2, k) ==
  /\ After(j, k)
  /\ k.step = "idle" \/ (k.step = "get" /\ k.zone = 1)
  /\ k.outcome \in Told => /\ r1.err = "none" /\ r2.err = "none"
                           /\ r1.mode = r2.mode /\ k.mode = r1.mode

\* The job after the zone it asked gave r.
ZoneRead(j, r, k) ==
  /\ After(j, k)
  /\ k.step \in {"idle", "get"}
  /\ k.step = "get" /\ k.zone = 2 => j.zone = 1 /\ k.first = r
  /\ k.outcome \in Told => /\ j.zone = 2 /\ j.first.err = "none" /\ r.err = "none"
                           /\ j.first.mode = r.mode /\ k.mode = r.mode

\* The job after an exchange of it has failed for good.
Failed(j, k) ==
  /\ After(j, k) /\ k.outcome \notin Told
  /\ j.step = "get" => k.step \in {"idle", "get"}
  /\ j.step # "get" => k.step = "idle" /\ k.outcome = "error" /\ k.mode = NoMode
  /\ k.step = "get" /\ k.zone = 2 => k.first.err # "none"

\* The job after an attempt that err ended.
Retried(j, err, k) ==
  \/ Failed(j, k)
  \/ /\ After(j, k) /\ k.outcome = "none"
     /\ k.step = j.step /\ k.zone = j.zone /\ k.first = j.first
     /\ j.step = "raw" => err = "busy"

\* The job after it took a for its answer.
Succeeded(j, a, k) ==
  /\ After(j, k)
  /\ j.step = "raw" => k.step = "idle"
  /\ k.step = "set" => j.step = "set" /\ j.zone = 1 /\ k.zone = 2 /\ Echoes(j, a)
  /\ k.step = "get" /\ k.zone = 2 => /\ j.step = "get" /\ j.zone = 1
                                    /\ k.first = [mode |-> a.mode, err |-> "none"]
  /\ k.outcome \in Told /\ k.op \in {"read", "confirm"} =>
       /\ j.step = "get" /\ j.zone = 2 /\ j.first.err = "none"
       /\ j.first.mode = a.mode /\ k.mode = a.mode

-----------------------------------------------------------------------------
(* One job *)

LEMMA IdleType == Idle \in Job
  BY BusAssumption DEF Idle, Job, Zone, Reading, NoReading, Outcome

LEMMA ReturnsFacts ==
  ASSUME NEW j \in Job, NEW o \in Outcome, NEW m \in Mode \cup {NoMode}, Promises(j, o, m)
  PROVE  Returned(j, o, m, Returns(j, o, m))
  <1> DEFINE k == Returns(j, o, m)
  <1>1. Idle.step = "idle" /\ Idle.sent = FALSE /\ Idle.wanted = NoMode
    BY DEF Idle
  <1>2. k \in Job
    BY IdleType DEF Returns, Job
  <1>3. /\ k.op = j.op /\ k.outcome = o /\ k.mode = m
        /\ k.step = Idle.step /\ k.sent = Idle.sent /\ k.wanted = Idle.wanted
    BY IdleType DEF Returns, Job
  <1> HIDE DEF k
  <1>4. Returned(j, o, m, k)
    BY <1>1, <1>2, <1>3 DEF Returned, After
  <1> QED
    BY <1>4 DEF k

LEMMA ExchangeType ==
  ASSUME NEW j \in Job, NEW s \in {"set", "get", "raw"}, NEW z \in Zone
  PROVE  /\ Exchange(j, s, z) \in Job
         /\ Exchange(j, s, z).step = s /\ Exchange(j, s, z).zone = z
         /\ Exchange(j, s, z).sent = FALSE
         /\ Exchange(j, s, z).op = j.op /\ Exchange(j, s, z).wanted = j.wanted
         /\ Exchange(j, s, z).outcome = j.outcome /\ Exchange(j, s, z).mode = j.mode
         /\ z = 1 => Exchange(j, s, z).first = NoReading
         /\ z = 2 => Exchange(j, s, z).first = j.first
  <1>1. 0 \in 0 .. MaxAttempts - 1
    BY BusAssumption
  <1>2. j.first \in Reading /\ NoReading \in Reading
    BY DEF Job, NoReading, Reading
  <1>3. (IF z = 1 THEN NoReading ELSE j.first) \in Reading
    BY <1>2
  <1>4. s \in {"idle", "set", "get", "raw"}
    OBVIOUS
  <1>5. Exchange(j, s, z) \in Job
    BY <1>1, <1>3, <1>4 DEF Exchange, Job
  <1>6. /\ Exchange(j, s, z).step = s /\ Exchange(j, s, z).zone = z
        /\ Exchange(j, s, z).sent = FALSE
        /\ Exchange(j, s, z).op = j.op /\ Exchange(j, s, z).wanted = j.wanted
        /\ Exchange(j, s, z).outcome = j.outcome /\ Exchange(j, s, z).mode = j.mode
        /\ Exchange(j, s, z).first = (IF z = 1 THEN NoReading ELSE j.first)
    BY DEF Exchange, Job
  <1> QED
    BY <1>5, <1>6

\* Another pass over the zones, for get_perf_mode or for confirm_perf_mode.
LEMMA PassFacts ==
  ASSUME NEW j \in Job, Underway(j), j.op \in {"read", "confirm"},
         NEW b \in BOOLEAN, NEW c \in BOOLEAN
  PROVE  Repeats(j, Pass(j, b, c))
  <1> DEFINE e == Exchange(j, "get", 1)
             k == [e EXCEPT !.again = b, !.reread = c]
  <1>1. /\ e \in Job /\ e.step = "get" /\ e.zone = 1 /\ e.sent = FALSE /\ e.op = j.op
        /\ e.wanted = j.wanted /\ e.outcome = j.outcome /\ e.mode = j.mode /\ e.first = NoReading
    BY ExchangeType DEF Zone
  <1> HIDE DEF e
  <1>2. /\ k \in Job /\ k.step = "get" /\ k.zone = 1 /\ k.sent = FALSE /\ k.op = j.op
        /\ k.wanted = j.wanted /\ k.outcome = j.outcome /\ k.mode = j.mode /\ k.first = NoReading
    BY <1>1 DEF Job
  <1> HIDE DEF k
  <1>3. Underway(k)
    BY <1>2 DEF Underway, OpOf
  <1>4. Repeats(j, k)
    BY <1>2, <1>3 DEF Repeats, After, Underway
  <1> QED
    BY <1>4 DEF k, e, Pass

LEMMA ResendAfter ==
  ASSUME NEW j \in Job, Underway(j), j.attempt + 1 < MaxAttempts
  PROVE  LET k == [j EXCEPT !.sent = FALSE, !.attempt = @ + 1]
         IN /\ After(j, k) /\ k.outcome = "none"
            /\ k.step = j.step /\ k.zone = j.zone /\ k.first = j.first
  <1> DEFINE k == [j EXCEPT !.sent = FALSE, !.attempt = @ + 1]
  <1>1. j.attempt + 1 \in 0 .. MaxAttempts - 1
    BY BusAssumption DEF Job
  <1>2. /\ k \in Job /\ k.sent = FALSE /\ k.op = j.op /\ k.step = j.step /\ k.zone = j.zone
        /\ k.first = j.first /\ k.wanted = j.wanted /\ k.outcome = j.outcome
        /\ k.mode = j.mode
    BY <1>1 DEF Job
  <1> HIDE DEF k
  <1>3. Underway(k)
    BY <1>2 DEF Underway
  <1>4. /\ After(j, k) /\ k.outcome = "none"
        /\ k.step = j.step /\ k.zone = j.zone /\ k.first = j.first
    BY <1>2, <1>3 DEF After, Underway
  <1> QED
    BY <1>4 DEF k

\* read_zones and get_perf_mode after zone 2: another pass, or a return.
LEMMA EndsPassFacts ==
  ASSUME NEW j \in Job, Underway(j), j.step = "get", NEW r1, Sound(r1), NEW r2, Sound(r2)
  PROVE  PassEnded(j, r1, r2, EndsPass(j, r1, r2))
  <1> DEFINE k == EndsPass(j, r1, r2)
  <1>0. j.op \in {"read", "confirm"} /\ j.reread \in BOOLEAN
    BY DEF Underway, OpOf, Job
  <1>1. r1.mode \in Mode \cup {NoMode}
    BY DEF Sound, Reading
  <1>2. ASSUME NEW o \in {"unconfirmed", "error", "diverged"}, k = Returns(j, o, NoMode),
               o = "unconfirmed" => j.op = "confirm"
        PROVE  PassEnded(j, r1, r2, k)
    <2>1. o \in Outcome /\ o \notin Told /\ Promises(j, o, NoMode)
      BY <1>0, <1>2 DEF Outcome, Told, Promises
    <2>2. Returned(j, o, NoMode, k)
      BY <1>2, <2>1, ReturnsFacts
    <2> HIDE DEF k
    <2> QED
      BY <2>1, <2>2 DEF Returned, PassEnded
  <1>3. ASSUME r1.err = "none", r2.err = "none", r1.mode = r2.mode,
               NEW o \in Told, Promises(j, o, r1.mode), k = Returns(j, o, r1.mode)
        PROVE  PassEnded(j, r1, r2, k)
    <2>1. Returned(j, o, r1.mode, k)
      BY <1>1, <1>3, ReturnsFacts DEF Outcome, Told
    <2> HIDE DEF k
    <2> QED
      BY <1>3, <2>1 DEF Returned, PassEnded
  <1>4. ASSUME NEW b \in BOOLEAN, NEW c \in BOOLEAN, k = Pass(j, b, c)
        PROVE  PassEnded(j, r1, r2, k)
    <2>1. Repeats(j, k)
      BY <1>0, <1>4, PassFacts
    <2> QED
      BY <2>1 DEF Told, Repeats, PassEnded
  <1>5. CASE r1.err # "none" \/ r2.err # "none"
    <2>1. \/ k = Returns(j, "unconfirmed", NoMode) /\ j.op = "confirm"
          \/ k = Returns(j, "error", NoMode)
      BY <1>5 DEF EndsPass
    <2> QED
      BY <1>2, <2>1
  <1>6. CASE r1.err = "none" /\ r2.err = "none" /\ r1.mode = r2.mode
    <2>1. \/ k = Returns(j, "ok", r1.mode) /\ (j.op = "read" \/ r1.mode = j.wanted)
          \/ k = Returns(j, "not_applied", r1.mode) /\ j.op # "read" /\ r1.mode # j.wanted
          \/ k = Pass(j, FALSE, TRUE)
      BY <1>6 DEF EndsPass, ReadOk
    <2>2. CASE k = Returns(j, "ok", r1.mode) /\ (j.op = "read" \/ r1.mode = j.wanted)
      <3>1. "ok" \in Told /\ Promises(j, "ok", r1.mode)
        BY <2>2 DEF Told, Promises
      <3> QED
        BY <1>3, <1>6, <2>2, <3>1
    <2>3. CASE k = Returns(j, "not_applied", r1.mode) /\ j.op # "read" /\ r1.mode # j.wanted
      <3>1. "not_applied" \in Told /\ Promises(j, "not_applied", r1.mode)
        BY <1>0, <2>3 DEF Told, Promises
      <3> QED
        BY <1>3, <1>6, <2>3, <3>1
    <2> QED
      BY <1>4, <2>1, <2>2, <2>3
  <1>7. CASE r1.err = "none" /\ r2.err = "none" /\ r1.mode # r2.mode
    <2>1. k = Returns(j, "diverged", NoMode) \/ k = Pass(j, TRUE, j.reread)
      BY <1>7 DEF EndsPass
    <2> QED
      BY <1>0, <1>2, <1>4, <2>1
  <1> QED
    BY <1>5, <1>6, <1>7

LEMMA ReadsFacts ==
  ASSUME NEW j \in Job, Underway(j), j.step = "get", NEW r, Sound(r)
  PROVE  ZoneRead(j, r, Reads(j, r))
  <1>1. CASE j.zone = 1
    <2> DEFINE e == Exchange(j, "get", 2)
               k == [e EXCEPT !.first = r]
    <2>1. /\ e \in Job /\ e.step = "get" /\ e.zone = 2 /\ e.sent = FALSE /\ e.op = j.op
          /\ e.wanted = j.wanted /\ e.outcome = j.outcome /\ e.mode = j.mode
      BY ExchangeType DEF Zone
    <2> HIDE DEF e
    <2>2. /\ k \in Job /\ k.step = "get" /\ k.zone = 2 /\ k.sent = FALSE /\ k.op = j.op
          /\ k.wanted = j.wanted /\ k.outcome = j.outcome /\ k.mode = j.mode /\ k.first = r
      BY <2>1 DEF Job, Sound
    <2> HIDE DEF k
    <2>3. Underway(k)
      BY <2>2 DEF Underway
    <2>4. ZoneRead(j, r, k)
      BY <1>1, <2>2, <2>3 DEF Told, ZoneRead, After, Underway
    <2> QED
      BY <1>1, <2>4 DEF Reads, k, e
  <1>2. CASE j.zone = 2
    <2> DEFINE k == EndsPass(j, j.first, r)
    <2>1. PassEnded(j, j.first, r, k)
      BY <1>2, EndsPassFacts DEF Underway
    <2> HIDE DEF k
    <2>2. ZoneRead(j, r, k)
      BY <1>2, <2>1 DEF PassEnded, ZoneRead
    <2> QED
      BY <1>2, <2>2 DEF Reads, k
  <1> QED
    BY <1>1, <1>2 DEF Job, Zone

LEMMA FailsFacts ==
  ASSUME NEW j \in Job, Underway(j), NEW err
  PROVE  Failed(j, Fails(j, err))
  <1> DEFINE k == Fails(j, err)
  <1>1. CASE j.step = "get"
    <2> DEFINE r == [mode |-> NoMode,
                     err |-> IF err = "not_supported" THEN err ELSE "error"]
    <2>1. Sound(r) /\ r.err # "none"
      BY DEF Sound, Reading
    <2>2. k = Reads(j, r)
      BY <1>1 DEF Fails
    <2> HIDE DEF r, k
    <2>3. ZoneRead(j, r, k)
      BY <1>1, <2>1, <2>2, ReadsFacts
    <2> QED
      BY <1>1, <2>1, <2>3 DEF ZoneRead, Failed, k
  <1>2. CASE j.step # "get"
    <2>1. k = Returns(j, "error", NoMode)
      BY <1>2 DEF Fails
    <2> HIDE DEF k
    <2>2. Promises(j, "error", NoMode)
      BY DEF Promises
    <2>3. Returned(j, "error", NoMode, k)
      BY <2>1, <2>2, ReturnsFacts DEF Outcome
    <2> QED
      BY <1>2, <2>3 DEF Returned, Failed, Told, k
  <1> QED
    BY <1>1, <1>2

LEMMA RejectedFacts ==
  ASSUME NEW j \in Job, Underway(j), NEW err
  PROVE  Retried(j, err, Rejected(j, err))
  <1> DEFINE k == Rejected(j, err)
             resent == [j EXCEPT !.sent = FALSE, !.attempt = @ + 1]
  <1>1. \/ k = Fails(j, err)
        \/ /\ k = resent /\ ~(j.attempt + 1 >= MaxAttempts)
           /\ j.step = "raw" => err = "busy"
    BY DEF Rejected
  <1>2. CASE k = Fails(j, err)
    BY <1>2, FailsFacts DEF Retried
  <1>3. CASE k = resent /\ ~(j.attempt + 1 >= MaxAttempts) /\ (j.step = "raw" => err = "busy")
    <2>1. j.attempt + 1 < MaxAttempts
      BY <1>3, BusAssumption DEF Job
    <2>2. /\ After(j, resent) /\ resent.outcome = "none"
          /\ resent.step = j.step /\ resent.zone = j.zone /\ resent.first = j.first
      BY <2>1, ResendAfter
    <2> HIDE DEF k, resent
    <2> QED
      BY <1>3, <2>2 DEF Retried, k
  <1> QED
    BY <1>1, <1>2, <1>3

LEMMA SucceedsFacts ==
  ASSUME NEW j \in Job, Underway(j), NEW a \in Answer, j.step = "get" => a.mode \in Mode
  PROVE  Succeeded(j, a, Succeeds(j, a))
  <1> SUFFICES ASSUME NEW k, k = Succeeds(j, a)
               PROVE  Succeeded(j, a, k)
    OBVIOUS
  <1>1. ASSUME NEW o \in {"ok", "error"}, k = Returns(j, o, NoMode),
               o = "ok" => j.op \notin {"read", "confirm"}
        PROVE  Succeeded(j, a, k)
    <2>1. Promises(j, o, NoMode)
      BY <1>1 DEF Promises
    <2>2. Returned(j, o, NoMode, k)
      BY <1>1, <2>1, ReturnsFacts DEF Outcome
    <2> QED
      BY <1>1, <2>2 DEF Returned, Succeeded, After, Told
  <1>2. CASE j.step = "raw"
    <2>1. j.op = "raw" /\ k = Returns(j, "ok", NoMode)
      BY <1>2 DEF Underway, OpOf, Succeeds
    <2> QED
      BY <1>1, <2>1
  <1>3. CASE j.step = "get"
    <2> DEFINE r == [mode |-> a.mode, err |-> "none"]
    <2>1. Sound(r)
      BY <1>3 DEF Sound, Reading
    <2>2. k = Reads(j, r)
      BY <1>3 DEF Succeeds
    <2>3. ZoneRead(j, r, k)
      BY <1>3, <2>1, <2>2, ReadsFacts
    <2> QED
      BY <1>3, <2>3 DEF ZoneRead, Succeeded
  <1>4. CASE j.step = "set" /\ ~Echoes(j, a)
    <2>1. k = Returns(j, "error", NoMode)
      BY <1>4 DEF Succeeds
    <2> QED
      BY <1>1, <2>1
  <1>5. CASE j.step = "set" /\ Echoes(j, a) /\ j.zone = 2 /\ j.op = "set"
    <2>1. k = Returns(j, "ok", NoMode)
      BY <1>5 DEF Succeeds
    <2> QED
      BY <1>1, <1>5, <2>1
  <1>6. CASE j.step = "set" /\ Echoes(j, a) /\ j.zone = 1
    <2> DEFINE e == Exchange(j, "set", 2)
    <2>1. k = e
      BY <1>6 DEF Succeeds
    <2>2. /\ e \in Job /\ e.step = "set" /\ e.zone = 2 /\ e.sent = FALSE /\ e.op = j.op
          /\ e.wanted = j.wanted /\ e.outcome = j.outcome /\ e.mode = j.mode
      BY ExchangeType DEF Zone
    <2> HIDE DEF e
    <2>3. Underway(k)
      BY <1>6, <2>1, <2>2 DEF Underway
    <2> QED
      BY <1>6, <2>1, <2>2, <2>3 DEF Told, Succeeded, After, Underway
  <1>7. CASE j.step = "set" /\ Echoes(j, a) /\ j.zone = 2 /\ j.op # "set"
    <2> DEFINE e == Exchange(j, "get", 1)
    <2>1. k = e
      BY <1>7 DEF Succeeds
    <2>2. /\ e \in Job /\ e.step = "get" /\ e.zone = 1 /\ e.sent = FALSE /\ e.op = j.op
          /\ e.wanted = j.wanted /\ e.outcome = j.outcome /\ e.mode = j.mode
      BY ExchangeType DEF Zone
    <2> HIDE DEF e
    <2>3. Underway(k)
      BY <1>7, <2>1, <2>2 DEF Underway, OpOf
    <2> QED
      BY <1>7, <2>1, <2>2, <2>3 DEF Told, Succeeded, After, Underway
  <1>8. j.step \in {"set", "get", "raw"} /\ j.zone \in {1, 2}
    BY DEF Underway, Job, Zone
  <1> QED
    BY <1>2, <1>3, <1>4, <1>5, <1>6, <1>7, <1>8

-----------------------------------------------------------------------------
(* One step of the system *)

Running(p) ==
  /\ job[p].step = "idle" => job[p].sent = FALSE
  /\ job[p].step # "idle" => Underway(job[p])
  /\ job[p].op # "none" => \E c \in Calls[p] : c.op = job[p].op

\* A set that the EC acknowledged is still in its zone while it is the last answer.
SlotSound ==
  /\ slot.request.kind = "get" => slot.mode \in Mode
  /\ slot.request.kind = "raw" => slot.request.zone = 1
  /\ slot.request.kind # "set" => slot.request.mode = NoMode
  /\ slot.request.kind = "set" /\ slot.status = "ok" =>
       zone[slot.request.zone] = slot.request.mode \/ slot.request.mode \in Ignored

Base == TypeOK /\ (\A p \in Client : Running(p)) /\ SlotSound

\* Only p's job changes.
Moved(p) == job' \in [Client -> Job] /\ \A q \in Client : q # p => job'[q] = job[q]

\* What the EC may do with the request of p.
EcTook(p) ==
  /\ zone' \in [Zone -> Mode] /\ slot' \in Answer
  /\ held' \in [Client -> SUBSET Mode] /\ ran' \in [Client -> 0..2]
  /\ slot'.request = Asked(job[p])
  /\ slot'.request.kind = "set" /\ slot'.status = "ok" =>
       zone'[slot'.request.zone] = slot'.request.mode \/ slot'.request.mode \in Ignored
  /\ \/ zone' = zone
     \/ /\ job[p].step = "set" /\ job[p].wanted \notin Ignored
        /\ zone' = [zone EXCEPT ![job[p].zone] = job[p].wanted]
  /\ \A q \in Client : q # p \/ job[p].step # "raw" => ran'[q] = ran[q]
  /\ ran'[p] # ran[p] => slot'.status # "busy" /\ (ran[p] = 0 => ran'[p] = 1)
  /\ job[p].step = "raw" /\ slot'.status = "ok" => ran'[p] # 0
  /\ \A q \in Client :
       /\ held'[q] \subseteq held[q] \cup Agreed(zone')
       /\ job[q].step = "get" => Agreed(zone') \subseteq held'[q]
       /\ q # p \/ job[q].step # "get" \/ job[q].zone = 2 => held[q] \subseteq held'[q]
  /\ job[p].step = "get" => zone' = zone /\ slot'.mode = zone[job[p].zone]

LEMMA AskedFacts ==
  ASSUME Base, NEW p \in Client, Busy(p)
  PROVE  /\ Asked(job[p]) \in Request
         /\ Asked(job[p]).kind = job[p].step /\ Asked(job[p]).zone = job[p].zone
         /\ Asked(job[p]).mode = (IF job[p].step = "set" THEN job[p].wanted ELSE NoMode)
  <1>1. /\ job[p].step \in {"set", "get", "raw"} /\ job[p].zone \in Zone
        /\ job[p].wanted \in Mode \cup {NoMode}
    BY DEF Base, TypeOK, Job, Busy
  <1> QED
    BY <1>1 DEF Asked, Request

LEMMA AgreedType ==
  ASSUME NEW z \in [Zone -> Mode]
  PROVE  Agreed(z) \subseteq Mode
  BY DEF Agreed, Zone

LEMMA EcTakesFacts ==
  ASSUME Base, NEW p \in Client, Busy(p), EcTakes(p)
  PROVE  EcTook(p)
  <1> DEFINE r == Asked(job[p])
  <1>1. /\ r \in Request /\ r.kind = job[p].step /\ r.zone = job[p].zone
        /\ r.mode = (IF job[p].step = "set" THEN job[p].wanted ELSE NoMode)
    BY AskedFacts
  <1>2. PICK status, acts :
          /\ status \in Status /\ acts \in Acts(status)
          /\ zone' = IF acts /\ r.kind = "set" /\ r.mode \notin Ignored
                     THEN [zone EXCEPT ![r.zone] = r.mode] ELSE zone
          /\ slot' = [request |-> r, status |-> status,
                      mode |-> IF r.kind = "get" THEN zone[r.zone] ELSE r.mode]
          /\ ran' = IF acts /\ r.kind = "raw"
                    THEN [ran EXCEPT ![p] = IF @ < 2 THEN @ + 1 ELSE @] ELSE ran
          /\ held' = [c \in Client |->
                        IF c = p /\ r.kind = "get" /\ r.zone = 1 THEN Agreed(zone)
                        ELSE IF job[c].step = "get" THEN held[c] \cup Agreed(zone')
                        ELSE held[c]]
    BY DEF EcTakes
  <1>3. acts \in BOOLEAN /\ (status = "ok" => acts = TRUE) /\ (status = "busy" => acts = FALSE)
    BY <1>2 DEF Acts
  <1> HIDE DEF r
  <1>4. /\ zone \in [Zone -> Mode] /\ held \in [Client -> SUBSET Mode]
        /\ ran \in [Client -> 0..2]
    BY DEF Base, TypeOK
  <1>5. r.zone \in Zone /\ r.mode \in Mode \cup {NoMode} /\ (r.kind = "set" => r.mode \in Mode)
    BY <1>1 DEF Request, Base, Running, Underway, Busy
  <1>6. /\ zone' \in [Zone -> Mode]
        /\ zone' = zone \/ (/\ r.kind = "set" /\ r.mode \notin Ignored
                            /\ zone' = [zone EXCEPT ![r.zone] = r.mode])
        /\ r.kind = "get" => zone' = zone
    BY <1>2, <1>4, <1>5
  <1>7. r.kind = "set" /\ status = "ok" => zone'[r.zone] = r.mode \/ r.mode \in Ignored
    BY <1>2, <1>3, <1>4, <1>5
  <1>8. /\ slot' \in Answer /\ slot'.request = r /\ slot'.status = status
        /\ r.kind = "get" => slot'.mode = zone[r.zone]
    <2>1. (IF r.kind = "get" THEN zone[r.zone] ELSE r.mode) \in Mode \cup {NoMode}
      BY <1>4, <1>5
    <2> QED
      BY <1>1, <1>2, <2>1 DEF Answer
  <1>9. /\ ran' \in [Client -> 0..2]
        /\ \A q \in Client : q # p \/ r.kind # "raw" => ran'[q] = ran[q]
        /\ ran'[p] # ran[p] => status # "busy" /\ (ran[p] = 0 => ran'[p] = 1)
        /\ r.kind = "raw" /\ status = "ok" => ran'[p] # 0
    BY <1>2, <1>3, <1>4
  <1>10. /\ held' \in [Client -> SUBSET Mode]
         /\ \A q \in Client :
              /\ held'[q] \subseteq held[q] \cup Agreed(zone')
              /\ job[q].step = "get" => Agreed(zone') \subseteq held'[q]
              /\ q # p \/ job[q].step # "get" \/ job[q].zone = 2 => held[q] \subseteq held'[q]
    <2>1. Agreed(zone) \subseteq Mode /\ Agreed(zone') \subseteq Mode
      BY <1>4, <1>6, AgreedType
    <2>2. held' \in [Client -> SUBSET Mode]
      <3>1. \A c \in Client : held[c] \subseteq Mode
        BY <1>4
      <3> QED
        BY <1>2, <2>1, <3>1
    <2>3. ASSUME NEW q \in Client
          PROVE  /\ held'[q] \subseteq held[q] \cup Agreed(zone')
                 /\ job[q].step = "get" => Agreed(zone') \subseteq held'[q]
                 /\ q # p \/ job[q].step # "get" \/ job[q].zone = 2 => held[q] \subseteq held'[q]
      <3>1. CASE q = p /\ r.kind = "get" /\ r.zone = 1
        BY <1>1, <1>2, <1>6, <3>1
      <3>2. CASE ~(q = p /\ r.kind = "get" /\ r.zone = 1) /\ job[q].step = "get"
        <4>1. held'[q] = held[q] \cup Agreed(zone')
          BY <1>2, <3>2
        <4> QED
          BY <4>1
      <3>3. CASE ~(q = p /\ r.kind = "get" /\ r.zone = 1) /\ job[q].step # "get"
        <4>1. held'[q] = held[q]
          BY <1>2, <3>3
        <4> QED
          BY <3>3, <4>1
      <3> QED
        BY <3>1, <3>2, <3>3
    <2> QED
      BY <2>2, <2>3
  <1> QED
    BY <1>1, <1>6, <1>7, <1>8, <1>9, <1>10 DEF EcTook, r

\* A command that has just begun.
LEMMA BeginFacts ==
  ASSUME Base, NEW p \in Client, Begin(p)
  PROVE  /\ Moved(p) /\ Running(p)' /\ job'[p].zone = 1 /\ job'[p].outcome = "none"
         /\ job'[p].sent = FALSE /\ job'[p].mode = NoMode /\ job'[p].step # "idle"
         /\ \E c \in Calls[p] : job'[p].op = c.op /\ job'[p].wanted = c.mode
         /\ ran' = [ran EXCEPT ![p] = 0] /\ held' = [held EXCEPT ![p] = {}]
         /\ UNCHANGED <<zone, slot, mixed>>
  <1>1. PICK call \in Calls[p] :
          job' = [job EXCEPT ![p] =
                    [Idle EXCEPT !.op = call.op, !.wanted = call.mode,
                                 !.step = CASE call.op \in {"set", "confirm"} -> "set"
                                            [] call.op = "read" -> "get"
                                            [] call.op = "raw" -> "raw"]]
    BY DEF Begin
  <1> DEFINE step == CASE call.op \in {"set", "confirm"} -> "set"
                       [] call.op = "read" -> "get"
                       [] call.op = "raw" -> "raw"
             k == [Idle EXCEPT !.op = call.op, !.wanted = call.mode, !.step = step]
  <1>2. call \in Call
    BY BusAssumption
  <1>3. /\ call.op \in {"set", "read", "confirm", "raw"} /\ call.mode \in Mode \cup {NoMode}
        /\ call.op \in {"set", "confirm"} => call.mode \in Mode
    BY <1>2 DEF Call
  <1>4. step \in {"set", "get", "raw"} /\ call.op \in OpOf(step)
        /\ (step = "set" => call.op \in {"set", "confirm"})
    BY <1>3 DEF OpOf
  <1>5. /\ Idle.zone = 1 /\ Idle.outcome = "none" /\ Idle.sent = FALSE
        /\ Idle.mode = NoMode
    BY DEF Idle
  <1> HIDE DEF step
  <1>6. k \in Job
    BY <1>3, <1>4, IdleType DEF Job
  <1>7. /\ k.op = call.op /\ k.wanted = call.mode /\ k.step = step
        /\ k.zone = Idle.zone /\ k.outcome = Idle.outcome /\ k.sent = Idle.sent
        /\ k.mode = Idle.mode
    BY IdleType DEF Job
  <1>8. job' = [job EXCEPT ![p] = k]
    BY <1>1 DEF step
  <1> HIDE DEF k
  <1>9. job' \in [Client -> Job] /\ job'[p] = k /\ \A q \in Client : q # p => job'[q] = job[q]
    BY <1>6, <1>8 DEF Base, TypeOK
  <1>10. Underway(k)
    BY <1>3, <1>4, <1>5, <1>7 DEF Underway
  <1> QED
    BY <1>1, <1>5, <1>7, <1>9, <1>10 DEF Moved, Running, Underway, Begin

\* A job that waits for its answer.
LEMMA SendFacts ==
  ASSUME Base, NEW p \in Client, Send(p)
  PROVE  /\ Moved(p) /\ EcTook(p) /\ UNCHANGED mixed
         /\ Busy(p) /\ job[p].sent = FALSE /\ job'[p].sent = TRUE
         /\ job'[p].step = job[p].step /\ job'[p].zone = job[p].zone
         /\ job'[p].first = job[p].first /\ job'[p].op = job[p].op
         /\ job'[p].wanted = job[p].wanted /\ job'[p].outcome = job[p].outcome
         /\ job'[p].mode = job[p].mode
  <1> DEFINE k == [job[p] EXCEPT !.sent = TRUE]
  <1>1. job \in [Client -> Job] /\ job[p] \in Job /\ job[p].sent \in BOOLEAN
    BY DEF Base, TypeOK, Job
  <1>2. k \in Job
    BY <1>1 DEF Job
  <1>3. /\ k.sent = TRUE /\ k.step = job[p].step /\ k.zone = job[p].zone
        /\ k.first = job[p].first /\ k.op = job[p].op /\ k.wanted = job[p].wanted
        /\ k.outcome = job[p].outcome /\ k.mode = job[p].mode
    BY <1>1 DEF Job
  <1>4. job' = [job EXCEPT ![p] = k]
    BY DEF Send
  <1> HIDE DEF k
  <1>5. job' \in [Client -> Job] /\ job'[p] = k /\ \A q \in Client : q # p => job'[q] = job[q]
    BY <1>1, <1>2, <1>4
  <1>6. Busy(p) /\ job[p].sent = FALSE /\ EcTook(p) /\ UNCHANGED mixed
    BY <1>1, EcTakesFacts DEF Send
  <1> QED
    BY <1>3, <1>5, <1>6 DEF Moved

\* An attempt that the transport ended.
LEMMA LostFacts ==
  ASSUME Base, NEW p \in Client, Busy(p), job' = [job EXCEPT ![p] = Rejected(@, "transport")]
  PROVE  Moved(p) /\ Retried(job[p], "transport", job'[p])
  <1>1. job \in [Client -> Job] /\ Underway(job[p])
    BY DEF Base, TypeOK, Running, Busy
  <1>2. Retried(job[p], "transport", Rejected(job[p], "transport"))
    BY <1>1, RejectedFacts
  <1>3. Rejected(job[p], "transport") \in Job
    BY <1>2 DEF Retried, Failed, After
  <1> QED
    BY <1>1, <1>2, <1>3 DEF Moved

LEMMA SendFailsFacts ==
  ASSUME Base, NEW p \in Client, SendFails(p)
  PROVE  /\ Moved(p) /\ Retried(job[p], "transport", job'[p]) /\ UNCHANGED mixed
         /\ Busy(p) /\ job[p].sent = FALSE
         /\ EcTook(p) \/ UNCHANGED <<zone, slot, ran, held>>
  <1>1. Busy(p) /\ job[p].sent = FALSE
    BY DEF SendFails, Base, TypeOK, Job
  <1> QED
    BY <1>1, LostFacts, EcTakesFacts DEF SendFails

LEMMA ReceiveFailsFacts ==
  ASSUME Base, NEW p \in Client, ReceiveFails(p)
  PROVE  /\ Moved(p) /\ Retried(job[p], "transport", job'[p])
         /\ Busy(p) /\ job[p].sent = TRUE /\ UNCHANGED <<zone, slot, ran, held, mixed>>
  <1>1. Busy(p) /\ job[p].sent = TRUE
    BY DEF ReceiveFails, Base, TypeOK, Job
  <1> QED
    BY <1>1, LostFacts DEF ReceiveFails

\* The read-back: the last answer is taken for the request's own, or ends the attempt.
LEMMA ReceiveFacts ==
  ASSUME Base, NEW p \in Client, Receive(p)
  PROVE  /\ Moved(p) /\ Busy(p) /\ job[p].sent = TRUE /\ UNCHANGED <<zone, slot, ran, held>>
         /\ \/ /\ slot.request.kind = job[p].step /\ slot.status = "ok"
               /\ Succeeded(job[p], slot, job'[p])
            \/ /\ \E err : /\ Retried(job[p], err, job'[p])
                           /\ err = "busy" => /\ slot.request.kind = job[p].step
                                              /\ slot.status = "busy"
               /\ mixed' = mixed
  <1> DEFINE verdict == Classified(slot, Asked(job[p]))
  <1>1. /\ job \in [Client -> Job] /\ Underway(job[p]) /\ Busy(p) /\ job[p].sent = TRUE
        /\ slot \in Answer /\ slot.status \in Status
    BY DEF Receive, Base, TypeOK, Running, Busy, Job, Answer
  <1>2. /\ verdict \in {"ok", "busy"} => /\ slot.request.kind = job[p].step
                                         /\ slot.status = verdict
    BY <1>1, AskedFacts DEF Classified
  <1>3. CASE verdict = "ok"
    <2>1. job' = [job EXCEPT ![p] = Succeeds(job[p], slot)]
      BY <1>3 DEF Receive
    <2>2. Succeeded(job[p], slot, Succeeds(job[p], slot))
      BY <1>1, <1>2, <1>3, SucceedsFacts DEF Base, SlotSound
    <2>3. Succeeds(job[p], slot) \in Job
      BY <2>2 DEF Succeeded, After
    <2>4. Moved(p) /\ job'[p] = Succeeds(job[p], slot)
      BY <1>1, <2>1, <2>3 DEF Moved
    <2> QED
      BY <1>1, <1>2, <1>3, <2>2, <2>4 DEF Receive
  <1>4. CASE verdict # "ok"
    <2>1. job' = [job EXCEPT ![p] = Rejected(job[p], verdict)]
      BY <1>4 DEF Receive
    <2>2. Retried(job[p], verdict, Rejected(job[p], verdict))
      BY <1>1, RejectedFacts
    <2>3. Rejected(job[p], verdict) \in Job
      BY <2>2 DEF Retried, Failed, After
    <2>4. Moved(p) /\ job'[p] = Rejected(job[p], verdict)
      BY <1>1, <2>1, <2>3 DEF Moved
    <2> QED
      BY <1>1, <1>2, <1>4, <2>2, <2>4 DEF Receive
  <1> QED
    BY <1>3, <1>4

LEMMA KilledFacts ==
  ASSUME Base, NEW p \in Client, Killed(p)
  PROVE  /\ Moved(p) /\ job'[p] = Idle /\ UNCHANGED <<zone, slot, ran, held, mixed>>
  BY IdleType DEF Killed, Moved, Base, TypeOK

-----------------------------------------------------------------------------
(* Base is inductive *)

LEMMA RestRuns ==
  ASSUME Base, NEW p \in Client, Moved(p), Running(p)'
  PROVE  \A q \in Client : Running(q)'
  BY DEF Base, Moved, Running

LEMMA AfterRuns ==
  ASSUME Base, NEW p \in Client, Busy(p), After(job[p], job'[p])
  PROVE  Running(p)'
  BY DEF Base, Running, Busy, After

LEMMA RetriedAfter ==
  ASSUME NEW j, NEW err, NEW k, Retried(j, err, k)
  PROVE  After(j, k)
  BY DEF Retried, Failed

LEMMA EcTookBase ==
  ASSUME Base, NEW p \in Client, Busy(p), EcTook(p)
  PROVE  /\ SlotSound' /\ zone' \in [Zone -> Mode] /\ slot' \in Answer
         /\ held' \in [Client -> SUBSET Mode] /\ ran' \in [Client -> 0..2]
  <1>1. /\ slot'.request.kind = job[p].step /\ slot'.request.zone = job[p].zone
        /\ slot'.request.mode = (IF job[p].step = "set" THEN job[p].wanted ELSE NoMode)
    BY AskedFacts DEF EcTook
  <1>2. job[p].step = "raw" => job[p].zone = 1
    BY DEF Base, Running, Underway, Busy
  <1>3. job[p].step = "get" => slot'.mode \in Mode
    BY DEF EcTook, Base, TypeOK, Job
  <1> QED
    BY <1>1, <1>2, <1>3 DEF EcTook, SlotSound

LEMMA BaseNext ==
  ASSUME Base, [Next]_vars
  PROVE  Base'
  <1>1. CASE UNCHANGED vars
    BY <1>1 DEF vars, Base, TypeOK, Running, SlotSound
  <1>2. ASSUME NEW p \in Client, Begin(p)
        PROVE  Base'
    <2>1. ran \in [Client -> 0..2] /\ held \in [Client -> SUBSET Mode]
      BY DEF Base, TypeOK
    <2>2. ran' = [ran EXCEPT ![p] = 0] /\ held' = [held EXCEPT ![p] = {}]
      BY <1>2, BeginFacts
    <2>3. ran' \in [Client -> 0..2] /\ held' \in [Client -> SUBSET Mode]
      BY <2>1, <2>2
    <2> QED
      BY <1>2, <2>3, BeginFacts, RestRuns DEF Moved, Base, TypeOK, SlotSound
  <1>3. ASSUME NEW p \in Client, Send(p)
        PROVE  Base'
    <2>1. Underway(job[p]) /\ (job[p].op # "none" => \E c \in Calls[p] : c.op = job[p].op)
      BY <1>3, SendFacts DEF Base, Running, Busy
    <2>2. /\ job'[p].step = job[p].step /\ job'[p].zone = job[p].zone
          /\ job'[p].first = job[p].first /\ job'[p].op = job[p].op
          /\ job'[p].wanted = job[p].wanted /\ job'[p].outcome = job[p].outcome
          /\ job'[p].mode = job[p].mode
      BY <1>3, SendFacts
    <2>3. Running(p)'
      BY <2>1, <2>2 DEF Running, Underway
    <2> QED
      BY <1>3, <2>3, SendFacts, EcTookBase, RestRuns DEF Moved, Base, TypeOK
  <1>4. ASSUME NEW p \in Client, SendFails(p)
        PROVE  Base'
    <2>1. Running(p)'
      BY <1>4, SendFailsFacts, RetriedAfter, AfterRuns
    <2>2. CASE EcTook(p)
      BY <1>4, <2>1, <2>2, SendFailsFacts, EcTookBase, RestRuns DEF Moved, Base, TypeOK
    <2>3. CASE UNCHANGED <<zone, slot, ran, held>>
      BY <1>4, <2>1, <2>3, SendFailsFacts, RestRuns DEF Moved, Base, TypeOK, SlotSound
    <2> QED
      BY <1>4, <2>2, <2>3, SendFailsFacts
  <1>5. ASSUME NEW p \in Client, Receive(p)
        PROVE  Base'
    <2>1. After(job[p], job'[p])
      BY <1>5, ReceiveFacts, RetriedAfter DEF Succeeded
    <2>2. Running(p)'
      BY <1>5, <2>1, ReceiveFacts, AfterRuns
    <2>3. mixed' \subseteq Client
      BY <1>5 DEF Receive, Base, TypeOK
    <2> QED
      BY <1>5, <2>2, <2>3, ReceiveFacts, RestRuns DEF Moved, Base, TypeOK, SlotSound
  <1>6. ASSUME NEW p \in Client, ReceiveFails(p)
        PROVE  Base'
    <2>1. Running(p)'
      BY <1>6, ReceiveFailsFacts, RetriedAfter, AfterRuns
    <2> QED
      BY <1>6, <2>1, ReceiveFailsFacts, RestRuns DEF Moved, Base, TypeOK, SlotSound
  <1>7. ASSUME NEW p \in Client, Killed(p)
        PROVE  Base'
    <2>1. Running(p)'
      BY <1>7, KilledFacts DEF Idle, Running
    <2> QED
      BY <1>7, <2>1, KilledFacts, RestRuns DEF Moved, Base, TypeOK, SlotSound
  <1> QED
    BY <1>1, <1>2, <1>3, <1>4, <1>5, <1>6, <1>7 DEF Next

LEMMA BaseInit ==
  ASSUME Init
  PROVE  Base
  <1>1. slot \in Answer /\ slot.request = NoAnswer.request /\ slot.status = "undocumented"
    BY DEF Init, NoAnswer, Answer, Request, Zone, Status
  <1>2. NoAnswer.request.kind = "raw" /\ NoAnswer.request.zone = 1 /\ NoAnswer.request.mode = NoMode
    BY DEF NoAnswer
  <1>3. SlotSound
    BY <1>1, <1>2 DEF SlotSound
  <1>4. \A p \in Client : job[p] = Idle
    BY DEF Init
  <1>5. \A p \in Client : Running(p)
    BY <1>4 DEF Running, Idle
  <1>6. TypeOK
    BY <1>1, IdleType DEF Init, TypeOK
  <1> QED
    BY <1>3, <1>5, <1>6 DEF Base

THEOREM BaseInvariant == Spec => []Base
  <1> QED
    BY BaseInit, BaseNext, PTL DEF Spec

\* Every variable has its type, so no exchange is ever past its last attempt, whatever the
\* EC, the transport and the other processes do.
THEOREM TypeCorrect == Spec => []TypeOK
  <1>1. Base => TypeOK
    BY DEF Base
  <1> QED
    BY <1>1, BaseInvariant, PTL

-----------------------------------------------------------------------------
(* A single-shot command *)

\* At most one process sends raw commands.
OneRawSender ==
  \A p, q \in Client : (\E c \in Calls[p] : c.op = "raw") /\ (\E c \in Calls[q] : c.op = "raw")
                        => p = q

\* Once the EC has acted, the command only waits for an answer that ends it: the answer
\* cannot be Busy, and whatever answer took its place is not one to this command.  An answer
\* that it was done is given only when it was.
RawInv ==
  \A p \in Client :
    /\ ran[p] < 2
    /\ job[p].step = "raw" /\ ran[p] # 0 =>
         job[p].sent = TRUE /\ (slot.request.kind = "raw" => slot.status # "busy")
    /\ job[p].step = "raw" /\ job[p].sent = TRUE /\ slot.request.kind = "raw" /\ slot.status = "ok"
         => ran[p] # 0

LEMMA RawSender ==
  ASSUME Base, NEW p \in Client, job[p].step = "raw"
  PROVE  \E c \in Calls[p] : c.op = "raw"
  BY DEF Base, Running, Underway, OpOf

LEMMA EcTookRaw ==
  ASSUME Base, RawInv, OneRawSender, NEW p \in Client, Busy(p), job[p].sent = FALSE, EcTook(p)
  PROVE  /\ \A q \in Client : ran'[q] < 2
         /\ ran'[p] # 0 /\ job[p].step = "raw" => slot'.status # "busy"
         /\ job[p].step = "raw" /\ slot'.status = "ok" => ran'[p] # 0
         /\ \A q \in Client : q # p /\ job[q].step = "raw" =>
              slot'.request.kind # "raw" /\ (ran'[q] # 0 => job[q].sent = TRUE)
  <1>1. slot'.request.kind = job[p].step
    BY AskedFacts DEF EcTook
  <1>2. job[p].step = "raw" => ran[p] = 0
    BY DEF RawInv
  <1>3. ASSUME NEW q \in Client, q # p, job[q].step = "raw"
        PROVE  job[p].step # "raw"
    BY <1>3, RawSender DEF OneRawSender
  <1> QED
    BY <1>1, <1>2, <1>3 DEF EcTook, RawInv

\* An attempt that did not succeed repeats a raw command only after Busy.
LEMMA RetriedRaw ==
  ASSUME NEW j, NEW err, NEW k, Retried(j, err, k)
  PROVE  k.step = "raw" => j.step = "raw" /\ err = "busy"
  BY DEF Retried, Failed

LEMMA RawNext ==
  ASSUME Base, RawInv, OneRawSender, [Next]_vars
  PROVE  RawInv'
  <1>0. \A p \in Client : Busy(p) => job[p] \in Job /\ Underway(job[p])
    BY DEF Base, TypeOK, Running, Busy
  <1>1. CASE UNCHANGED vars
    BY <1>1 DEF vars, RawInv
  <1>2. ASSUME NEW p \in Client, Begin(p)
        PROVE  RawInv'
    <2>1. ran \in [Client -> 0..2] /\ ran' = [ran EXCEPT ![p] = 0] /\ slot' = slot
      BY <1>2, BeginFacts DEF Base, TypeOK
    <2>2. ran'[p] = 0 /\ \A q \in Client : q # p => ran'[q] = ran[q]
      BY <2>1
    <2>3. job'[p].sent = FALSE /\ \A q \in Client : q # p => job'[q] = job[q]
      BY <1>2, BeginFacts DEF Moved
    <2> QED
      BY <2>1, <2>2, <2>3 DEF RawInv
  <1>3. ASSUME NEW p \in Client, Send(p)
        PROVE  RawInv'
    BY <1>3, SendFacts, EcTookRaw DEF Moved, RawInv
  <1>4. ASSUME NEW p \in Client, SendFails(p)
        PROVE  RawInv'
    <2>0. Retried(job[p], "transport", job'[p])
      BY <1>4, SendFailsFacts
    <2>1. job'[p].step # "raw"
      BY <2>0, RetriedRaw
    <2>2. CASE EcTook(p)
      BY <1>4, <2>1, <2>2, SendFailsFacts, EcTookRaw DEF Moved, RawInv
    <2>3. CASE UNCHANGED <<zone, slot, ran, held>>
      BY <1>4, <2>1, <2>3, SendFailsFacts DEF Moved, RawInv
    <2> QED
      BY <1>4, <2>2, <2>3, SendFailsFacts
  <1>5. ASSUME NEW p \in Client, Receive(p)
        PROVE  RawInv'
    <2>1. job'[p].step = "raw" => ran[p] = 0
      <3>1. CASE Succeeded(job[p], slot, job'[p])
        <4>1. After(job[p], job'[p])
          BY <3>1 DEF Succeeded
        <4>2. job'[p].step # "raw"
          BY <1>0, <1>5, <3>1, <4>1, ReceiveFacts DEF Succeeded, After, Underway, OpOf, Job
        <4> QED
          BY <4>2
      <3>2. ASSUME NEW err, Retried(job[p], err, job'[p]),
                   err = "busy" => slot.request.kind = job[p].step /\ slot.status = "busy"
            PROVE  job'[p].step = "raw" => ran[p] = 0
        <4>1. job'[p].step = "raw" => job[p].step = "raw" /\ err = "busy"
          BY <3>2, RetriedRaw
        <4> QED
          BY <3>2, <4>1 DEF RawInv
      <3> QED
        BY <1>5, <3>1, <3>2, ReceiveFacts
    <2>2. After(job[p], job'[p])
      BY <1>5, ReceiveFacts, RetriedAfter DEF Succeeded
    <2>3. job'[p].sent = FALSE
      BY <2>2 DEF After
    <2> QED
      BY <1>5, <2>1, <2>3, ReceiveFacts DEF Moved, RawInv
  <1>6. ASSUME NEW p \in Client, ReceiveFails(p)
        PROVE  RawInv'
    <2>0. Retried(job[p], "transport", job'[p])
      BY <1>6, ReceiveFailsFacts
    <2>1. job'[p].step # "raw"
      BY <2>0, RetriedRaw
    <2> QED
      BY <1>6, <2>1, ReceiveFailsFacts DEF Moved, RawInv
  <1>7. ASSUME NEW p \in Client, Killed(p)
        PROVE  RawInv'
    <2>1. job'[p].step # "raw"
      BY <1>7, KilledFacts DEF Idle
    <2> QED
      BY <1>7, <2>1, KilledFacts DEF Moved, RawInv
  <1> QED
    BY <1>1, <1>2, <1>3, <1>4, <1>5, <1>6, <1>7 DEF Next

\* However many processes share the EC, however often it answers Busy, fails or is not heard:
\* it acts on a command of send_once at most once, if no other process sends raw commands.
THEOREM OnceActsOnceHolds ==
  ASSUME OneRawSender
  PROVE  Spec => []OnceActsOnce
  <1>1. Init => RawInv
    BY DEF Init, Idle, RawInv
  <1>2. Base /\ RawInv /\ [Next]_vars => RawInv'
    BY RawNext
  <1>3. RawInv => OnceActsOnce
    BY DEF RawInv, OnceActsOnce
  <1> QED
    BY <1>1, <1>2, <1>3, BaseInvariant, PTL DEF Spec

-----------------------------------------------------------------------------
(* Whose answer it is *)

Does(p, ops) == \E c \in Calls[p] : c.op \in ops
OneReader(r) == \A p \in Client : Does(p, {"read", "confirm"}) => p = r

\* An answer to a read, while the reader waits for one, is to the zone it asked.
Own(r) ==
  job[r].step = "get" /\ job[r].sent = TRUE /\ slot.request.kind = "get"
    => slot.request.zone = job[r].zone

LEMMA Reader ==
  ASSUME Base, NEW r \in Client, OneReader(r), NEW p \in Client, job[p].step = "get"
  PROVE  p = r
  BY DEF Base, Running, Underway, OpOf, OneReader, Does

LEMMA EcTookOwn ==
  ASSUME Base, NEW r \in Client, OneReader(r), Own(r), NEW p \in Client, Busy(p), EcTook(p)
  PROVE  job[r].step = "get" /\ slot'.request.kind = "get" => slot'.request.zone = job[r].zone
  BY AskedFacts, Reader DEF EcTook

LEMMA OwnNext ==
  ASSUME Base, NEW r \in Client, OneReader(r), Own(r), [Next]_vars
  PROVE  Own(r)'
  <1>1. CASE UNCHANGED vars
    BY <1>1 DEF vars, Own
  <1>2. ASSUME NEW p \in Client, Begin(p)
        PROVE  Own(r)'
    BY <1>2, BeginFacts DEF Moved, Own
  <1>3. ASSUME NEW p \in Client, Send(p)
        PROVE  Own(r)'
    <2>1. job'[r].step = job[r].step /\ job'[r].zone = job[r].zone
      BY <1>3, SendFacts DEF Moved
    <2> QED
      BY <1>3, <2>1, SendFacts, EcTookOwn DEF Own
  <1>4. ASSUME NEW p \in Client, SendFails(p)
        PROVE  Own(r)'
    <2>1. job'[p].sent = FALSE
      BY <1>4, SendFailsFacts, RetriedAfter DEF After
    <2>2. CASE EcTook(p)
      BY <1>4, <2>1, <2>2, SendFailsFacts, EcTookOwn DEF Moved, Own
    <2>3. CASE UNCHANGED <<zone, slot, ran, held>>
      BY <1>4, <2>1, <2>3, SendFailsFacts DEF Moved, Own
    <2> QED
      BY <1>4, <2>2, <2>3, SendFailsFacts
  <1>5. ASSUME NEW p \in Client, Receive(p)
        PROVE  Own(r)'
    <2>0. After(job[p], job'[p])
      BY <1>5, ReceiveFacts, RetriedAfter DEF Succeeded
    <2>1. job'[p].sent = FALSE
      BY <2>0 DEF After
    <2> QED
      BY <1>5, <2>1, ReceiveFacts DEF Moved, Own
  <1>6. ASSUME NEW p \in Client, ReceiveFails(p)
        PROVE  Own(r)'
    <2>0. After(job[p], job'[p])
      BY <1>6, ReceiveFailsFacts, RetriedAfter
    <2>1. job'[p].sent = FALSE
      BY <2>0 DEF After
    <2> QED
      BY <1>6, <2>1, ReceiveFailsFacts DEF Moved, Own
  <1>7. ASSUME NEW p \in Client, Killed(p)
        PROVE  Own(r)'
    <2>1. job'[p].step # "get"
      BY <1>7, KilledFacts DEF Idle
    <2> QED
      BY <1>7, <2>1, KilledFacts DEF Moved, Own
  <1> QED
    BY <1>1, <1>2, <1>3, <1>4, <1>5, <1>6, <1>7 DEF Next

LEMMA RequestEqual ==
  ASSUME NEW a \in Request, NEW b \in Request,
         a.kind = b.kind, a.zone = b.zone, a.mode = b.mode
  PROVE  a = b
  BY DEF Request

LEMMA MixedNext ==
  ASSUME Base, NEW r \in Client, OneReader(r), Own(r), GenuineSuccess, [Next]_vars
  PROVE  GenuineSuccess'
  <1>1. ASSUME NEW p \in Client, Receive(p)
        PROVE  GenuineSuccess'
    <2> SUFFICES ASSUME slot.request.kind = job[p].step,
                        job[p].step = "set" => Echoes(job[p], slot)
                 PROVE  slot.request = Asked(job[p])
      BY <1>1, AskedFacts DEF Receive, Classified, GenuineSuccess
    <2>1. Busy(p) /\ job[p].sent = TRUE
      BY <1>1, ReceiveFacts
    <2>2. /\ Asked(job[p]) \in Request /\ slot.request \in Request
          /\ Asked(job[p]).kind = job[p].step /\ Asked(job[p]).zone = job[p].zone
          /\ Asked(job[p]).mode = (IF job[p].step = "set" THEN job[p].wanted ELSE NoMode)
      BY <2>1, AskedFacts DEF Base, TypeOK, Answer
    <2>3. slot.request.zone = job[p].zone
      <3>1. CASE job[p].step = "set"
        BY <3>1 DEF Echoes
      <3>2. CASE job[p].step = "get"
        BY <2>1, <3>2, Reader DEF Own
      <3>3. CASE job[p].step = "raw"
        BY <3>3, <2>1 DEF Base, SlotSound, Running, Underway
      <3> QED
        BY <2>1, <3>1, <3>2, <3>3 DEF Base, TypeOK, Job, Busy
    <2>4. slot.request.mode = Asked(job[p]).mode
      BY <2>2 DEF Echoes, Base, SlotSound
    <2> QED
      BY <2>2, <2>3, <2>4, RequestEqual
  <1> QED
    BY <1>1, BeginFacts, SendFacts, SendFailsFacts, ReceiveFailsFacts, KilledFacts
       DEF Next, vars, GenuineSuccess

\* With one process that reads the perf mode, whoever else writes, every answer that a request
\* is given is its own, although only the command of an answer is compared.
THEOREM GenuineSuccessHolds ==
  ASSUME NEW r \in Client, OneReader(r)
  PROVE  Spec => []GenuineSuccess
  <1>1. Init => Own(r) /\ GenuineSuccess
    BY DEF Init, Own, Idle, GenuineSuccess
  <1>2. Base /\ Own(r) /\ GenuineSuccess /\ [Next]_vars => Own(r)' /\ GenuineSuccess'
    BY OwnNext, MixedNext
  <1> QED
    BY <1>1, <1>2, BaseInvariant, PTL DEF Spec

-----------------------------------------------------------------------------
(* What a read returns *)

OneOtherWriter(r, w) == \A p \in Client : Does(p, {"set", "confirm"}) => p \in {r, w}

Setting2(p, m) == job[p].step = "set" /\ job[p].zone = 2 /\ job[p].wanted = m

\* m, which zone 1 answered, was in both zones since; or zone 2 can come to it only by a
\* write that finds it in zone 1.
Before(r, m) ==
  \/ m \in held[r]
  \/ /\ zone[2] # m
     /\ \A p \in Client : Setting2(p, m) => zone[1] = m \/ m \in Ignored

Pending(r) == job[r].step = "get" /\ job[r].sent = TRUE /\ slot.request.kind = "get"
Half(r) == job[r].step = "get" /\ job[r].zone = 2 /\ job[r].first.err = "none"

ReadInv(r) ==
  /\ Pending(r) /\ job[r].zone = 1 => Before(r, slot.mode)
  /\ Half(r) => Before(r, job[r].first.mode)
  /\ Half(r) /\ Pending(r) /\ slot.mode = job[r].first.mode => slot.mode \in held[r]
  /\ job[r].outcome \in Told /\ job[r].op \in {"read", "confirm"} => job[r].mode \in held[r]

\* The request of p is taken while r reads, and m stays as it was.
LEMMA BeforeTaken ==
  ASSUME Base, NEW r \in Client, NEW w \in Client, OneOtherWriter(r, w),
         NEW p \in Client, Busy(p), Moved(p), EcTook(p), job[r].step = "get",
         p = r => job[r].zone = 2,
         \A m : Setting2(p, m)' => Setting2(p, m),
         NEW m, Before(r, m)
  PROVE  Before(r, m)'
  <1>1. held[r] \subseteq held'[r] /\ Agreed(zone') \subseteq held'[r]
    BY DEF EcTook
  <1>2. ASSUME NEW q \in Client, Setting2(q, m)'
        PROVE  Setting2(q, m)
    BY <1>2 DEF Moved, Setting2
  <1>3. CASE m \in held[r] \/ zone' = zone
    BY <1>1, <1>2, <1>3 DEF Before
  <1>4. CASE m \notin held[r] /\ zone' # zone
    <2>1. /\ zone[2] # m
          /\ \A q \in Client : Setting2(q, m) => zone[1] = m \/ m \in Ignored
      BY <1>4 DEF Before
    <2>2. /\ job[p].step = "set" /\ job[p].wanted \notin Ignored
          /\ zone' = [zone EXCEPT ![job[p].zone] = job[p].wanted]
      BY <1>4 DEF EcTook
    <2>3. zone \in [Zone -> Mode] /\ job[p].zone \in {1, 2}
      BY DEF Base, TypeOK, Job, Zone
    <2>4. ASSUME NEW q \in Client, job[q].step = "set"
          PROVE  q = w
      BY <2>4 DEF Base, Running, Underway, OpOf, OneOtherWriter, Does
    <2>5. p = w
      BY <2>2, <2>4
    <2>6. ASSUME NEW q \in Client, Setting2(q, m)'
          PROVE  Setting2(p, m)
      BY <1>2, <2>4, <2>5, <2>6 DEF Setting2
    <2>7. CASE job[p].zone = 1
      <3>1. zone'[2] = zone[2]
        BY <2>2, <2>3, <2>7 DEF Zone
      <3>2. ~Setting2(p, m)
        BY <2>7 DEF Setting2
      <3> QED
        BY <2>1, <2>6, <3>1, <3>2 DEF Before
    <2>8. CASE job[p].zone = 2 /\ job[p].wanted # m
      <3>1. zone'[2] # m
        BY <2>2, <2>3, <2>8 DEF Zone
      <3>2. ~Setting2(p, m)
        BY <2>8 DEF Setting2
      <3> QED
        BY <2>6, <3>1, <3>2 DEF Before
    <2>9. CASE job[p].zone = 2 /\ job[p].wanted = m
      <3>1. zone[1] = m
        BY <2>1, <2>2, <2>9 DEF Setting2
      <3>2. zone'[1] = m /\ zone'[2] = m
        BY <2>2, <2>3, <2>9, <3>1 DEF Zone
      <3> QED
        BY <1>1, <3>2 DEF Agreed, Before
    <2> QED
      BY <2>3, <2>7, <2>8, <2>9
  <1> QED
    BY <1>3, <1>4

LEMMA BeforeRests ==
  ASSUME NEW r \in Client, NEW p \in Client, Moved(p), zone' = zone, held'[r] = held[r],
         \A m : Setting2(p, m)' => Setting2(p, m) \/ zone[1] = m \/ m \in Ignored,
         NEW m, Before(r, m)
  PROVE  Before(r, m)'
  <1>1. ASSUME NEW q \in Client, Setting2(q, m)'
        PROVE  Setting2(q, m) \/ zone[1] = m \/ m \in Ignored
    BY <1>1 DEF Moved, Setting2
  <1> QED
    BY <1>1 DEF Before

\* A job that is tried again sets what it set.
LEMMA RetriedSets ==
  ASSUME NEW p \in Client, NEW err, Retried(job[p], err, job'[p])
  PROVE  \A m : Setting2(p, m)' => Setting2(p, m)
  BY DEF Retried, Failed, After, Setting2

\* What another process does leaves the reader's claim true.
LEMMA OtherTakes ==
  ASSUME Base, NEW r \in Client, NEW w \in Client, OneReader(r), OneOtherWriter(r, w), ReadInv(r),
         NEW p \in Client, p # r, Busy(p), Moved(p), EcTook(p),
         \A m : Setting2(p, m)' => Setting2(p, m)
  PROVE  ReadInv(r)'
  <1>1. job'[r] = job[r] /\ held[r] \subseteq held'[r]
    BY DEF Moved, EcTook
  <1>2. job[r].step = "get" => slot'.request.kind # "get"
    BY AskedFacts, Reader DEF EcTook
  <1>3. ASSUME Half(r)
        PROVE  Before(r, job[r].first.mode)'
    BY <1>3, <1>1, BeforeTaken DEF Half, ReadInv
  <1> QED
    BY <1>1, <1>2, <1>3 DEF ReadInv, Pending, Half

LEMMA OtherRests ==
  ASSUME NEW r \in Client, ReadInv(r), NEW p \in Client, p # r, Moved(p),
         zone' = zone, slot' = slot, held'[r] = held[r],
         \A m : Setting2(p, m)' => Setting2(p, m) \/ zone[1] = m \/ m \in Ignored
  PROVE  ReadInv(r)'
  <1>1. job'[r] = job[r]
    BY DEF Moved
  <1>2. \A m : Before(r, m) => Before(r, m)'
    BY BeforeRests
  <1> QED
    BY <1>1, <1>2 DEF ReadInv, Pending, Half

\* The reader's own attempt fails.
LEMMA ReaderRetries ==
  ASSUME NEW r \in Client, ReadInv(r), NEW err, Retried(job[r], err, job'[r]),
         Half(r) => \A m : Before(r, m) => Before(r, m)'
  PROVE  ReadInv(r)'
  <1>1. job'[r].sent = FALSE /\ job'[r].outcome \notin Told
    BY DEF Retried, Failed, After, Told
  <1>2. Half(r)' => Half(r) /\ job'[r].first = job[r].first
    BY DEF Half, Retried, Failed
  <1> QED
    BY <1>1, <1>2 DEF ReadInv, Pending

\* The reader asks a zone, and the EC holds its answer.
LEMMA ReaderSends ==
  ASSUME Base, NEW r \in Client, NEW w \in Client, OneReader(r), OneOtherWriter(r, w), ReadInv(r),
         Send(r)
  PROVE  ReadInv(r)'
  <1>1. /\ Moved(r) /\ EcTook(r) /\ Busy(r) /\ job'[r].step = job[r].step
        /\ job'[r].zone = job[r].zone /\ job'[r].first = job[r].first
        /\ job'[r].wanted = job[r].wanted /\ job'[r].outcome = "none"
    BY SendFacts DEF Base, Running, Underway, Busy
  <1>2. CASE job[r].step # "get"
    BY <1>1, <1>2 DEF Told, ReadInv, Pending, Half
  <1>3. CASE job[r].step = "get"
    <2>1. /\ zone' = zone /\ slot'.mode = zone[job[r].zone] /\ Agreed(zone) \subseteq held'[r]
      BY <1>1, <1>3 DEF EcTook
    <2>2. \A q \in Client : \A m : Setting2(q, m)' => Setting2(q, m)
      BY <1>1 DEF Moved, Setting2
    <2>3. CASE job[r].zone = 1
      <3>1. Before(r, zone[1])'
        BY <2>1, <2>2 DEF Agreed, Before
      <3> QED
        BY <1>1, <2>1, <2>3, <3>1 DEF Told, ReadInv, Half
    <2>4. CASE job[r].zone = 2
      <3>1. Half(r)' => Half(r) /\ Before(r, job[r].first.mode)
        BY <1>1 DEF Half, ReadInv
      <3>2. Half(r)' => Before(r, job[r].first.mode)'
        BY <1>1, <1>3, <2>2, <2>4, <3>1, BeforeTaken
      <3>3. Half(r)' /\ slot'.mode = job[r].first.mode => slot'.mode \in held'[r]
        <4>1. held[r] \subseteq held'[r]
          BY <1>1, <2>4 DEF EcTook
        <4> QED
          BY <2>1, <2>4, <3>1, <4>1 DEF Before
      <3> QED
        BY <1>1, <2>4, <3>2, <3>3 DEF Told, ReadInv, Pending
    <2> QED
      BY <2>3, <2>4 DEF Base, TypeOK, Job, Zone
  <1> QED
    BY <1>2, <1>3

\* The reader takes an answer: of zone 1, it is the claim; of zone 2, it bears the claim out.
LEMMA ReaderReceives ==
  ASSUME NEW r \in Client, ReadInv(r), Moved(r), job[r].sent = TRUE, slot.request.kind = job[r].step,
         UNCHANGED <<zone, slot, held>>, Succeeded(job[r], slot, job'[r])
  PROVE  ReadInv(r)'
  <1>1. job'[r].sent = FALSE
    BY DEF Succeeded, After
  <1>2. ASSUME Half(r)'
        PROVE  Before(r, job[r].first.mode)'
    <2>1. Pending(r) /\ job[r].zone = 1 /\ job'[r].first.mode = slot.mode
      BY <1>2 DEF Half, Pending, Succeeded
    <2>2. Before(r, slot.mode)
      BY <2>1 DEF ReadInv
    <2>3. \A m : Setting2(r, m)' => Setting2(r, m) \/ zone[1] = m \/ m \in Ignored
      BY <1>2 DEF Half, Setting2
    <2>4. Before(r, slot.mode)'
      BY <2>2, <2>3, BeforeRests
    <2> QED
      BY <2>1, <2>4
  <1>3. ASSUME job'[r].outcome \in Told, job'[r].op \in {"read", "confirm"}
        PROVE  job'[r].mode \in held[r]
    BY <1>3 DEF Succeeded, ReadInv, Half, Pending
  <1>4. ~Pending(r)' /\ held' = held
    BY <1>1 DEF Pending
  <1> QED
    BY <1>2, <1>3, <1>4 DEF ReadInv

\* A write of zone 1 that was acknowledged goes on to zone 2 while zone 1 holds it.
LEMMA ReceivedSets ==
  ASSUME Base, NEW p \in Client, slot.status = "ok", slot.request.kind = job[p].step,
         Succeeded(job[p], slot, job'[p])
  PROVE  \A m : Setting2(p, m)' => zone[1] = m \/ m \in Ignored
  BY DEF Succeeded, After, Setting2, Echoes, Base, SlotSound

LEMMA ReadNext ==
  ASSUME Base, NEW r \in Client, NEW w \in Client, OneReader(r), OneOtherWriter(r, w), ReadInv(r),
         [Next]_vars
  PROVE  ReadInv(r)'
  <1>1. CASE UNCHANGED vars
    BY <1>1 DEF vars, ReadInv, Pending, Half, Before, Setting2
  <1>2. ASSUME NEW p \in Client, Begin(p)
        PROVE  ReadInv(r)'
    <2>1. CASE p = r
      <3>1. job'[r].zone = 1 /\ job'[r].sent = FALSE /\ job'[r].outcome = "none"
        BY <1>2, <2>1, BeginFacts
      <3> QED
        BY <3>1 DEF Told, ReadInv, Pending, Half
    <2>2. CASE p # r
      <3>0. held \in [Client -> SUBSET Mode] /\ held' = [held EXCEPT ![p] = {}]
        BY <1>2, BeginFacts DEF Base, TypeOK
      <3>1. held'[r] = held[r]
        BY <2>2, <3>0
      <3>2. job'[p].zone = 1
        BY <1>2, BeginFacts
      <3>3. \A m : ~Setting2(p, m)'
        BY <3>2 DEF Setting2
      <3> QED
        BY <1>2, <2>2, <3>1, <3>3, BeginFacts, OtherRests
    <2> QED
      BY <2>1, <2>2
  <1>3. ASSUME NEW p \in Client, Send(p)
        PROVE  ReadInv(r)'
    <2>1. \A m : Setting2(p, m)' => Setting2(p, m)
      BY <1>3, SendFacts DEF Setting2
    <2> QED
      BY <1>3, <2>1, SendFacts, ReaderSends, OtherTakes
  <1>4. ASSUME NEW p \in Client, SendFails(p)
        PROVE  ReadInv(r)'
    <2>1. /\ Moved(p) /\ Busy(p) /\ Retried(job[p], "transport", job'[p])
          /\ EcTook(p) \/ UNCHANGED <<zone, slot, ran, held>>
      BY <1>4, SendFailsFacts
    <2>2. \A m : Setting2(p, m)' => Setting2(p, m)
      BY <2>1, RetriedSets
    <2>3. CASE p = r
      <3>1. Half(r) => \A m : Before(r, m) => Before(r, m)'
        <4>1. CASE EcTook(p)
          BY <2>1, <2>2, <2>3, <4>1, BeforeTaken DEF Half
        <4>2. CASE UNCHANGED <<zone, slot, ran, held>>
          BY <2>1, <2>2, <2>3, <4>2, BeforeRests
        <4> QED
          BY <2>1, <4>1, <4>2
      <3> QED
        BY <2>1, <2>3, <3>1, ReaderRetries
    <2>4. CASE p # r /\ EcTook(p)
      BY <2>1, <2>2, <2>4, OtherTakes
    <2>5. CASE p # r /\ UNCHANGED <<zone, slot, ran, held>>
      BY <2>1, <2>2, <2>5, OtherRests
    <2> QED
      BY <2>1, <2>3, <2>4, <2>5
  <1>5. ASSUME NEW p \in Client, Moved(p), UNCHANGED <<zone, slot, held>>, NEW err,
               Retried(job[p], err, job'[p])
        PROVE  ReadInv(r)'
    <2>1. \A m : Setting2(p, m)' => Setting2(p, m)
      BY <1>5, RetriedSets
    <2>2. CASE p = r
      <3>1. \A m : Before(r, m) => Before(r, m)'
        BY <1>5, <2>1, <2>2, BeforeRests
      <3> QED
        BY <1>5, <2>2, <3>1, ReaderRetries
    <2>3. CASE p # r
      BY <1>5, <2>1, <2>3, OtherRests
    <2> QED
      BY <2>2, <2>3
  <1>6. ASSUME NEW p \in Client, Receive(p)
        PROVE  ReadInv(r)'
    <2>1. /\ Moved(p) /\ job[p].sent = TRUE /\ UNCHANGED <<zone, slot, held>>
      BY <1>6, ReceiveFacts
    <2>2. CASE /\ slot.request.kind = job[p].step /\ slot.status = "ok"
               /\ Succeeded(job[p], slot, job'[p])
      <3>1. CASE p = r
        BY <2>1, <2>2, <3>1, ReaderReceives
      <3>2. CASE p # r
        BY <2>1, <2>2, <3>2, ReceivedSets, OtherRests
      <3> QED
        BY <3>1, <3>2
    <2>3. CASE \E err : Retried(job[p], err, job'[p])
      BY <2>1, <2>3, <1>5
    <2> QED
      BY <1>6, <2>2, <2>3, ReceiveFacts
  <1>7. ASSUME NEW p \in Client, ReceiveFails(p)
        PROVE  ReadInv(r)'
    BY <1>5, <1>7, ReceiveFailsFacts
  <1>8. ASSUME NEW p \in Client, Killed(p)
        PROVE  ReadInv(r)'
    <2>1. CASE p = r
      BY <1>8, <2>1, KilledFacts DEF Idle, ReadInv, Pending, Half
    <2>2. CASE p # r
      <3>1. \A m : ~Setting2(p, m)'
        BY <1>8, KilledFacts DEF Idle, Setting2
      <3> QED
        BY <1>8, <2>2, <3>1, KilledFacts, OtherRests
    <2> QED
      BY <2>1, <2>2
  <1> QED
    BY <1>1, <1>2, <1>3, <1>4, <1>6, <1>7, <1>8 DEF Next

\* A mode that get_perf_mode returns, or set_perf_mode_confirmed accepts, was in both zones at
\* one moment of the read, if one process reads and, besides it, one other writes.
THEOREM ReadWasTrueHolds ==
  ASSUME NEW r \in Client, NEW w \in Client, OneReader(r), OneOtherWriter(r, w)
  PROVE  Spec => []ReadWasTrue
  <1>1. Init => ReadInv(r)
    BY DEF Init, Idle, ReadInv, Pending, Half
  <1>2. Base /\ ReadInv(r) /\ [Next]_vars => ReadInv(r)'
    BY ReadNext
  <1>3. Base /\ ReadInv(r) => ReadWasTrue
    <2> SUFFICES ASSUME Base, ReadInv(r), NEW p \in Client, job[p].outcome = "ok",
                        job[p].op \in {"read", "confirm"}
                 PROVE  job[p].mode \in held[p]
      BY DEF ReadWasTrue
    <2>1. p = r
      BY DEF Base, Running, OneReader, Does
    <2> QED
      BY <2>1 DEF Told, ReadInv
  <1> QED
    BY <1>1, <1>2, <1>3, BaseInvariant, PTL DEF Spec

-----------------------------------------------------------------------------
(* Bus implements PerfService: a step of an exchange is a step of the service or one that *)
(* its callers cannot see.  One lemma per kind of step that ends or starts a call; the     *)
(* rest leave every call as it is and add to what was seen what both zones are in.         *)

\* What a step adds to a client's history is a mode both zones are in after it.
Watched == \A q \in Client : held'[q] \subseteq held[q] \cup Agreed(zone')

LEMMA WatchedFacts ==
  ASSUME Watched
  PROVE  Service!Watches
  BY DEF Watched, Agreed, Service!Watches, Service!Agreed

\* The call of a client, from its job.
LEMMA CallFacts ==
  ASSUME NEW p \in Client
  PROVE  /\ calls[p] = [op |-> job[p].op, wanted |-> job[p].wanted, busy |-> Busy(p),
                        outcome |-> job[p].outcome, mode |-> job[p].mode]
         /\ calls[p].op = job[p].op /\ calls[p].wanted = job[p].wanted
         /\ Service!Calling(p) <=> Busy(p)
  BY DEF calls, Service!Calling

\* What only changes p's job changes only p's call.
LEMMA CallsMoved ==
  ASSUME NEW p \in Client, Moved(p)
  PROVE  calls' = [calls EXCEPT ![p] =
                     [op |-> job'[p].op, wanted |-> job'[p].wanted, busy |-> job'[p].step # "idle",
                      outcome |-> job'[p].outcome, mode |-> job'[p].mode]]
  <1> DEFINE c == [op |-> job'[p].op, wanted |-> job'[p].wanted, busy |-> job'[p].step # "idle",
                   outcome |-> job'[p].outcome, mode |-> job'[p].mode]
  <1>1. calls'[p] = c
    BY DEF calls, Busy
  <1>2. ASSUME NEW q \in Client, q # p
        PROVE  calls'[q] = calls[q]
    BY <1>2 DEF calls, Busy, Moved
  <1>3. calls = [q \in Client |-> calls[q]] /\ calls' = [q \in Client |-> calls'[q]]
    BY DEF calls
  <1> HIDE DEF c
  <1>4. calls' = [calls EXCEPT ![p] = c]
    BY <1>1, <1>2, <1>3
  <1> QED
    BY <1>4 DEF c

LEMMA SameCall ==
  ASSUME NEW p \in Client, Moved(p), Busy(p), job'[p].step # "idle",
         job'[p].op = job[p].op, job'[p].wanted = job[p].wanted,
         job'[p].outcome = job[p].outcome, job'[p].mode = job[p].mode
  PROVE  calls' = calls
  <1>1. calls'[p] = calls[p]
    BY DEF calls, Busy
  <1>2. ASSUME NEW q \in Client, q # p
        PROVE  calls'[q] = calls[q]
    BY <1>2 DEF calls, Busy, Moved
  <1>3. calls = [q \in Client |-> calls[q]] /\ calls' = [q \in Client |-> calls'[q]]
    BY DEF calls
  <1> QED
    BY <1>1, <1>2, <1>3

\* A command that goes on is the same call.
LEMMA CallGoesOn ==
  ASSUME Base, NEW p \in Client, Moved(p), Busy(p), After(job[p], job'[p]), job'[p].step # "idle"
  PROVE  calls' = calls
  <1>1. /\ Underway(job[p]) /\ Underway(job'[p])
        /\ job'[p].op = job[p].op /\ job'[p].wanted = job[p].wanted
    BY DEF Base, Running, Busy, After
  <1>2. job'[p].outcome = job[p].outcome /\ job'[p].mode = job[p].mode
    BY <1>1 DEF Underway
  <1> QED
    BY <1>1, <1>2, SameCall

\* A command that returns ends its call with its outcome.
LEMMA CallEnds ==
  ASSUME NEW p \in Client, Moved(p), Busy(p), After(job[p], job'[p]), job'[p].step = "idle"
  PROVE  /\ Service!Ends(p) /\ Service!Answers(p, job'[p].outcome, job'[p].mode)
         /\ job'[p].outcome \in Service!Outcome /\ job'[p].mode \in Mode \cup {NoMode}
  <1>1. /\ job'[p].op = job[p].op /\ job'[p].wanted = NoMode /\ job'[p] \in Job
        /\ job'[p].outcome # "none"
    BY DEF After, Promises
  <1>2. Service!Ends(p)
    BY CallFacts DEF Service!Ends, Service!Calling, calls, Busy
  <1>3. Service!Answers(p, job'[p].outcome, job'[p].mode)
    <2>1. (job'[p].step # "idle") = FALSE /\ calls[p].op = job'[p].op
      BY <1>1, CallFacts
    <2> QED
      BY <1>1, <2>1, CallsMoved DEF Service!Answers
  <1>4. job'[p].outcome \in Service!Outcome /\ job'[p].mode \in Mode \cup {NoMode}
    BY <1>1 DEF Job, Outcome, Service!Outcome
  <1> QED
    BY <1>2, <1>3, <1>4

\* What the EC does with a request, seen from the callers: nothing, a zone, or one run.
LEMMA EcTookFacts ==
  ASSUME Base, RawInv, NEW p \in Client, Busy(p), job[p].sent = FALSE, EcTook(p)
  PROVE  /\ Watched
         /\ \/ UNCHANGED <<zone, ran>>
            \/ job[p].step = "set" /\ Service!TakesZone(p) /\ ran' = ran
            \/ job[p].step = "raw" /\ Service!Acts(p) /\ zone' = zone
  <1>0. /\ zone \in [Zone -> Mode] /\ ran \in [Client -> 0..2] /\ ran' \in [Client -> 0..2]
        /\ Underway(job[p]) /\ job[p].zone \in Zone
    BY DEF Base, TypeOK, EcTook, Running, Busy, Job
  <1>1. Watched
    BY DEF EcTook, Watched
  <1>2. job[p].step # "raw" => ran' = ran
    BY <1>0 DEF EcTook
  <1>3. ASSUME zone' # zone
        PROVE  job[p].step = "set" /\ Service!TakesZone(p) /\ ran' = ran
    <2>1. /\ job[p].step = "set" /\ zone' = [zone EXCEPT ![job[p].zone] = job[p].wanted]
      BY <1>3 DEF EcTook
    <2>2. job[p].op \in {"set", "confirm"}
      BY <1>0, <2>1 DEF Underway, OpOf
    <2> QED
      BY <1>0, <1>2, <2>1, <2>2, CallFacts DEF Service!TakesZone, Service!Zone, Zone
  <1>4. ASSUME zone' = zone, ran' # ran
        PROVE  job[p].step = "raw" /\ Service!Acts(p)
    <2>1. job[p].step = "raw"
      BY <1>2, <1>4
    <2>2. ran[p] = 0
      BY <2>1 DEF RawInv
    <2>3. \A q \in Client : q # p => ran'[q] = ran[q]
      BY DEF EcTook
    <2>4. ran'[p] = 1
      BY <1>0, <1>4, <2>2, <2>3 DEF EcTook
    <2>5. ran' = [ran EXCEPT ![p] = 1]
      BY <1>0, <2>3, <2>4
    <2>6. job[p].op = "raw"
      BY <1>0, <2>1 DEF Underway, OpOf
    <2> QED
      BY <2>1, <2>2, <2>5, <2>6, CallFacts DEF Service!Acts
  <1> QED
    BY <1>1, <1>3, <1>4

-----------------------------------------------------------------------------
(* Each step of Bus is one of PerfService *)

LEMMA BeginAsks ==
  ASSUME Base, NEW p \in Client, Begin(p)
  PROVE  Service!Asks(p)
  <1>1. /\ Moved(p) /\ job'[p].outcome = "none" /\ job'[p].mode = NoMode
        /\ job'[p].step # "idle" /\ zone' = zone
        /\ ran' = [ran EXCEPT ![p] = 0] /\ held' = [held EXCEPT ![p] = {}]
    BY BeginFacts
  <1>2. PICK c \in Calls[p] : job'[p].op = c.op /\ job'[p].wanted = c.mode
    BY BeginFacts
  <1>3. Service!Begins(p)
    BY <1>1 DEF Begin, Service!Begins, Service!Calling, calls, Busy
  <1>4. calls' = [calls EXCEPT ![p] = [op |-> c.op, wanted |-> c.mode, busy |-> TRUE,
                                       outcome |-> "none", mode |-> NoMode]]
    <2>1. (job'[p].step # "idle") = TRUE
      BY <1>1
    <2> QED
      BY <1>1, <1>2, <2>1, CallsMoved
  <1>5. Service!Watches
    <2>1. held \in [Client -> SUBSET Mode]
      BY DEF Base, TypeOK
    <2>2. Watched
      BY <1>1, <2>1 DEF Watched
    <2> QED
      BY <2>2, WatchedFacts
  <1> QED
    BY <1>1, <1>2, <1>3, <1>4, <1>5 DEF Service!Asks

\* A request on its way: the call goes on, and the EC may have taken it.
LEMMA GoesOn ==
  ASSUME Base, RawInv, NEW p \in Client, Busy(p), job[p].sent = FALSE, EcTook(p), calls' = calls
  PROVE  Service!Looks \/ Service!Takes(p) \/ Service!Runs(p)
  <1>1. Service!Watches /\ Service!Calling(p)
    BY EcTookFacts, WatchedFacts, CallFacts
  <1> QED
    BY <1>1, EcTookFacts DEF Service!Looks, Service!Takes, Service!Runs

\* Nothing happens at the EC, and the command goes on.
LEMMA Rests ==
  ASSUME UNCHANGED <<zone, ran, held>>, calls' = calls
  PROVE  Service!Looks
  <1>1. Service!Watches
    BY WatchedFacts DEF Watched
  <1> QED
    BY <1>1 DEF Service!Looks

\* A command returns, and what its outcome says is so.
LEMMA Answering ==
  ASSUME NEW p \in Client, Moved(p), Busy(p), After(job[p], job'[p]), job'[p].step = "idle",
         UNCHANGED <<zone, ran>>, Watched,
         job'[p].outcome = "ok" /\ job'[p].op = "raw" => ran[p] = 1,
         job'[p].outcome \in Told /\ job'[p].op \in {"read", "confirm"} => job'[p].mode \in held[p]
  PROVE  Service!Returns(p)
  <1> DEFINE o == job'[p].outcome
             m == job'[p].mode
  <1>1. Service!Ends(p) /\ Service!Answers(p, o, m)
        /\ o \in Service!Outcome /\ m \in Mode \cup {NoMode}
    BY CallEnds
  <1>2. Promises(job[p], o, m) /\ job'[p].op = job[p].op
    BY DEF After
  <1>3. /\ o = "ok" /\ job[p].op = "raw" => ran[p] = 1
        /\ o \in Told /\ job[p].op \in {"read", "confirm"} => m \in held[p]
    BY <1>2
  <1> HIDE DEF o, m
  <1>4. calls[p].op = job[p].op /\ calls[p].wanted = job[p].wanted
    BY CallFacts
  <1>5. Service!Asserts(p, o, m)
    BY <1>2, <1>3, <1>4 DEF Service!Asserts, Promises, Told
  <1>6. Service!Watches
    BY WatchedFacts
  <1> QED
    BY <1>1, <1>5, <1>6 DEF Service!Returns

LEMMA SendServes ==
  ASSUME Base, RawInv, NEW p \in Client, Send(p)
  PROVE  Service!Looks \/ Service!Takes(p) \/ Service!Runs(p)
  <1>1. /\ Moved(p) /\ EcTook(p) /\ Busy(p) /\ job[p].sent = FALSE
        /\ job'[p].step = job[p].step /\ job'[p].op = job[p].op
        /\ job'[p].wanted = job[p].wanted /\ job'[p].outcome = job[p].outcome
        /\ job'[p].mode = job[p].mode
    BY SendFacts
  <1>2. calls' = calls
    BY <1>1, SameCall DEF Busy
  <1> QED
    BY <1>1, <1>2, GoesOn

\* An attempt that failed, with nothing done by the EC.
LEMMA LostServes ==
  ASSUME Base, NEW p \in Client, Moved(p), Busy(p), NEW err, Retried(job[p], err, job'[p]),
         UNCHANGED <<zone, ran>>, Watched
  PROVE  Service!Looks \/ Service!Returns(p)
  <1>1. After(job[p], job'[p])
    BY RetriedAfter
  <1>2. CASE job'[p].step = "idle"
    <2>1. job'[p].outcome \notin Told
      BY <1>2 DEF Retried, Failed, Busy
    <2> QED
      BY <1>1, <1>2, <2>1, Answering DEF Told
  <1>3. CASE job'[p].step # "idle"
    <2>1. calls' = calls
      BY <1>1, <1>3, CallGoesOn
    <2> QED
      BY <2>1, WatchedFacts DEF Service!Looks
  <1> QED
    BY <1>2, <1>3

LEMMA SendFailsServes ==
  ASSUME Base, RawInv, NEW p \in Client, SendFails(p)
  PROVE  \/ Service!Looks \/ Service!Takes(p) \/ Service!Runs(p)
         \/ Service!Returns(p) \/ Service!Fails(p)
  <1>1. /\ Moved(p) /\ Retried(job[p], "transport", job'[p]) /\ Busy(p) /\ job[p].sent = FALSE
        /\ EcTook(p) \/ UNCHANGED <<zone, slot, ran, held>>
    BY SendFailsFacts
  <1>2. After(job[p], job'[p])
    BY <1>1, RetriedAfter
  <1>3. CASE UNCHANGED <<zone, slot, ran, held>>
    <2>1. Watched
      BY <1>3 DEF Watched
    <2> QED
      BY <1>1, <1>3, <2>1, LostServes
  <1>4. CASE EcTook(p) /\ job'[p].step # "idle"
    BY <1>1, <1>2, <1>4, CallGoesOn, GoesOn
  <1>5. CASE EcTook(p) /\ UNCHANGED <<zone, ran>>
    BY <1>1, <1>5, EcTookFacts, LostServes
  <1>6. CASE EcTook(p) /\ job'[p].step = "idle" /\ ~UNCHANGED <<zone, ran>>
    <2>1. /\ Watched /\ job[p].step # "get"
          /\ (Service!TakesZone(p) /\ ran' = ran) \/ (Service!Acts(p) /\ zone' = zone)
      BY <1>1, <1>6, EcTookFacts
    <2>2. job'[p].outcome = "error" /\ job'[p].mode = NoMode
      BY <1>1, <1>6, <2>1 DEF Retried, Failed, Busy
    <2>3. Service!Ends(p) /\ Service!Answers(p, "error", NoMode)
      BY <1>1, <1>2, <1>6, <2>2, CallEnds
    <2> QED
      BY <2>1, <2>3, WatchedFacts DEF Service!Fails
  <1> QED
    BY <1>1, <1>3, <1>4, <1>5, <1>6

LEMMA ReceiveServes ==
  ASSUME Base, RawInv, NEW r \in Client, OneReader(r), ReadInv(r)', NEW p \in Client, Receive(p)
  PROVE  Service!Looks \/ Service!Returns(p)
  <1>1. /\ Moved(p) /\ Busy(p) /\ job[p].sent = TRUE /\ UNCHANGED <<zone, slot, ran, held>>
    BY ReceiveFacts
  <1>2. Watched
    BY <1>1 DEF Watched
  <1>3. CASE \E err : Retried(job[p], err, job'[p])
    BY <1>1, <1>2, <1>3, LostServes
  <1>4. CASE /\ slot.request.kind = job[p].step /\ slot.status = "ok"
             /\ Succeeded(job[p], slot, job'[p])
    <2>1. After(job[p], job'[p]) /\ job'[p].op = job[p].op
      BY <1>4 DEF Succeeded, After
    <2>2. CASE job'[p].step # "idle"
      BY <1>1, <2>1, <2>2, CallGoesOn, Rests
    <2>3. CASE job'[p].step = "idle"
      <3>1. job'[p].outcome = "ok" /\ job'[p].op = "raw" => ran[p] = 1
        <4>1. job'[p].op = "raw" => job[p].step = "raw"
          BY <2>1, <1>1 DEF Base, Running, Busy, Underway, OpOf, TypeOK, Job
        <4>2. ran[p] \in 0..2 /\ ran[p] < 2 /\ (job[p].step = "raw" => ran[p] # 0)
          BY <1>1, <1>4 DEF Base, TypeOK, RawInv
        <4> QED
          BY <4>1, <4>2
      <3>2. ASSUME job'[p].outcome \in Told, job'[p].op \in {"read", "confirm"}
            PROVE  job'[p].mode \in held[p]
        <4>1. p = r
          BY <1>1, <1>4, <3>2, Reader DEF Succeeded
        <4> QED
          BY <1>1, <3>2, <4>1 DEF ReadInv
      <3> QED
        BY <1>1, <1>2, <2>1, <2>3, <3>1, <3>2, Answering
    <2> QED
      BY <2>2, <2>3
  <1> QED
    BY <1>3, <1>4, ReceiveFacts

LEMMA KilledServes ==
  ASSUME Base, NEW p \in Client, Killed(p)
  PROVE  Service!Dies(p)
  <1>1. Moved(p) /\ Busy(p) /\ job'[p] = Idle /\ UNCHANGED <<zone, slot, ran, held, mixed>>
    BY KilledFacts DEF Killed
  <1>2. calls' = [calls EXCEPT ![p] = Service!NoCall]
    <2>1. /\ job'[p].op = "none" /\ job'[p].wanted = NoMode /\ job'[p].step = "idle"
          /\ job'[p].outcome = "none" /\ job'[p].mode = NoMode
      BY <1>1 DEF Idle
    <2>2. (job'[p].step # "idle") = FALSE
      BY <2>1
    <2>3. Service!NoCall = [op |-> "none", wanted |-> NoMode, busy |-> FALSE,
                            outcome |-> "none", mode |-> NoMode]
      BY DEF Service!NoCall
    <2> QED
      BY <1>1, <2>1, <2>2, <2>3, CallsMoved
  <1>3. Service!Ends(p)
    <2>1. job'[p].step = "idle"
      BY <1>1 DEF Idle
    <2> QED
      BY <1>1, <2>1 DEF Service!Ends, Service!Calling, calls, Busy
  <1>4. Service!Watches
    BY <1>1, WatchedFacts DEF Watched
  <1> QED
    BY <1>1, <1>2, <1>3, <1>4 DEF Service!Dies

LEMMA ServesNext ==
  ASSUME Base, RawInv, NEW r \in Client, OneReader(r), ReadInv(r)', [Next]_vars
  PROVE  [Service!Next]_(Service!vars)
  <1>1. CASE UNCHANGED vars
    <2>1. calls' = calls
      BY <1>1 DEF vars, calls, Busy
    <2> QED
      BY <1>1, <2>1 DEF vars, Service!vars
  <1>2. ASSUME NEW p \in Client, ReceiveFails(p)
        PROVE  Service!Looks \/ Service!Returns(p)
    <2>1. Watched
      BY <1>2, ReceiveFailsFacts DEF Watched
    <2> QED
      BY <1>2, <2>1, ReceiveFailsFacts, LostServes
  <1> QED
    BY <1>1, <1>2, BeginAsks, SendServes, SendFailsServes, ReceiveServes, KilledServes
       DEF Next, Service!Next

LEMMA InitServes ==
  ASSUME Init
  PROVE  Service!Init
  <1>1. ASSUME NEW p \in Client
        PROVE  calls[p] = Service!NoCall
    <2>1. /\ job[p].op = "none" /\ job[p].wanted = NoMode /\ Busy(p) = FALSE
          /\ job[p].outcome = "none" /\ job[p].mode = NoMode
      BY DEF Init, Busy, Idle
    <2> QED
      BY <2>1, CallFacts DEF Service!NoCall
  <1>2. calls = [p \in Client |-> calls[p]]
    BY DEF calls
  <1>3. calls = [p \in Client |-> Service!NoCall]
    BY <1>1, <1>2
  <1> QED
    BY <1>3 DEF Init, Service!Init, Service!Zone, Zone

\* With one process that reads or confirms, one other that writes and one that sends raw
\* commands, Bus implements PerfService: each command, whatever its attempts go through, is
\* one call that returns once, with an answer that was true at one moment of it.
THEOREM ServesCallsHolds ==
  ASSUME NEW r \in Client, NEW w \in Client, OneReader(r), OneOtherWriter(r, w), OneRawSender
  PROVE  Spec => ServesCalls
  <1>1. Init => ReadInv(r) /\ RawInv
    BY DEF Init, Idle, ReadInv, Pending, Half, RawInv, Told
  <1>2. Base /\ ReadInv(r) /\ RawInv /\ [Next]_vars => ReadInv(r)' /\ RawInv'
    BY ReadNext, RawNext
  <1>3. Init => Service!Init
    BY InitServes
  <1>4. Base /\ RawInv /\ ReadInv(r)' /\ [Next]_vars => [Service!Next]_(Service!vars)
    BY ServesNext
  <1> QED
    BY <1>1, <1>2, <1>3, <1>4, BaseInvariant, PTL DEF Spec, ServesCalls, Service!Spec

================================================================================
