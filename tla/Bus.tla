---------------------------------- MODULE Bus ----------------------------------
(***************************************************************************)
(* The EC and the processes that talk to it: the tray, razer-cli, Synapse. *)
(*                                                                         *)
(* Device::exchange sends a request as one feature report and reads the    *)
(* answer as another, up to MAX_ATTEMPTS times.  Nothing spans the two:    *)
(* the EC holds one answer, the last, and any process may have asked in    *)
(* between.  On top of it are the commands on the perf mode, which the EC  *)
(* keeps once per fan zone:                                                *)
(*   set      set_perf_mode                                                *)
(*   read     get_perf_mode                                                *)
(*   confirm  set_perf_mode_confirmed                                      *)
(*   raw      a caller's own command, sent once (send_once)                *)
(* One send and one read-back are a step each.  How often a fault happens  *)
(* is not bounded.  Backoffs are left out: a client may rest anywhere.     *)
(***************************************************************************)
EXTENDS Integers, FiniteSets

CONSTANTS
  Client,        \* processes with the device open
  Mode,          \* perf modes on the wire
  Ignored,       \* those this EC acknowledges and does not take
  MaxAttempts,   \* MAX_ATTEMPTS
  Calls,         \* [Client -> SUBSET Call]
  NoMode

Zone == {1, 2}
Call == [op : {"set", "confirm"}, mode : Mode] \cup [op : {"read", "raw"}, mode : {NoMode}]

ASSUME BusAssumption == /\ MaxAttempts \in Nat \ {0}
                        /\ Ignored \subseteq Mode
                        /\ NoMode \notin Mode
                        /\ Calls \in [Client -> SUBSET Call]

VARIABLES
  zone,     \* the mode each zone of the EC is in
  slot,     \* the EC's last answer
  job,      \* what each client is doing
  held,     \* modes both zones were in since the client last had zone 1 answered
  ran,      \* how often the EC acted on the client's raw command, capped at 2
  mixed     \* clients that took an answer to another request for their own

vars == <<zone, slot, job, held, ran, mixed>>

Status == {"ok", "busy", "failure", "not_supported", "undocumented"}
Request == [kind : {"set", "get", "raw"}, zone : Zone, mode : Mode \cup {NoMode}]
Answer == [request : Request, status : Status, mode : Mode \cup {NoMode}]
NoAnswer == [request |-> [kind |-> "raw", zone |-> 1, mode |-> NoMode],
             status |-> "undocumented", mode |-> NoMode]

Reading == [mode : Mode \cup {NoMode}, err : {"none", "error", "not_supported"}]
NoReading == [mode |-> NoMode, err |-> "none"]
Outcome == {"none", "ok", "error", "unconfirmed", "diverged", "not_applied"}
Job == [op : {"none", "set", "read", "confirm", "raw"}, wanted : Mode \cup {NoMode},
        step : {"idle", "set", "get", "raw"}, zone : Zone, sent : BOOLEAN,
        attempt : 0 .. MaxAttempts - 1,
        first : Reading,      \* what zone 1 answered in this pass
        again : BOOLEAN,      \* get_perf_mode's second pass
        reread : BOOLEAN,     \* confirm_perf_mode's second read
        outcome : Outcome, mode : Mode \cup {NoMode}]
Idle == [op |-> "none", wanted |-> NoMode, step |-> "idle", zone |-> 1, sent |-> FALSE,
         attempt |-> 0, first |-> NoReading, again |-> FALSE, reread |-> FALSE,
         outcome |-> "none", mode |-> NoMode]

Agreed(z) == IF z[1] = z[2] THEN {z[1]} ELSE {}

-----------------------------------------------------------------------------
(* The commands, as the client's job after an exchange.                     *)

Asked(j) == [kind |-> j.step, zone |-> j.zone,
             mode |-> IF j.step = "set" THEN j.wanted ELSE NoMode]

Returns(j, outcome, mode) ==
  [Idle EXCEPT !.op = j.op, !.outcome = outcome, !.mode = mode]

\* On to the next exchange of the command.
Exchange(j, step, z) ==
  [j EXCEPT !.step = step, !.zone = z, !.sent = FALSE, !.attempt = 0,
            !.first = IF z = 1 THEN NoReading ELSE @]

\* The zones are read, again.
Pass(j, again, reread) == [Exchange(j, "get", 1) EXCEPT !.again = again, !.reread = reread]

\* Mutant: a confirmation takes whatever mode it reads.
ReadOkAnyMode(j, mode) == Returns(j, "ok", mode)

\* get_perf_mode has its answer: a read returns it, a confirmation compares it, twice.
ReadOk(j, mode) ==
  IF j.op = "read" \/ mode = j.wanted THEN Returns(j, "ok", mode)
  ELSE IF j.reread THEN Returns(j, "not_applied", mode)
  ELSE Pass(j, FALSE, TRUE)

\* Mutant: zones that disagree twice are taken for what zone 1 said.
EndsPassWithZone1(j, r1, r2) ==
  IF r1.err # "none" \/ r2.err # "none" THEN Returns(j, "error", NoMode)
  ELSE IF r1.mode = r2.mode \/ j.again THEN ReadOk(j, r1.mode)
  ELSE Pass(j, TRUE, j.reread)

\* The end of read_zones: the error of zone 1, then of zone 2; a disagreement is read again
\* once.  A laptop that cannot read the mode cannot confirm a write: the write stands.
EndsPass(j, r1, r2) ==
  LET err == IF r1.err # "none" THEN r1.err ELSE r2.err
  IN IF err # "none"
     THEN Returns(j, IF j.op = "confirm" /\ ~j.reread /\ err = "not_supported"
                     THEN "unconfirmed" ELSE "error", NoMode)
     ELSE IF r1.mode = r2.mode THEN ReadOk(j, r1.mode)
     ELSE IF j.again THEN Returns(j, "diverged", NoMode)
     ELSE Pass(j, TRUE, j.reread)

\* Both zones are asked, even after the first has failed.
Reads(j, r) ==
  IF j.zone = 1 THEN [Exchange(j, "get", 2) EXCEPT !.first = r]
  ELSE EndsPass(j, j.first, r)

\* The exchange failed with err.
Fails(j, err) ==
  IF j.step = "get"
  THEN Reads(j, [mode |-> NoMode, err |-> IF err = "not_supported" THEN err ELSE "error"])
  ELSE Returns(j, "error", NoMode)

\* _send_command: a setter's answer must echo its arguments.
Echoes(j, answer) == answer.request.zone = j.zone /\ answer.request.mode = j.wanted

\* The exchange succeeded with this answer.
Succeeds(j, answer) ==
  CASE j.step = "raw" -> Returns(j, "ok", NoMode)
    [] j.step = "get" -> Reads(j, [mode |-> answer.mode, err |-> "none"])
    [] j.step = "set" ->
         IF ~Echoes(j, answer) THEN Returns(j, "error", NoMode)
         ELSE IF j.zone = 1 THEN Exchange(j, "set", 2)
         ELSE IF j.op = "set" THEN Returns(j, "ok", NoMode)
         ELSE Exchange(j, "get", 1)

-----------------------------------------------------------------------------
(* Device::exchange                                                         *)

\* Mutant: whatever the EC answered last is taken for the answer.
ClassifiedByStatus(answer, request) ==
  CASE answer.status = "ok" -> "ok" [] answer.status = "undocumented" -> "mismatch"
    [] OTHER -> answer.status

\* Packet::classify_response: the command must match, the arguments are not compared.
Classified(answer, request) ==
  IF answer.request.kind # request.kind \/ answer.status = "undocumented" THEN "mismatch"
  ELSE answer.status

\* Mutant: a single-shot command is repeated after any error but a rejection.
RejectedOrLost(j, err) ==
  IF err = "not_supported" \/ (j.step = "raw" /\ err = "failure")
     \/ j.attempt + 1 >= MaxAttempts
  THEN Fails(j, err)
  ELSE [j EXCEPT !.sent = FALSE, !.attempt = @ + 1]

\* Mutant: one attempt too many.
RejectedOnceMore(j, err) ==
  IF err = "not_supported" \/ (j.step = "raw" /\ err # "busy") \/ j.attempt >= MaxAttempts
  THEN Fails(j, err)
  ELSE [j EXCEPT !.sent = FALSE, !.attempt = @ + 1]

\* after_rejection, and the same for an exchange the OS lost: only Busy repeats a raw command.
Rejected(j, err) ==
  IF \/ err = "not_supported"
     \/ j.step = "raw" /\ err # "busy"
     \/ j.attempt + 1 >= MaxAttempts
  THEN Fails(j, err)
  ELSE [j EXCEPT !.sent = FALSE, !.attempt = @ + 1]

\* The EC acts on a request it does not call busy or unsupported; one it calls failed, or
\* answers out of the documented set, it may have acted on or not.
Acts(status) == CASE status = "ok" -> {TRUE} [] status \in {"failure", "undocumented"} -> BOOLEAN
                  [] OTHER -> {FALSE}

\* The EC takes the request of p.
EcTakes(p) ==
  LET r == Asked(job[p])
  IN \E status \in Status : \E acts \in Acts(status) :
       /\ zone' = IF acts /\ r.kind = "set" /\ r.mode \notin Ignored
                  THEN [zone EXCEPT ![r.zone] = r.mode] ELSE zone
       /\ slot' = [request |-> r, status |-> status,
                   mode |-> IF r.kind = "get" THEN zone[r.zone] ELSE r.mode]
       /\ ran' = IF acts /\ r.kind = "raw"
                 THEN [ran EXCEPT ![p] = IF @ < 2 THEN @ + 1 ELSE @] ELSE ran
       /\ held' = [c \in Client |-> IF c = p /\ r.kind = "get" /\ r.zone = 1 THEN Agreed(zone)
                                    ELSE IF job[c].step = "get" THEN held[c] \cup Agreed(zone')
                                    ELSE held[c]]

Busy(p) == job[p].step # "idle"

Begin(p) ==
  /\ ~Busy(p)
  /\ \E call \in Calls[p] :
       job' = [job EXCEPT ![p] =
                 [Idle EXCEPT !.op = call.op, !.wanted = call.mode,
                              !.step = CASE call.op \in {"set", "confirm"} -> "set"
                                         [] call.op = "read" -> "get"
                                         [] call.op = "raw" -> "raw"]]
  /\ ran' = [ran EXCEPT ![p] = 0] /\ held' = [held EXCEPT ![p] = {}]
  /\ UNCHANGED <<zone, slot, mixed>>

Send(p) ==
  /\ Busy(p) /\ ~job[p].sent
  /\ EcTakes(p)
  /\ job' = [job EXCEPT ![p].sent = TRUE]
  /\ UNCHANGED mixed

\* A failed send does not prove the EC never saw the report.
SendFails(p) ==
  /\ Busy(p) /\ ~job[p].sent
  /\ EcTakes(p) \/ UNCHANGED <<zone, slot, ran, held>>
  /\ job' = [job EXCEPT ![p] = Rejected(@, "transport")]
  /\ UNCHANGED mixed

\* The read-back: whatever the EC answered last.
Receive(p) ==
  LET verdict == Classified(slot, Asked(job[p]))
  IN /\ Busy(p) /\ job[p].sent
     /\ job' = [job EXCEPT ![p] = IF verdict = "ok" THEN Succeeds(@, slot)
                                  ELSE Rejected(@, verdict)]
     /\ mixed' = IF /\ verdict = "ok" /\ slot.request # Asked(job[p])
                    /\ (job[p].step = "set" => Echoes(job[p], slot))
                 THEN mixed \cup {p} ELSE mixed
     /\ UNCHANGED <<zone, slot, held, ran>>

\* The read-back is refused or of the wrong size.
ReceiveFails(p) ==
  /\ Busy(p) /\ job[p].sent
  /\ job' = [job EXCEPT ![p] = Rejected(@, "transport")]
  /\ UNCHANGED <<zone, slot, held, ran, mixed>>

\* The process ends, perhaps between the two zones.
Killed(p) ==
  /\ Busy(p)
  /\ job' = [job EXCEPT ![p] = Idle]
  /\ UNCHANGED <<zone, slot, held, ran, mixed>>

-----------------------------------------------------------------------------
Init ==
  /\ zone \in [Zone -> Mode] /\ slot = NoAnswer
  /\ job = [p \in Client |-> Idle]
  /\ held = [p \in Client |-> {}]
  /\ ran = [p \in Client |-> 0]
  /\ mixed = {}

Next ==
  \E p \in Client : \/ Begin(p) \/ Send(p) \/ SendFails(p)
                    \/ Receive(p) \/ ReceiveFails(p) \/ Killed(p)

Spec == Init /\ [][Next]_vars

-----------------------------------------------------------------------------
(* Properties *)

\* Every variable has its type; no exchange sends more than MAX_ATTEMPTS times.
TypeOK ==
  /\ zone \in [Zone -> Mode] /\ slot \in Answer
  /\ job \in [Client -> Job]
  /\ held \in [Client -> SUBSET Mode]
  /\ ran \in [Client -> 0..2] /\ mixed \subseteq Client

\* A perf mode that get_perf_mode returns, or a confirmation accepts, was in both zones at
\* one moment between the two answers: not half of one write and half of another.
ReadWasTrue ==
  \A p \in Client : job[p].outcome = "ok" /\ job[p].op \in {"read", "confirm"}
                      => job[p].mode \in held[p]

\* The EC acts on a single-shot command at most once, whatever it answered and whatever got
\* lost (send_once).
OnceActsOnce == \A p \in Client : ran[p] < 2

\* An answer taken for a request's own is the answer to that request (classify_response and
\* the checks of the command on top of it).
GenuineSuccess == mixed = {}

-----------------------------------------------------------------------------
(* What a caller sees of it: attempts, answers and passes hidden in one call. *)

calls == [p \in Client |-> [op |-> job[p].op, wanted |-> job[p].wanted, busy |-> Busy(p),
                             outcome |-> job[p].outcome, mode |-> job[p].mode]]

Service == INSTANCE PerfService WITH call <- calls, seen <- held

\* Each command, with all its attempts, passes and read-backs on a bus shared with others, is
\* one call that returns once and whose answer was true at one moment of it: a raw command
\* that succeeded ran exactly once, a mode read or confirmed was in both zones, a mode
\* reported as not applied is the one they were in instead.
ServesCalls == Service!Spec
================================================================================
