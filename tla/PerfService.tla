------------------------------ MODULE PerfService ------------------------------
(***************************************************************************)
(* What the commands on the perf mode promise their callers, whatever the  *)
(* exchanges below them go through: a call is made, the EC may take it,    *)
(* in each zone by itself, and it returns once.  An answer "ok" says what  *)
(* was so at one moment of the call.                                       *)
(***************************************************************************)
EXTENDS Integers

CONSTANTS
  Client,    \* processes with the device open
  Mode,      \* perf modes
  Calls,     \* [Client -> SUBSET Call]: calls a client makes
  NoMode

VARIABLES
  zone,      \* the mode each zone of the EC is in
  call,      \* each client's call, and how it returned
  seen,      \* modes both zones have been in, as far as the client may go by them
  ran        \* how often the EC acted on the client's raw command

vars == <<zone, call, seen, ran>>

Zone == {1, 2}
NoCall == [op |-> "none", wanted |-> NoMode, busy |-> FALSE, outcome |-> "none", mode |-> NoMode]

Outcome == {"ok", "error", "unconfirmed", "diverged", "not_applied"}
Agreed(z) == IF z[1] = z[2] THEN {z[1]} ELSE {}

\* A client goes by modes the zones agreed on during its call, and may look again.
Watches == \A p \in Client : seen'[p] \subseteq seen[p] \cup Agreed(zone')

Calling(p) == call[p].busy
Begins(p) == ~Calling(p) /\ Calling(p)'
Ends(p) == Calling(p) /\ ~Calling(p)'

Asks(p) ==
  /\ Begins(p) /\ zone' = zone /\ ran' = [ran EXCEPT ![p] = 0]
  /\ \E c \in Calls[p] :
       call' = [call EXCEPT ![p] = [op |-> c.op, wanted |-> c.mode, busy |-> TRUE,
                                    outcome |-> "none", mode |-> NoMode]]
  /\ Watches

\* The EC takes one zone's half of a write: once more, or late, if need be.
TakesZone(p) ==
  /\ call[p].op \in {"set", "confirm"}
  /\ \E z \in Zone : zone' = [zone EXCEPT ![z] = call[p].wanted]

Takes(p) == Calling(p) /\ TakesZone(p) /\ UNCHANGED <<ran, call>> /\ Watches

\* The EC acts on a raw command: once.
Acts(p) == call[p].op = "raw" /\ ran[p] = 0 /\ ran' = [ran EXCEPT ![p] = 1]

Runs(p) == Calling(p) /\ Acts(p) /\ UNCHANGED <<zone, call>> /\ Watches

Looks == UNCHANGED <<zone, ran, call>> /\ Watches

\* What a call's answer asserts.
Asserts(p, outcome, mode) ==
  LET c == call[p] IN
  /\ outcome = "ok" /\ c.op = "raw" => ran[p] = 1
  /\ outcome = "ok" /\ c.op \in {"read", "confirm"} => mode \in seen[p]
  /\ outcome = "ok" /\ c.op = "confirm" => mode = c.wanted
  /\ outcome = "not_applied" => c.op = "confirm" /\ mode # c.wanted /\ mode \in seen[p]
  /\ outcome = "unconfirmed" => c.op = "confirm"
  /\ outcome = "diverged" => c.op \in {"read", "confirm"}

Answers(p, outcome, mode) ==
  call' = [call EXCEPT ![p] = [op |-> call[p].op, wanted |-> NoMode, busy |-> FALSE,
                               outcome |-> outcome, mode |-> mode]]

Returns(p) ==
  /\ Ends(p) /\ UNCHANGED <<zone, ran>>
  /\ \E outcome \in Outcome, mode \in Mode \cup {NoMode} :
       Asserts(p, outcome, mode) /\ Answers(p, outcome, mode)
  /\ Watches

\* The last attempt fails, and the EC takes it all the same.
Fails(p) ==
  /\ Ends(p) /\ Answers(p, "error", NoMode)
  /\ (TakesZone(p) /\ ran' = ran) \/ (Acts(p) /\ zone' = zone)
  /\ Watches

Dies(p) == Ends(p) /\ UNCHANGED <<zone, ran>> /\ call' = [call EXCEPT ![p] = NoCall] /\ Watches

Init ==
  /\ zone \in [Zone -> Mode]
  /\ call = [p \in Client |-> NoCall]
  /\ seen = [p \in Client |-> {}]
  /\ ran = [p \in Client |-> 0]

Next ==
  \/ Looks
  \/ \E p \in Client : Asks(p) \/ Takes(p) \/ Runs(p) \/ Returns(p) \/ Fails(p) \/ Dies(p)

Spec == Init /\ [][Next]_vars
================================================================================
