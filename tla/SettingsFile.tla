------------------------------ MODULE SettingsFile ------------------------------
(***************************************************************************)
(* What the rest of the tray may take the settings file for: one value at  *)
(* a path.  It is read whole and replaced whole, what a power loss brings  *)
(* back is a value that was at the path, and what the tray holds of it is  *)
(* what it last read there, or the defaults.                               *)
(***************************************************************************)
EXTENDS Naturals

VARIABLES
  path,      \* what a reader finds: a kind, and the hand edit whose settings it holds
  lasting,   \* what a power loss would leave there
  memory     \* the hand edit whose settings the tray holds; 0 for the defaults

vars == <<path, lasting, memory>>

NoFile == [kind |-> "none", base |-> 0]
Content == [kind : {"good", "bad"}, base : Nat]
Holding(edit) == [kind |-> "good", base |-> edit]

Reads == path.kind = "good" /\ memory' = path.base /\ UNCHANGED <<path, lasting>>

TakesDefaults == memory' = 0 /\ UNCHANGED <<path, lasting>>

\* What memory holds, or the defaults of a reset, all at once; not yet for good.
Saves == path' \in {Holding(memory), Holding(0)} /\ UNCHANGED <<lasting, memory>>

BecomesLasting == lasting' = path /\ UNCHANGED <<path, memory>>

\* A hand edit is news.
Edits ==
  /\ path' \in Content /\ path'.base \notin {0, memory}
  /\ lasting' = path' /\ UNCHANGED memory

Deletes == path' = NoFile /\ lasting' = NoFile /\ UNCHANGED memory

PowerFails == path' = lasting /\ UNCHANGED <<lasting, memory>>

Init == path \in Content \cup {NoFile} /\ lasting = path /\ memory = 0

Next == \/ Reads \/ TakesDefaults \/ Saves \/ BecomesLasting
        \/ Edits \/ Deletes \/ PowerFails

Spec == Init /\ [][Next]_vars
================================================================================
