---------------------------- MODULE StageLedger ----------------------------
(***************************************************************************)
(* What the final-discovery stage store promises its callers: a ledger     *)
(* with at most one completion per stage.  A completion is entered once,   *)
(* is never replaced, and names the exact upstream completions it was      *)
(* built from.  Nothing here knows of attempt directories, failure         *)
(* records, runners or crashes; module StageStore implements it.           *)
(***************************************************************************)

CONSTANTS
  Stage,          \* the nodes of the campaign graph
  Dependencies,   \* Stage -> the stages a stage is computed from
  Attempt,        \* the uuid names of attempts
  Absent          \* "no completion"

VARIABLES
  ledger,         \* Stage -> the published [attempt, deps], or Absent
  erased          \* stages whose completion the outside world removed

vars == <<ledger, erased>>

Entry(s) == [attempt : Attempt, deps : [Dependencies[s] -> Attempt]]

TypeOK ==
  /\ DOMAIN ledger = Stage
  /\ \A s \in Stage : ledger[s] = Absent \/ ledger[s] \in Entry(s)
  /\ erased \subseteq Stage

Init ==
  /\ ledger = [s \in Stage |-> Absent]
  /\ erased = {}

\* Enter one completion where none is present.  Every upstream completion it
\* names is the one standing in the ledger, except where that one has been
\* removed from outside since it was authenticated.
Publish(s) ==
  /\ ledger[s] = Absent
  /\ \E e \in Entry(s) :
       /\ \A d \in Dependencies[s] :
            d \notin erased => ledger[d] # Absent /\ ledger[d].attempt = e.deps[d]
       /\ ledger' = [ledger EXCEPT ![s] = e]
  /\ UNCHANGED erased

\* Not a step of the program: a completion file disappears from the disk.
Erase(s) ==
  /\ ledger[s] # Absent
  /\ ledger' = [ledger EXCEPT ![s] = Absent]
  /\ erased' = erased \cup {s}

Next == \E s \in Stage : Publish(s) \/ Erase(s)

Spec == Init /\ [][Next]_vars
=============================================================================
