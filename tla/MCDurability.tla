---------------------------- MODULE MCDurability ----------------------------
(***************************************************************************)
(* Small instances for TLC of a campaign (Campaign), of the transfer of    *)
(* one tree to an object store (ObjectTree), of the acceptance of the      *)
(* lexical results (Acceptance), and of the ranking that a stage of the    *)
(* campaign makes (DiskEnsemble).  The campaign knows of a transfer what   *)
(* ObjectTree shows of it, and none reads state of another; so a behaviour *)
(* is of one of them, the local or the B2 adapter in the second case, and  *)
(* the variables of the others rest.                                       *)
(*                                                                         *)
(* The metadata object "m" names its tree: trees that differ, differ       *)
(* there, in bytes of the same size.                                       *)
(***************************************************************************)
EXTENDS Campaign, ObjectTree, Acceptance, DiskEnsemble, FiniteSets, TLC

CONSTANTS m, x, y, u1, u2, u3, b1, b2

VARIABLE part

MCSizeOf == (Torn :> 0) @@ [b \in Bytes |-> 1]

\* Two callers have one tree and may overlap; the tree of the third has one
\* object less and another metadata object, and its calls exclude the others'.
TwoTrees == [u \in Uploader |-> [p \in Path |->
  CASE u = u3 /\ p = m -> b2 [] u = u3 /\ p = y -> Missing [] OTHER -> b1]]
MCOverlap == {<<u1, u2>>, <<u2, u1>>}

\* On B2 only the callers of the first tree appear, one call at a time.
OnB2 == INSTANCE ObjectTree WITH
          Backend <- "b2", MayOverlap <- {}, MaxFailures <- MaxFailures + 1
OneTree == {u1, u2}

\* A pair that all tests admit, with the p-values f and a.
Plain(score, f, a) ==
  [score |-> score, p |-> ("full" :> f @@ "remove_all_english" :> a),
   trusted |-> [s \in Scope |-> TRUE],
   unknown |-> TRUE, basic |-> FALSE, english |-> FALSE, fit |-> TRUE]

Unfit == [Plain(2, 60, 120) EXCEPT !.fit = FALSE]

MCDraft ==
  {Plain(2, 60, 60), Plain(3, 180, 300), [Plain(3, 60, 180) EXCEPT !.english = TRUE],
   Plain(1, 120, 120), Unfit,
   [Plain(3, 120, 60) EXCEPT !.unknown = FALSE]}

\* Three pairs of all kinds, or four of all but one, in ledgers that belong
\* together; and pairs of one kind in ledgers that may not.
Kinds(n) == IF n = 3 THEN MCDraft ELSE MCDraft \ {Unfit}

EnsembleStarts ==
  \/ \E n \in 3..4 : \E d \in [1..n -> Kinds(n)] :
       /\ draft = [p \in Pair |-> IF p <= n THEN d[p] ELSE Plain(2, 60, 60)]
       /\ ledger = [l \in Ledger |-> 1..n]
       /\ faulty = {} /\ claimed = n
  \/ /\ draft = [p \in Pair |-> Plain(2, 60, 60)]
     /\ ledger \in [Ledger -> {{}, {1, 3}, 1..4, 1..5}]
     /\ faulty \in {{}, {3}} /\ claimed \in {0, 2, 4, 5}

EnsembleRests ==
  /\ draft = [p \in Pair |-> Plain(2, 60, 60)]
  /\ ledger = [l \in Ledger |-> {}] /\ faulty = {} /\ claimed = 0

MCInit ==
  /\ part \in {"campaign", "local", "b2", "acceptance", "ensemble"}
  /\ Init /\ TreeInit /\ AcceptanceInit
  /\ IF part = "ensemble" THEN EnsembleStarts ELSE EnsembleRests
  /\ EnsembleInit

\* A campaign that may not be launched again rests.
Rest == pc = "down" /\ ~Admissible /\ UNCHANGED vars

\* At most two at once of the launch and the tasks.
AtOnce == Cardinality({t \in Task : doing[t] # "idle"}) + (IF launcher = NoLaunch THEN 0 ELSE 1)
Room == AtOnce <= 2

\* So does a result that no launch and no validation reaches any more.
Unreachable ==
  /\ unit # "active" /\ altered /\ (unit = "failed" \/ JournalActive)
  /\ UNCHANGED acceptanceVars

\* A ranking that is validated or refused.
Over == phase \in {"validated", "refused"} /\ UNCHANGED ensembleVars

MCNext ==
  /\ UNCHANGED part
  /\ \/ /\ part = "campaign" /\ (Next \/ Rest)
        /\ UNCHANGED <<treeVars, acceptanceVars, ensembleVars>>
     \/ /\ part = "local" /\ TreeNext
        /\ UNCHANGED <<vars, acceptanceVars, ensembleVars>>
     \/ /\ part = "b2"
        /\ \E u \in OneTree : OnB2!Look(u) \/ OnB2!Transferring(u) \/ OnB2!Fail(u)
        /\ UNCHANGED <<vars, acceptanceVars, ensembleVars>>
     \/ /\ part = "acceptance" /\ (AcceptanceNext \/ Unreachable) /\ Room'
        /\ UNCHANGED <<vars, treeVars, ensembleVars>>
     \/ /\ part = "ensemble" /\ (EnsembleNext \/ Over)
        /\ UNCHANGED <<vars, treeVars, acceptanceVars>>

\* An operator launches again and submits validations again; what runs goes on.
AcceptanceFairness ==
  /\ SF_acceptanceVars(part = "acceptance" /\ LaunchBegins /\ Room')
  /\ WF_acceptanceVars(part = "acceptance" /\ LaunchStep)
  /\ WF_acceptanceVars(part = "acceptance" /\ WorkerEnds)
  /\ \A t \in Task : WF_acceptanceVars(part = "acceptance" /\ TaskStep(t))
  /\ SF_acceptanceVars(part = "acceptance" /\ ValidateAgain /\ Room')

\* The fairness of Campaign; and a call in progress goes on, and a caller whose
\* call failed calls again.
MCFairSpec ==
  /\ MCInit /\ [][MCNext]_<<part, vars, treeVars, acceptanceVars, ensembleVars>>
  /\ WF_vars(part = "campaign" /\ Work)
  /\ WF_vars(part = "campaign" /\ Launch)
  /\ \A u \in OneTree :
       /\ WF_treeVars(part = "b2" /\ OnB2!Transferring(u))
       /\ SF_treeVars(part = "b2" /\ OnB2!Look(u))
  /\ AcceptanceFairness

\* What Campaign says, of the behaviours that are a campaign's.
FaultsOnlyDelay == part = "campaign" => CampaignFinishes

\* Interrupted as it may be, a tree is published to B2 in the end.  (A local
\* prefix with a torn object refuses it for good.)
UploadCompletes == part = "b2" => \A u \in OneTree : <>(receipt[u] # Missing)
=============================================================================
