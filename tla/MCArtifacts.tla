---------------------------- MODULE MCArtifacts -----------------------------
(***************************************************************************)
(* Small instances for TLC of the four modules about artifacts on disk:    *)
(* DirectorySwap, BenchmarkLeakage, RecoveryImport and ServerDatabase.     *)
(* They share neither state nor code, so a behaviour is one of one of      *)
(* them: the first state says of which, and the variables of the others    *)
(* rest.                                                                   *)
(***************************************************************************)
EXTENDS DirectorySwap, BenchmarkLeakage, RecoveryImport, ServerDatabase

VARIABLE part

At(b, s, e) == [book |-> b, start |-> s, end |-> e]

\* One verse, a range, a verse within it, its last verse, the next book.
MCRange == {At(1, 1, 1), At(1, 1, 3), At(1, 2, 2), At(1, 3, 3), At(2, 1, 1)}

\* The order of the two endpoints makes no difference.
Rank(i) == 100 * i.book + 10 * i.start + i.end
MCEndpointPairs == {p \in [{1, 2} -> MCRange] : Rank(p[1]) <= Rank(p[2])}

\* The second version has the first one's stage 1 and a stage 2 of its own.
MCProduced ==
  [v \in Version |-> [s \in {1, 2} |-> IF v = Original \/ s = 1 THEN "a" ELSE "b"]]

serverVars == vars

MCInit ==
  /\ part \in {"swap", "leakage", "import", "server"}
  /\ SwapInit /\ LeakageInit /\ ImportInit /\ ServerInit
  /\ part # "swap" => style = "corpus" /\ force = {} /\ output = NoTree
  /\ part # "leakage" => \A r \in Relationship, s \in Side : ends[r][s] = At(1, 1, 1)

MCNext ==
  /\ UNCHANGED part
  /\ \/ /\ part = "swap" /\ SwapNext
        /\ UNCHANGED <<leakageVars, importVars, serverVars>>
     \/ /\ part = "leakage" /\ LeakageNext
        /\ UNCHANGED <<swapVars, importVars, serverVars>>
     \/ /\ part = "import" /\ ImportNext
        /\ UNCHANGED <<swapVars, leakageVars, serverVars>>
     \/ /\ part = "server" /\ ServerNext
        /\ UNCHANGED <<swapVars, leakageVars, importVars>>

MCVars == <<part, swapVars, leakageVars, importVars, serverVars>>

\* A bootstrap that can go on does, or is begun again.
MCFairness ==
  \A s \in Shell :
    WF_MCVars(/\ part = "server" /\ BootstrapStep(s)
              /\ UNCHANGED <<part, swapVars, leakageVars, importVars>>)

MCSpec == MCInit /\ [][MCNext]_MCVars /\ MCFairness

\* EventuallyValidated, of the behaviours of the server: a bootstrap that is
\* run again after every interruption passes, wherever it was interrupted.
BootstrapPasses == part = "server" => EventuallyValidated
=============================================================================
