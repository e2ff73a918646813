-------------------------- MODULE MCLexicalResume --------------------------
(***************************************************************************)
(* Small instances of LexicalResume for TLC: three editions of the code.   *)
(* The second finds other aggregates behind the same rankings and other    *)
(* batches, the third other rankings and other candidates.  Tables have    *)
(* two leaves where it matters that they may be cut off between them.      *)
(***************************************************************************)
EXTENDS LexicalResume

MCRows ==
  [e \in Edition |->
    [o \in Output |->
      IF \/ e = "e2" /\ o \in {"aggregates", "batch"}
         \/ e = "e3" /\ o \in {"primary", "candidates"} THEN "new" ELSE "old"]]
MCLeaves ==
  [t \in Table |-> IF t \in {"primary", "hebrew_qere_ketiv", "candidates"} THEN 2 ELSE 1]
=============================================================================
