---------------------------- MODULE MCStageStore ----------------------------
(***************************************************************************)
(* Small instances of StageStore for TLC: a two-stage chain, the shortest  *)
(* graph with an upstream completion to depend on.                         *)
(***************************************************************************)
EXTENDS StageStore, TLC

CONSTANTS s1, s2

MCDependencies == (s1 :> {}) @@ (s2 :> {s1})

AttemptSymmetry == Permutations(Attempt)
=============================================================================
