-------------------------- MODULE DurablePipeline --------------------------
(***************************************************************************)
(* What a campaign promises about the stages it runs: they are computed in *)
(* order, the results of every stage but the first are made durable before *)
(* the next stage is computed, and the campaign is certified only when     *)
(* everything is computed and durable.  Nothing is ever taken back.        *)
(***************************************************************************)
EXTENDS Naturals

CONSTANT Last     \* number of the last stage

VARIABLES
  computed,   \* stages whose completion is published
  durable,    \* stages whose checkpoint is complete in the object store
  certified   \* whether the finalization receipt is written

pipelineVars == <<computed, durable, certified>>

Init == computed = {} /\ durable = {} /\ certified = FALSE

Compute(s) ==
  /\ s \notin computed
  /\ 1..(s - 1) \subseteq computed
  /\ 2..(s - 1) \subseteq durable
  /\ computed' = computed \cup {s}
  /\ UNCHANGED <<durable, certified>>

Persist(s) ==
  /\ s \in computed \ durable
  /\ durable' = durable \cup {s}
  /\ UNCHANGED <<computed, certified>>

Certify ==
  /\ ~certified
  /\ computed = 1..Last /\ durable = 2..Last
  /\ certified' = TRUE
  /\ UNCHANGED <<computed, durable>>

Next ==
  \/ \E s \in 1..Last : Compute(s)
  \/ \E s \in 2..Last : Persist(s)
  \/ Certify

Spec == Init /\ [][Next]_pipelineVars
=============================================================================
