--------------------------- MODULE LexicalResume ---------------------------
(***************************************************************************)
(* The staging tree of a lexical run while it is being filled, and the     *)
(* attempts that resume it (src/echoes/lexical/pipeline.py,                *)
(* _run_lexical_pipeline_impl and its checkpoints; the writer of           *)
(* lexical/storage.py; the Tier 3 checkpoint of lexical/experiment.py).    *)
(*                                                                         *)
(* A worker writes table after table, leaf after leaf.  When it is killed  *)
(* or fails, a later one adopts the tree: it skips the tables that the     *)
(* inventory takes for complete, recomputes the primary rankings for the   *)
(* candidate aggregates they do not hold, which a private checkpoint then  *)
(* keeps, reuses the evaluation batches that have a manifest, and compares *)
(* each leaf it computes again with the one that is there.  The identity   *)
(* of a run is that of its configuration and its inputs, so the code may   *)
(* have changed between two attempts.                                      *)
(*                                                                         *)
(* One worker at a time, as cloud_start.sh sees to.  What the hash seals   *)
(* is promoted by LexicalPromotion.  Tables of the same kind are one: the  *)
(* detector scores, the evidence and the ablations are written beside      *)
(* "candidates", the calibration beside "nulls".                           *)
(***************************************************************************)
EXTENDS Integers, Sequences

CONSTANTS
  Edition,        \* editions of the code that attempts are made with
  Rows,           \* Edition -> Output -> what it computes
  Leaves,         \* Table -> in how many leaves
  Batches,        \* number of Tier 3 batches
  MaxInterrupts   \* bound on failures and kills

VARIABLES
  leaf,        \* Table -> its leaves in the staging tree
  checkpoint,  \* of the candidate aggregates: its parts, whether complete.json
               \* is there, and whether it is in quarantine
  batch,       \* the evaluation batches with a manifest, in order
  stray,       \* whether the evaluation checkpoint has a file without one
  described,   \* whether the metadata leaf is written
  hashed,      \* the edition that wrote table-hashes.json
  spill,       \* the spill directories left behind
  worker,      \* the attempt that runs
  interrupts   \* failures and kills so far

tree == <<leaf, described, hashed>>
private == <<checkpoint, batch, stray>>
resumeVars == <<tree, private, spill, worker, interrupts>>

Nobody == "nobody"

\* What the inventory expects, and what is computed again and compared.
Ranking == {"primary", "critical", "ketiv"}
Comparison == {"critical_core_profile", "hebrew_qere_ketiv"}
FromCandidates == {"nulls", "candidates", "queue"}
Table == Ranking \cup Comparison \cup {"evaluation"} \cup FromCandidates
Output == Table \cup {"aggregates", "batch"}

ASSUME ResumeAssumption ==
  /\ Nobody \notin Edition
  /\ Leaves \in [Table -> Nat \ {0}]
  /\ Batches \in Nat /\ MaxInterrupts \in Nat

\* The order of the steps, and where each leads.
After ==
  [primary |-> "critical", critical |-> "ketiv", ketiv |-> "critical_core_profile",
   critical_core_profile |-> "hebrew_qere_ketiv", hebrew_qere_ketiv |-> "batches",
   rebuild |-> "complete", complete |-> "batches", batches |-> "evaluation",
   evaluation |-> "nulls", nulls |-> "candidates", candidates |-> "queue",
   queue |-> "quarantine", quarantine |-> "metadata", metadata |-> "hashes"]

Idle == [at |-> "idle", edition |-> Nobody, part |-> 1, aggregates |-> <<>>]
Attempt(step, e) == [Idle EXCEPT !.at = step, !.edition = e]

At(step) == worker.at = step
Advance == worker' = [worker EXCEPT !.at = After[@], !.part = 1]
Interrupt == interrupts < MaxInterrupts /\ interrupts' = interrupts + 1

-----------------------------------------------------------------------------
(***************************************************************************)
(* Leaves                                                                  *)
(***************************************************************************)

\* The primary rankings and the aggregates come out of the same retrieval.
Mine(output) == Rows[worker.edition][output]

\* The evaluation is assembled from the batches, whoever wrote them; nulls,
\* candidates and queue are computed from the aggregates.
Computed(t) ==
  [rows |-> Mine(t),
   from |-> IF t = "evaluation" THEN batch
            ELSE IF t \in FromCandidates THEN worker.aggregates ELSE <<>>]

Standing(t) == worker.part <= Len(leaf[t])

\* Mutant: a leaf that stands is a duplicate, in a resumed tree too.
AgreesUnlessStanding(t) == ~Standing(t)

\* write_frame: a leaf that stands is compared, and never written again.
Agrees(t) == Standing(t) => leaf[t][worker.part] = Computed(t)

\* A spill directory of the sort stops it before the first row of the queue.
Sortable == At("queue") => "sort" \notin spill

Finished(t) == worker.part = Leaves[t]

Later(t) ==
  [worker EXCEPT !.at = IF Finished(t) THEN After[@] ELSE @,
                 !.part = IF Finished(t) THEN 1 ELSE @ + 1,
                 !.aggregates = IF t = "primary" THEN Append(@, Mine("aggregates")) ELSE @]

WriteLeaf(t) ==
  /\ At(t) /\ Sortable /\ Agrees(t)
  /\ leaf' = IF Standing(t) THEN leaf ELSE [leaf EXCEPT ![t] = Append(@, Computed(t))]
  /\ worker' = Later(t)
  /\ UNCHANGED <<described, hashed, private, spill, interrupts>>

\* The handler removes what the process spilled and takes its checkpoint back
\* out of the quarantine.
Raise ==
  /\ worker' = Idle
  /\ checkpoint' = [checkpoint EXCEPT !.aside = FALSE]
  /\ UNCHANGED <<tree, batch, spill>>

Differs(t) ==
  /\ At(t) /\ ~(Sortable /\ Agrees(t))
  /\ Raise /\ UNCHANGED <<stray, interrupts>>

-----------------------------------------------------------------------------
(***************************************************************************)
(* Adoption of an interrupted tree                                         *)
(***************************************************************************)

\* Mutant: any comparison will do.
InventoriedByRankings ==
  /\ \A t \in Ranking : Len(leaf[t]) > 0
  /\ \E t \in Comparison : Len(leaf[t]) > 0

\* _resume_artifact_inventory: each ranking scope and each comparison has a
\* leaf, with rows; how many there should be is not recorded.
Inventoried == \A t \in Ranking \cup Comparison : Len(leaf[t]) > 0

\* _adopt_existing_state and the check of the prior spill directory.
Adoptable == hashed = Nobody /\ ~described /\ "database" \notin spill

\* Mutant: looked for before the quarantine is given back.
LoadableInPlace == checkpoint.complete /\ ~checkpoint.aside

\* _load_candidate_checkpoint, after register_staging: complete.json is there.
Loadable == checkpoint.complete

\* Mutant: the parts that an unfinished rebuild left stay.
UnfinishedKept == [checkpoint EXCEPT !.complete = FALSE, !.aside = FALSE]

\* _CandidateCheckpointWriter: what is left of an unfinished one is moved out.
Restarted == [parts |-> <<>>, complete |-> FALSE, aside |-> FALSE]

Resume(e) ==
  /\ At("idle") /\ Adoptable /\ Inventoried /\ ~stray
  /\ IF Loadable
       THEN /\ worker' = [Attempt("batches", e) EXCEPT !.aggregates = checkpoint.parts]
            /\ checkpoint' = [checkpoint EXCEPT !.aside = FALSE]
       ELSE /\ worker' = Attempt("rebuild", e)
            /\ checkpoint' = Restarted
  /\ UNCHANGED <<tree, batch, stray, spill, interrupts>>

\* A part of the aggregates is kept when the rankings computed with it are
\* those that stand.
Rebuild ==
  /\ At("rebuild") /\ leaf["primary"][worker.part] = Computed("primary")
  /\ checkpoint' = [checkpoint EXCEPT !.parts = Append(@, Mine("aggregates"))]
  /\ worker' = Later("primary")
  /\ UNCHANGED <<tree, batch, stray, spill, interrupts>>

RebuildDiffers ==
  /\ At("rebuild") /\ leaf["primary"][worker.part] # Computed("primary")
  /\ Raise /\ UNCHANGED <<stray, interrupts>>

\* complete.json
Complete ==
  /\ At("complete")
  /\ checkpoint' = [checkpoint EXCEPT !.complete = TRUE]
  /\ Advance
  /\ UNCHANGED <<tree, batch, stray, spill, interrupts>>

-----------------------------------------------------------------------------
(***************************************************************************)
(* The evaluation, and the end of the build                                *)
(***************************************************************************)

\* _Tier3EvaluationCheckpoint.write: what has a manifest is not made again.
WriteBatch ==
  /\ At("batches") /\ Len(batch) < Batches
  /\ batch' = Append(batch, Mine("batch"))
  /\ UNCHANGED <<tree, checkpoint, stray, spill, worker, interrupts>>

Assemble ==
  /\ At("batches") /\ Len(batch) = Batches
  /\ Advance
  /\ UNCHANGED <<tree, private, spill, interrupts>>

\* quarantine_before_promotion
SetAside ==
  /\ At("quarantine") /\ ~checkpoint.aside
  /\ checkpoint' = [checkpoint EXCEPT !.aside = TRUE]
  /\ Advance
  /\ UNCHANGED <<tree, batch, stray, spill, interrupts>>

Describe ==
  /\ At("metadata")
  /\ described' = TRUE
  /\ Advance
  /\ UNCHANGED <<leaf, hashed, private, spill, interrupts>>

\* table-hashes.json seals the tree; the promotion is another module's.
Hash ==
  /\ At("hashes")
  /\ hashed' = worker.edition
  /\ worker' = Idle
  /\ UNCHANGED <<leaf, described, private, spill, interrupts>>

-----------------------------------------------------------------------------
(***************************************************************************)
(* Failures                                                                *)
(***************************************************************************)

\* A batch that is cut off between its first byte and its manifest leaves a
\* file without one.
CutOff == stray' \in {stray, stray \/ (At("batches") /\ Len(batch) < Batches)}

\* An exception: a resource limit, a full disk, SIGTERM.
AttemptFails ==
  /\ ~At("idle") /\ Interrupt
  /\ Raise /\ CutOff

\* The process is killed with its spill directories in use.
AttemptKilled ==
  /\ ~At("idle") /\ Interrupt
  /\ worker' = Idle /\ CutOff
  /\ spill' \in {spill, spill \cup {"database"},
                 spill \cup (IF At("queue") THEN {"database", "sort"} ELSE {"database"})}
  /\ UNCHANGED <<tree, checkpoint, batch>>

\* The operator removes what was spilled.
CleanSpill ==
  /\ At("idle") /\ spill # {}
  /\ spill' = {}
  /\ UNCHANGED <<tree, private, worker, interrupts>>

-----------------------------------------------------------------------------
\* A staging directory just created.
EmptyTree ==
  /\ leaf = [t \in Table |-> <<>>]
  /\ checkpoint = [parts |-> <<>>, complete |-> FALSE, aside |-> FALSE]
  /\ batch = <<>> /\ stray = FALSE
  /\ described = FALSE /\ hashed = Nobody
  /\ spill = {} /\ interrupts = 0

\* The first attempt has one of its own.
ResumeInit == EmptyTree /\ \E e \in Edition : worker = Attempt("primary", e)

Build ==
  \/ \E t \in Table : WriteLeaf(t) \/ Differs(t)
  \/ Rebuild \/ RebuildDiffers \/ Complete
  \/ WriteBatch \/ Assemble \/ SetAside \/ Describe \/ Hash

ResumeNext ==
  \/ Build
  \/ \E e \in Edition : Resume(e)
  \/ AttemptFails \/ AttemptKilled \/ CleanSpill

ResumeSpec == ResumeInit /\ [][ResumeNext]_resumeVars

\* The worker goes on; the operator launches again, with each edition if need
\* be, and clears the spill, though not at once.
FairResumeSpec ==
  /\ ResumeSpec /\ WF_resumeVars(Build)
  /\ \A e \in Edition : SF_resumeVars(Resume(e))
  /\ SF_resumeVars(CleanSpill)

-----------------------------------------------------------------------------
(***************************************************************************)
(* Properties                                                              *)
(***************************************************************************)
Value == {Rows[e][o] : e \in Edition, o \in Output}
Content == [rows : Value, from : Seq(Value)]
Place == Table \cup {"rebuild", "complete", "batches", "quarantine", "metadata", "hashes", "idle"}

\* Shapes; a worker that runs is made with an edition.
ResumeShapes ==
  /\ leaf \in [Table -> Seq(Content)]
  /\ checkpoint \in [parts : Seq(Value), complete : BOOLEAN, aside : BOOLEAN]
  /\ batch \in Seq(Value) /\ stray \in BOOLEAN
  /\ described \in BOOLEAN /\ hashed \in Edition \cup {Nobody}
  /\ spill \subseteq {"database", "sort"}
  /\ worker \in [at : Place, edition : Edition \cup {Nobody},
                 part : Nat \ {0}, aggregates : Seq(Value)]
  /\ interrupts \in Nat
  /\ At("idle") <=> worker.edition = Nobody

\* What a table is full of when edition e made it, from what it says.
AllOf(t, content) ==
  Len(leaf[t]) = Leaves[t] /\ \A i \in 1..Leaves[t] : leaf[t][i] = content
AggregatesOf(a) == [i \in 1..Leaves["primary"] |-> Rows[a]["aggregates"]]

\* The candidates of a sealed tree follow from its rankings: one edition made
\* the aggregates, whole, with rankings equal to those in the tree, and one
\* edition made nulls, candidates and queue from them, however many attempts
\* by whatever editions wrote the leaves.
CandidatesFollowRankings ==
  hashed # Nobody =>
    \E a \in Edition :
      /\ AllOf("primary", [rows |-> Rows[a]["primary"], from |-> <<>>])
      /\ \A t \in FromCandidates :
           AllOf(t, [rows |-> Rows[hashed][t], from |-> AggregatesOf(a)])

\* What an interrupted attempt can lack in a sealed tree is leaves of the last
\* comparison alone: the inventory looks for its first leaf, and every other
\* table was finished before that or is computed again.
OnlyTheLastComparisonMayLack ==
  hashed # Nobody =>
    \A t \in Table :
      /\ Len(leaf[t]) > 0
      /\ t # "hebrew_qere_ketiv" => Len(leaf[t]) = Leaves[t]

\* "so a later post-retrieval failure does not repeat the recovery": a complete
\* checkpoint and the batches made are there for good, wherever an attempt is
\* cut off and wherever the checkpoint is at that time.
CheckpointSurvives ==
  [][/\ checkpoint.complete => checkpoint'.complete /\ checkpoint'.parts = checkpoint.parts
     /\ SubSeq(batch', 1, Len(batch)) = batch]_resumeVars

\* A rebuild by another edition, with equal rankings, may have kept aggregates
\* that what was written from the earlier ones differs from.
Overtaken ==
  /\ checkpoint.complete
  /\ \E t \in FromCandidates : \E i \in 1..Len(leaf[t]) : leaf[t][i].from # checkpoint.parts

\* A tree that no attempt can finish: it broke off before the last comparison
\* began, within a batch or after its metadata was written, or was overtaken.
Lost == At("idle") /\ (~Inventoried \/ stray \/ described \/ Overtaken)

\* Attempts that go on reach the seal, unless the tree is lost in one of these
\* four ways: whatever else earlier ones left, by the same or by other editions,
\* some edition gets past it.
ResumeFinishes == <>(hashed # Nobody \/ Lost)

\* "Completed critical-core retrieval, Qere/Ketiv retrieval, and both
\* sensitivity comparisons are inventoried and skipped": what is skipped is
\* complete, so a sealed tree is.
SealedIsComplete ==
  hashed # Nobody => \A t \in Table : Len(leaf[t]) = Leaves[t]
=============================================================================
