------------------------------ MODULE Campaign ------------------------------
(***************************************************************************)
(* One production campaign from launch to the cleanup gate                 *)
(* (src/echoes/final_discovery/pipeline.py, run_final_discovery_campaign,  *)
(* with the launch and cleanup inspections of command.py and the stage     *)
(* checkpoints of checkpoints.py).                                         *)
(*                                                                         *)
(* A single worker walks through the stages in order.  Each stage is run   *)
(* or, when its completion is published, skipped; stages 2 to Last are     *)
(* then copied to an object-store prefix of their own.  The last stage     *)
(* assembles a package and uploads it while it is being produced; after it *)
(* come the validation, the campaign seal, the checkpoint that carries the *)
(* seal, and the finalization receipt.  The worker may die anywhere, and   *)
(* is launched again by the operator after an inspection of the output     *)
(* namespace.                                                              *)
(*                                                                         *)
(* Of run_stage, whose details StageStore has, three steps are left: the   *)
(* directory of the attempt, its attempt.json, and the rest, which for a   *)
(* stage other than the last is one step, since an attempt cut off there   *)
(* is recorded and the next call makes another.  Uploading a tree is       *)
(* reduced to a prefix that is empty, then partial, then complete:         *)
(* ObjectTree has the details.  Trees of different attempts are equal,     *)
(* being made from the same write-once completions.                        *)
(***************************************************************************)
EXTENDS Naturals

CONSTANTS
  Last,       \* number of the last stage, package_upload_verify
  Attempt,    \* attempts of the last stage that get as far as an upload tree
  None,       \* no attempt
  MaxFaults   \* bound on crashes, exceptions and stops at the disk floor

ASSUME CampaignAssumption ==
  /\ Last \in Nat /\ Last >= 3
  /\ None \notin Attempt
  /\ MaxFaults \in Nat

Stage == 1..Last
Checkpointed == 2..Last

VARIABLES
  done,       \* stages with a published completion
  bare,       \* stages with an attempt directory that has no attempt.json
  tree,       \* Attempt -> where its complete upload tree is preserved
  published,  \* the attempt the completion of the last stage names
  package,    \* state of the final package's prefix
  payload,    \* stages with a complete payload in a checkpoint workspace
  remote,     \* Checkpointed -> state of the stage's checkpoint prefix
  receipts,   \* stages with a stage-checkpoint-receipt.json
  validated,  \* whether the all-stage validation output is there
  record,     \* campaign-seal.json and finalization-receipt.json
  pc,         \* where the worker is, or "down"
  at,         \* the stage it is at
  mine,       \* its attempt at the last stage
  cleared,    \* whether the cleanup gate has been passed
  faults      \* faults so far

local == <<done, bare, tree, published, payload, receipts, validated>>
stores == <<package, remote>>
worker == <<pc, at, mine>>
vars == <<local, stores, record, worker, cleared, faults>>

Prefix == {"empty", "partial", "complete"}
Record == {"seal", "finalization"}
Opened == [seal |-> "seal-open", finalization |-> "finalization-open"]
Step == {"down", "floor", "stage", "attempt", "produce", "upload", "move", "publish",
         "transfer", "validate", "payload", "send", "receipt"}
        \cup Record \cup {Opened[k] : k \in Record}

Goto(step) == pc' = step /\ UNCHANGED <<at, mine>>

\* The worker is gone; nothing else is.
Down == pc' = "down" /\ at' = 1 /\ mine' = None

\* To the disk-floor assertion before the next stage.
Advance == pc' = "floor" /\ at' = at + 1 /\ UNCHANGED mine

NoFault == UNCHANGED faults
Fault == faults < MaxFaults /\ faults' = faults + 1

\* resume_or_upload_and_verify_tree, one observable step of it.
Filled(state) == IF state = "empty" THEN "partial" ELSE "complete"

(***************************************************************************)
(* Launching                                                               *)
(***************************************************************************)

\* Mutant: the trees of attempts in progress are not looked at.
AdmissiblePublished ==
  /\ \A s \in Checkpointed : remote[s] # "empty" => s \in payload
  /\ package # "empty" => published # None

\* inspect_production_output_namespace: what is in the object store must be
\* part of a tree that is preserved here, under checkpoint-packages, under
\* in-progress of the last stage or under its published attempt.  (A tree
\* whose assembly was cut short decides nothing: its attempt uploaded
\* nothing, and an attempt that did has a complete one.)
Admissible ==
  /\ \A s \in Checkpointed : remote[s] # "empty" => s \in payload
  /\ package # "empty" =>
       \E a \in Attempt : tree[a] = "in-progress" \/ a = published

Launch ==
  /\ pc = "down" /\ Admissible
  /\ pc' = "floor" /\ at' = 1 /\ UNCHANGED mine
  /\ UNCHANGED <<local, stores, record, cleared>> /\ NoFault

\* _assert_checkpoint_disk_floor
Floor ==
  /\ pc = "floor"
  /\ Goto("stage")
  /\ UNCHANGED <<local, stores, record, cleared>> /\ NoFault

FloorReached ==
  /\ pc = "floor"
  /\ Down /\ Fault
  /\ UNCHANGED <<local, stores, record, cleared>>

(***************************************************************************)
(* run_stage                                                               *)
(***************************************************************************)

\* The first stage has no checkpoint, the last one is sealed first.
AfterStage ==
  \/ at = 1 /\ Advance
  \/ at \in 2..(Last - 1) /\ Goto("payload")
  \/ at = Last /\ Goto("transfer")

\* The completion is there and authenticates.
Skip ==
  /\ pc = "stage" /\ at \in done
  /\ AfterStage
  /\ UNCHANGED <<local, stores, record, cleared>> /\ NoFault

\* record_interrupted_attempts raises over a directory without attempt.json.
RefuseBare ==
  /\ pc = "stage" /\ at \notin done /\ at \in bare
  /\ Down
  /\ UNCHANGED <<local, stores, record, cleared>> /\ NoFault

\* in-progress/<uuid>/artifacts is made ...
BeginAttempt ==
  /\ pc = "stage" /\ at \notin done /\ at \notin bare
  /\ bare' = bare \cup {at}
  /\ Goto("attempt")
  /\ UNCHANGED <<done, tree, published, payload, receipts, validated, stores, record, cleared>>
  /\ NoFault

\* ... and attempt.json linked into it.
WriteAttempt ==
  /\ pc = "attempt"
  /\ bare' = bare \ {at}
  /\ Goto("produce")
  /\ UNCHANGED <<done, tree, published, payload, receipts, validated, stores, record, cleared>>
  /\ NoFault

\* A stage other than the last is produced and published.
Run ==
  /\ pc = "produce" /\ at < Last
  /\ done' = done \cup {at}
  /\ AfterStage
  /\ UNCHANGED <<bare, tree, published, payload, receipts, validated, stores, record, cleared>>
  /\ NoFault

\* The last stage links the package together under its attempt.
Assemble(a) ==
  /\ pc = "produce" /\ at = Last /\ tree[a] = "none"
  /\ tree' = [tree EXCEPT ![a] = "in-progress"]
  /\ pc' = "upload" /\ mine' = a /\ UNCHANGED at
  /\ UNCHANGED <<done, bare, published, payload, receipts, validated, stores, record, cleared>>
  /\ NoFault

\* Its producer uploads the package ...
SendPackage ==
  /\ pc = "upload" /\ package # "complete"
  /\ package' = Filled(package)
  /\ UNCHANGED <<local, remote, record, worker, cleared>> /\ NoFault

\* ... and compares every byte.
PackageVerified ==
  /\ pc = "upload" /\ package = "complete"
  /\ Goto("move")
  /\ UNCHANGED <<local, stores, record, cleared>> /\ NoFault

\* Then the attempt is moved to completed-attempts ...
Move ==
  /\ pc = "move"
  /\ tree' = [tree EXCEPT ![mine] = "completed-attempts"]
  /\ Goto("publish")
  /\ UNCHANGED <<done, bare, published, payload, receipts, validated, stores, record, cleared>>
  /\ NoFault

\* ... and its completion published.
Publish ==
  /\ pc = "publish"
  /\ done' = done \cup {Last}
  /\ published' = mine
  /\ pc' = "transfer" /\ mine' = None /\ UNCHANGED at
  /\ UNCHANGED <<bare, tree, payload, receipts, validated, stores, record, cleared>>
  /\ NoFault

(***************************************************************************)
(* Finalization                                                            *)
(***************************************************************************)

\* check_tree once more, for a stage that was skipped as for one that ran.
Transfer ==
  /\ pc = "transfer"
  /\ IF package = "complete" THEN Goto("validate") ELSE Down
  /\ UNCHANGED <<local, stores, record, cleared>> /\ NoFault

\* All-stage validation; its output directory appears by a rename and is
\* authenticated when it is there.
Validate ==
  /\ pc = "validate"
  /\ IF done = Stage
       THEN Goto("seal") /\ validated' = TRUE
       ELSE Down /\ UNCHANGED validated
  /\ UNCHANGED <<done, bare, tree, published, payload, receipts, stores, record, cleared>>
  /\ NoFault

\* _write_or_authenticate_bytes: create the file ...
Create(k) ==
  /\ pc = k /\ record[k] = "absent"
  /\ record' = [record EXCEPT ![k] = "torn"]
  /\ Goto(Opened[k])
  /\ UNCHANGED <<local, stores, cleared>> /\ NoFault

\* The seal is followed by the checkpoint of the last stage, which carries
\* it; the finalization receipt ends the campaign.
AfterRecord(k) == IF k = "seal" THEN Goto("payload") ELSE Down

\* ... and write it through;
Fill(k) ==
  /\ pc = Opened[k]
  /\ record' = [record EXCEPT ![k] = "whole"]
  /\ AfterRecord(k)
  /\ UNCHANGED <<local, stores, cleared>> /\ NoFault

\* Mutant: a record that is there is taken as it is.
Trust(k) ==
  /\ pc = k /\ record[k] # "absent"
  /\ AfterRecord(k)
  /\ UNCHANGED <<local, stores, record, cleared>> /\ NoFault

\* one that is there must have the same bytes.
Authenticate(k) ==
  /\ pc = k /\ record[k] # "absent"
  /\ IF record[k] = "whole" THEN AfterRecord(k) ELSE Down
  /\ UNCHANGED <<local, stores, record, cleared>> /\ NoFault

(***************************************************************************)
(* _upload_stage_checkpoint, in a workspace of its own each time           *)
(***************************************************************************)

\* Link the completion, the artifacts and the supplements together.
Payload ==
  /\ pc = "payload"
  /\ payload' = payload \cup {at}
  /\ Goto("send")
  /\ UNCHANGED <<done, bare, tree, published, receipts, validated, stores, record, cleared>>
  /\ NoFault

Send ==
  /\ pc = "send" /\ remote[at] # "complete"
  /\ remote' = [remote EXCEPT ![at] = Filled(@)]
  /\ UNCHANGED <<local, package, record, worker, cleared>> /\ NoFault

\* Mutant: a checkpoint that has been started is good enough.
SentPartly ==
  /\ pc = "send" /\ remote[at] # "empty"
  /\ Goto("receipt")
  /\ UNCHANGED <<local, stores, record, cleared>> /\ NoFault

Sent ==
  /\ pc = "send" /\ remote[at] = "complete"
  /\ Goto("receipt")
  /\ UNCHANGED <<local, stores, record, cleared>> /\ NoFault

\* stage-checkpoint-receipt.json, then the next stage or the end.
Receipt ==
  /\ pc = "receipt"
  /\ receipts' = receipts \cup {at}
  /\ IF at < Last THEN Advance ELSE Goto("finalization")
  /\ UNCHANGED <<done, bare, tree, published, payload, validated, stores, record, cleared>>
  /\ NoFault

(***************************************************************************)
(* Outside the worker                                                      *)
(***************************************************************************)

\* Mutant: the gate is satisfied with a seal and what it authorizes.
VerifySealOnly ==
  /\ done = Stage /\ record["seal"] = "whole" /\ validated
  /\ cleared' = TRUE
  /\ UNCHANGED <<local, stores, record, worker>> /\ NoFault

\* verify_production_finalization_for_cleanup, whether or not a worker runs.
Verify ==
  /\ ~cleared
  /\ done = Stage
  /\ Last \in receipts
  /\ \A k \in Record : record[k] = "whole"
  /\ remote[Last] = "complete"
  /\ cleared' = TRUE
  /\ UNCHANGED <<local, stores, record, worker>> /\ NoFault

\* The worker dies, is stopped, or an exception ends it.
Crash ==
  /\ pc # "down"
  /\ Down /\ Fault
  /\ UNCHANGED <<local, stores, record, cleared>>

-----------------------------------------------------------------------------
Init ==
  /\ done = {} /\ bare = {}
  /\ tree = [a \in Attempt |-> "none"]
  /\ published = None
  /\ package = "empty"
  /\ payload = {}
  /\ remote = [s \in Checkpointed |-> "empty"]
  /\ receipts = {}
  /\ validated = FALSE
  /\ record = [k \in Record |-> "absent"]
  /\ pc = "down" /\ at = 1 /\ mine = None
  /\ cleared = FALSE
  /\ faults = 0

Work ==
  \/ Floor \/ Skip \/ RefuseBare \/ BeginAttempt \/ WriteAttempt
  \/ Run \/ \E a \in Attempt : Assemble(a)
  \/ SendPackage \/ PackageVerified \/ Move \/ Publish
  \/ Transfer \/ Validate
  \/ \E k \in Record : Create(k) \/ Fill(k) \/ Authenticate(k)
  \/ Payload \/ Send \/ Sent \/ Receipt

Next == Launch \/ Work \/ FloorReached \/ Crash \/ Verify

Spec == Init /\ [][Next]_vars

\* A worker that is up goes on, and the operator launches one when it can be.
FairSpec == Spec /\ WF_vars(Work) /\ WF_vars(Launch)

-----------------------------------------------------------------------------
(***************************************************************************)
(* Properties                                                              *)
(***************************************************************************)

\* Shapes; the completion of the last stage names an attempt that has moved,
\* and the worker holds an attempt from its assembly to its publication.
TypeOK ==
  /\ done \subseteq Stage /\ bare \subseteq Stage
  /\ tree \in [Attempt -> {"none", "in-progress", "completed-attempts"}]
  /\ published \in Attempt \cup {None}
  /\ package \in Prefix
  /\ payload \subseteq Checkpointed
  /\ remote \in [Checkpointed -> Prefix]
  /\ receipts \subseteq Checkpointed
  /\ validated \in BOOLEAN
  /\ record \in [Record -> {"absent", "torn", "whole"}]
  /\ pc \in Step /\ at \in Stage /\ mine \in Attempt \cup {None}
  /\ cleared \in BOOLEAN /\ faults \in Nat
  /\ Last \in done <=> published # None
  /\ mine # None <=> pc \in {"upload", "move", "publish"}

\* No stage is computed while the results of an earlier one are not durable,
\* however often the worker died between the two and skipped stages later.
CheckpointsPrecede ==
  \A s \in done : \A r \in 2..(s - 1) : remote[r] = "complete"

\* The records say nothing that is not so.  The seal, from its first byte on,
\* stands for all completions, the package and the checkpoints before the last
\* one; the finalization receipt for a whole seal and the last checkpoint.
RecordsAreSound ==
  /\ record["seal"] # "absent" =>
       /\ done = Stage /\ validated /\ package = "complete"
       /\ \A s \in 2..(Last - 1) : remote[s] = "complete"
  /\ record["finalization"] # "absent" =>
       /\ record["seal"] = "whole"
       /\ Last \in receipts /\ remote[Last] = "complete"

\* The gate looks at one prefix.  When it opens, all of them are complete.
CleanupIsSafe ==
  cleared => package = "complete" /\ \A s \in Checkpointed : remote[s] = "complete"

\* A relaunch undoes nothing: what was published, stored, preserved or written
\* whole stays so.
NothingIsUndone ==
  [][/\ done \subseteq done' /\ receipts \subseteq receipts'
     /\ published # None => published' = published
     /\ \A a \in Attempt : tree[a] # "none" => tree'[a] # "none"
     /\ \A s \in Checkpointed : remote[s] = "complete" => remote'[s] = "complete"
     /\ \A k \in Record : record[k] = "whole" => record'[k] = "whole"]_vars

\* "this deterministic binding is stable across restarts": without a fault, a
\* seal left by an earlier worker never ends a later one.
RerunsAuthenticate ==
  [][(pc = "seal" /\ pc' = "down") => faults' # faults]_vars

\* The inspection rejects "locally non-resumable" state only: as long as
\* nothing foreign is in the namespace, the operator can launch again.
RestartAdmitted == pc = "down" => Admissible

\* A record cut off by the end of its writer, and a package whose only tree
\* was moved by a worker that died before it published the completion.
TornRecord == pc = "down" /\ \E k \in Record : record[k] = "torn"
Stranded ==
  /\ pc = "down" /\ published = None /\ package = "complete"
  /\ \A a \in Attempt : tree[a] # "in-progress"

\* An attempt directory whose maker died before it wrote attempt.json: every
\* later call of run_stage for the stage raises (run store_torn).
TornAttempt == pc = "down" /\ bare # {}

\* Faults only delay the campaign, but for these three.
CampaignFinishes ==
  <>(record["finalization"] = "whole" \/ TornRecord \/ Stranded \/ TornAttempt)

Durable == INSTANCE DurablePipeline WITH
  computed <- done,
  durable <- {s \in Checkpointed : remote[s] = "complete"},
  certified <- record["finalization"] = "whole"

\* The campaign keeps the promise of DurablePipeline.
ImplementsDurable == Durable!Spec
=============================================================================
