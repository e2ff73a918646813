--------------------------- MODULE CampaignProofs ---------------------------
(***************************************************************************)
(* Proofs about Campaign, for every number of stages and any attempts, and *)
(* about Acceptance, for any number of submissions and of deaths.          *)
(*                                                                         *)
(* Campaign: the inductive invariant adds to the checked invariants what   *)
(* holds of the worker at each point of its walk (Walk), and that the      *)
(* completion of the last stage and the checkpoint receipts are about      *)
(* complete prefixes.                                                      *)
(*                                                                         *)
(* Acceptance: a worker runs over no promotion (WorkerIsNew), so one that  *)
(* is committed stays so, and one that is sealed stays so with no worker.  *)
(* A receipt of a recovery that tells of a commit is true from then on,    *)
(* also for the validation that relies on it to end the execution          *)
(* (Recovered, Concluding); what an audit found is so when the receipt is  *)
(* written (Auditing).  Without a hurried submission one task goes on at a *)
(* time, and the files name it (Unhurried).                                *)
(***************************************************************************)
EXTENDS Campaign, Acceptance, TLAPS

\* Points at the last stage before its completion is published.
Uploading == {"upload", "move", "publish"}
\* Points after it.
Finalizing == {"transfer", "validate", "seal", "seal-open", "finalization", "finalization-open"}
\* Points of a checkpoint.
Checkpointing == {"payload", "send", "receipt"}

\* Wherever the worker is, the stages before are computed and durable, and
\* what it has done at this one is in the files.
Walk ==
  pc # "down" =>
    /\ \A s \in Stage : s < at => s \in done
    /\ \A r \in Checkpointed : r < at => remote[r] = "complete"
    /\ pc \in Uploading \cup Finalizing => at = Last
    /\ pc \in {"attempt", "produce"} => at \notin done
    /\ pc \in Uploading => Last \notin done
    /\ pc \in {"move", "publish"} => package = "complete"
    /\ pc \in Checkpointing => at \in Checkpointed
    /\ pc \in Checkpointing \cup Finalizing => at \in done
    /\ pc = "receipt" => remote[at] = "complete"
    /\ pc \in {"seal", "seal-open"} => validated
    /\ pc \in {"finalization", "finalization-open"} =>
         Last \in receipts /\ remote[Last] = "complete"
    /\ (pc \in Checkpointing /\ at = Last) \/ pc \in {"finalization", "finalization-open"} =>
         record["seal"] = "whole"

\* A published package stage has its package in the store.
PackageStored == Last \in done => package = "complete"

IInv ==
  TypeOK /\ Walk /\ PackageStored /\ CheckpointsPrecede /\ RecordsAreSound /\ CleanupIsSafe

\* Last is at least three: the first, the last and one between are different.
LEMMA StageNumbers ==
  /\ Last \in Nat /\ 3 <= Last
  /\ Last \in Stage /\ Last \in Checkpointed /\ 1 \in Stage
  /\ Checkpointed \subseteq Stage
  /\ \A s \in Stage : s \in Nat /\ 1 <= s /\ s <= Last
  /\ \A s \in Checkpointed : s \in Nat /\ 2 <= s /\ s <= Last
  /\ \A s \in Nat : (1 <= s /\ s <= Last) => s \in Stage
  /\ \A s \in Nat : (2 <= s /\ s <= Last) => s \in Checkpointed
BY CampaignAssumption DEF Stage, Checkpointed

\* The two records and their points.
LEMMA RecordPoints ==
  /\ Record = {"seal", "finalization"}
  /\ Opened["seal"] = "seal-open" /\ Opened["finalization"] = "finalization-open"
BY DEF Record, Opened

\* The empty campaign satisfies the invariant.
LEMMA InitInvariant == Init => IInv
<1> SUFFICES ASSUME Init PROVE IInv
  OBVIOUS
<1>1. TypeOK
  BY StageNumbers, CampaignAssumption DEF Init, TypeOK, Prefix, Step, Record
<1>2. Walk /\ PackageStored /\ CheckpointsPrecede /\ CleanupIsSafe
  BY DEF Init, Walk, PackageStored, CheckpointsPrecede, CleanupIsSafe
<1>3. RecordsAreSound
  BY RecordPoints DEF Init, RecordsAreSound
<1>4. QED
  BY <1>1, <1>2, <1>3 DEF IInv

\* Every step keeps the shapes, and an attempt is held from its assembly to
\* its publication only.
LEMMA TypeStep == IInv /\ [Next]_vars => TypeOK'
<1> SUFFICES ASSUME IInv, [Next]_vars PROVE TypeOK'
  OBVIOUS
<1> USE StageNumbers, RecordPoints, CampaignAssumption
    DEF IInv, TypeOK, Prefix, Step, Goto, Down, Advance, NoFault, Fault, local, stores, worker
<1>1. CASE Launch
  BY <1>1 DEF Launch
<1>2. CASE Floor
  BY <1>2 DEF Floor
<1>3. CASE Skip
  BY <1>3 DEF Skip, AfterStage
<1>4. CASE Run
  BY <1>4 DEF Run, AfterStage
<1>5. ASSUME NEW a \in Attempt, Assemble(a) PROVE TypeOK'
  BY <1>5 DEF Assemble
<1>6. CASE SendPackage
  BY <1>6 DEF SendPackage, Filled
<1>7. CASE PackageVerified
  BY <1>7 DEF PackageVerified
<1>8. CASE Move
  BY <1>8 DEF Move
<1>9. CASE Publish
  BY <1>9 DEF Publish, Walk, Uploading
<1>10. CASE Transfer
  BY <1>10 DEF Transfer
<1>11. CASE Validate
  BY <1>11 DEF Validate
<1>12. ASSUME NEW k \in Record, Create(k) \/ Fill(k) \/ Authenticate(k) PROVE TypeOK'
  BY <1>12 DEF Create, Fill, Authenticate, AfterRecord
<1>13. CASE Payload
  BY <1>13 DEF Payload, Walk, Checkpointing
<1>14. CASE Send
  BY <1>14 DEF Send, Filled, Walk, Checkpointing
<1>15. CASE Sent
  BY <1>15 DEF Sent
<1>16. CASE Receipt
  BY <1>16 DEF Receipt, Walk, Checkpointing
<1>17. CASE FloorReached \/ Crash \/ Verify
  <2>1. cleared' \in BOOLEAN
    BY <1>17 DEF FloorReached, Crash, Verify
  <2>2. UNCHANGED <<local, stores, record>> /\ faults' \in Nat
    BY <1>17 DEF FloorReached, Crash, Verify
  <2>3. (pc' = "down" /\ at' = 1 /\ mine' = None) \/ UNCHANGED worker
    BY <1>17 DEF FloorReached, Crash, Verify
  <2>4. QED
    BY <2>1, <2>2, <2>3
<1>18. CASE RefuseBare
  BY <1>18 DEF RefuseBare
<1>19. CASE BeginAttempt \/ WriteAttempt
  <2>1. bare' \subseteq Stage
    BY <1>19 DEF BeginAttempt, WriteAttempt
  <2>2. pc' \in {"attempt", "produce"} /\ pc \in {"stage", "attempt"} /\ UNCHANGED <<at, mine>>
    BY <1>19 DEF BeginAttempt, WriteAttempt
  <2>3. UNCHANGED <<done, tree, published, payload, receipts, validated, stores, record, cleared,
                    faults>>
    BY <1>19 DEF BeginAttempt, WriteAttempt
  <2>4. QED
    BY <2>1, <2>2, <2>3
<1>20. CASE UNCHANGED vars
  BY <1>20 DEF vars
<1>21. QED
  BY <1>1, <1>2, <1>3, <1>4, <1>5, <1>6, <1>7, <1>8, <1>9, <1>10, <1>11, <1>12, <1>13,
     <1>14, <1>15, <1>16, <1>17, <1>18, <1>19, <1>20 DEF Next, Work

\* Every step keeps what holds of the worker.
LEMMA WalkStep == IInv /\ [Next]_vars => Walk'
<1> SUFFICES ASSUME IInv, [Next]_vars PROVE Walk'
  OBVIOUS
<1> USE StageNumbers, RecordPoints, CampaignAssumption
    DEF IInv, TypeOK, Walk, Uploading, Finalizing, Checkpointing, Goto, Down, Advance, local,
        stores, worker
<1>1. CASE Launch
  BY <1>1 DEF Launch
<1>2. CASE Floor
  BY <1>2 DEF Floor
<1>3. CASE Skip
  BY <1>3 DEF Skip, AfterStage
<1>4. CASE Run \/ RefuseBare \/ BeginAttempt \/ WriteAttempt
  BY <1>4 DEF Run, AfterStage, RefuseBare, BeginAttempt, WriteAttempt
<1>5. ASSUME NEW a \in Attempt, Assemble(a) PROVE Walk'
  BY <1>5 DEF Assemble
<1>6. CASE SendPackage
  BY <1>6 DEF SendPackage
<1>7. CASE PackageVerified
  BY <1>7 DEF PackageVerified
<1>8. CASE Move
  BY <1>8 DEF Move
<1>9. CASE Publish
  BY <1>9 DEF Publish
<1>10. CASE Transfer
  BY <1>10 DEF Transfer
<1>11. CASE Validate
  BY <1>11 DEF Validate
<1>12. ASSUME NEW k \in Record, Create(k) PROVE Walk'
  BY <1>12 DEF Create
<1>13. ASSUME NEW k \in Record, Fill(k) PROVE Walk'
  BY <1>13 DEF Fill, AfterRecord
<1>14. ASSUME NEW k \in Record, Authenticate(k) PROVE Walk'
  BY <1>14 DEF Authenticate, AfterRecord
<1>15. CASE Payload
  BY <1>15 DEF Payload
<1>16. CASE Send
  BY <1>16 DEF Send
<1>17. CASE Sent
  BY <1>17 DEF Sent
<1>18. CASE Receipt
  BY <1>18 DEF Receipt
<1>19. CASE FloorReached \/ Crash \/ Verify
  BY <1>19 DEF FloorReached, Crash, Verify
<1>20. CASE UNCHANGED vars
  BY <1>20 DEF vars
<1>21. QED
  BY <1>1, <1>2, <1>3, <1>4, <1>5, <1>6, <1>7, <1>8, <1>9, <1>10, <1>11, <1>12, <1>13,
     <1>14, <1>15, <1>16, <1>17, <1>18, <1>19, <1>20 DEF Next, Work

\* Every step keeps the invariants about files and stores.
LEMMA StoresStep ==
  IInv /\ [Next]_vars =>
    PackageStored' /\ CheckpointsPrecede' /\ RecordsAreSound' /\ CleanupIsSafe'
<1> SUFFICES ASSUME IInv, [Next]_vars
             PROVE PackageStored' /\ CheckpointsPrecede' /\ RecordsAreSound' /\ CleanupIsSafe'
  OBVIOUS
<1> USE StageNumbers, RecordPoints, CampaignAssumption
    DEF IInv, TypeOK, PackageStored, RecordsAreSound, CleanupIsSafe, local, stores
<1>1. CASE Run
  <2>1. PackageStored' /\ RecordsAreSound' /\ CleanupIsSafe'
    BY <1>1 DEF Run
  <2>2. CheckpointsPrecede'
    BY <1>1 DEF Run, CheckpointsPrecede, Walk, Stage, Checkpointed
  <2>3. QED
    BY <2>1, <2>2
<1>2. ASSUME NEW a \in Attempt, Assemble(a)
      PROVE PackageStored' /\ CheckpointsPrecede' /\ RecordsAreSound' /\ CleanupIsSafe'
  BY <1>2 DEF Assemble, CheckpointsPrecede
<1>3. CASE SendPackage
  BY <1>3 DEF SendPackage, CheckpointsPrecede, Filled
<1>4. CASE Move
  BY <1>4 DEF Move, CheckpointsPrecede
<1>5. CASE Publish
  <2>1. PackageStored' /\ RecordsAreSound' /\ CleanupIsSafe'
    BY <1>5 DEF Publish, Walk
  <2>2. CheckpointsPrecede'
    BY <1>5 DEF Publish, CheckpointsPrecede, Walk, Uploading, Stage, Checkpointed
  <2>3. QED
    BY <2>1, <2>2
<1>6. CASE Validate
  BY <1>6 DEF Validate, CheckpointsPrecede
<1>7. ASSUME NEW k \in Record, Create(k) \/ Fill(k)
      PROVE PackageStored' /\ CheckpointsPrecede' /\ RecordsAreSound' /\ CleanupIsSafe'
  <2>1. UNCHANGED <<done, package, validated, receipts, remote, cleared>>
    BY <1>7 DEF Create, Fill
  <2>2. record' = [record EXCEPT ![k] = "torn"] \/ record' = [record EXCEPT ![k] = "whole"]
    BY <1>7 DEF Create, Fill
  <2>3. PackageStored' /\ CheckpointsPrecede' /\ CleanupIsSafe'
    BY <2>1 DEF CheckpointsPrecede
  <2>4. CASE k = "seal"
    <3>1. pc \in {"seal", "seal-open"} /\ (pc = "seal" => record["seal"] = "absent")
      BY <1>7, <2>4 DEF Create, Fill
    <3>2. done = Stage /\ package = "complete" /\ validated
      <4>1. at = Last /\ at \in done /\ validated /\ \A s \in Stage : s < at => s \in done
        BY <3>1 DEF Walk, Finalizing
      <4>2. \A s \in Stage : s = Last \/ s < Last
        BY DEF Stage
      <4>3. QED
        BY <4>1, <4>2
    <3>3. \A s \in 2..(Last - 1) : remote[s] = "complete"
      <4>1. at = Last /\ \A r \in Checkpointed : r < at => remote[r] = "complete"
        BY <3>1 DEF Walk, Finalizing
      <4>2. \A s \in 2..(Last - 1) : s \in Checkpointed /\ s < Last
        BY DEF Checkpointed
      <4>3. QED
        BY <4>1, <4>2
    <3>4. UNCHANGED record["finalization"]
      BY <2>2, <2>4
    <3>5. record["finalization"] # "absent" => record'["seal"] = "whole"
      <4>1. record["finalization"] # "absent" => record["seal"] = "whole"
        OBVIOUS
      <4>2. Create(k) => record["seal"] = "absent"
        BY <2>4 DEF Create
      <4>3. Fill(k) => record' = [record EXCEPT !["seal"] = "whole"]
        BY <2>4 DEF Fill
      <4>4. record \in [Record -> {"absent", "torn", "whole"}]
        OBVIOUS
      <4>5. Fill(k) => record'["seal"] = "whole"
        BY <4>3, <4>4
      <4>6. QED
        BY <1>7, <4>1, <4>2, <4>5
    <3>6. QED
      BY <2>1, <2>3, <3>2, <3>3, <3>4, <3>5
  <2>5. CASE k = "finalization"
    <3>1. pc \in {"finalization", "finalization-open"}
      BY <1>7, <2>5 DEF Create, Fill
    <3>2. record["seal"] = "whole" /\ Last \in receipts /\ remote[Last] = "complete"
      BY <3>1 DEF Walk
    <3>3. UNCHANGED record["seal"]
      BY <2>2, <2>5
    <3>4. QED
      BY <2>1, <2>3, <3>2, <3>3
  <2>6. QED
    BY <2>4, <2>5
<1>8. CASE Payload \/ Receipt \/ BeginAttempt \/ WriteAttempt
  <2>1. /\ UNCHANGED <<done, package, validated, record, remote, cleared>>
        /\ receipts \subseteq receipts'
    BY <1>8 DEF Payload, Receipt, BeginAttempt, WriteAttempt
  <2>2. QED
    BY <2>1 DEF CheckpointsPrecede
<1>9. CASE Send
  <2>1. \A s \in Checkpointed : remote[s] = "complete" => remote'[s] = "complete"
    BY <1>9 DEF Send
  <2>2. UNCHANGED <<done, package, receipts, validated, record, cleared>>
    BY <1>9 DEF Send
  <2>3. PackageStored' /\ RecordsAreSound' /\ CleanupIsSafe'
    BY <2>1, <2>2 DEF Checkpointed
  <2>4. CheckpointsPrecede'
    BY <2>1, <2>2 DEF CheckpointsPrecede, Checkpointed
  <2>5. QED
    BY <2>3, <2>4
<1>10. CASE Verify
  <2>1. \A s \in Checkpointed : remote[s] = "complete"
    BY <1>10 DEF Verify, Checkpointed
  <2>2. QED
    BY <1>10, <2>1 DEF Verify, CheckpointsPrecede
<1>11. ASSUME UNCHANGED <<local, stores, record, cleared>>
       PROVE PackageStored' /\ CheckpointsPrecede' /\ RecordsAreSound' /\ CleanupIsSafe'
  BY <1>11 DEF CheckpointsPrecede
<1>12. ASSUME Launch \/ Floor \/ FloorReached \/ Skip \/ PackageVerified \/ Transfer \/ Sent
              \/ Crash \/ RefuseBare \/ (\E k \in Record : Authenticate(k)) \/ UNCHANGED vars
       PROVE UNCHANGED <<local, stores, record, cleared>>
  BY <1>12 DEF Launch, Floor, FloorReached, Skip, PackageVerified, Transfer, Sent, Crash,
               RefuseBare, Authenticate, vars
<1>13. QED
  BY <1>1, <1>2, <1>3, <1>4, <1>5, <1>6, <1>7, <1>8, <1>9, <1>10, <1>11, <1>12 DEF Next, Work

\* IInv is an invariant of the campaign.
THEOREM CampaignInvariant == Spec => []IInv
<1>1. IInv /\ [Next]_vars => IInv'
  BY TypeStep, WalkStep, StoresStep DEF IInv
<1>2. QED
  BY <1>1, InitInvariant, PTL DEF Spec

\* For every number of stages, the state of files, stores and worker is well
\* formed (run campaign checks it for four).
THEOREM CampaignTypeOK == Spec => []TypeOK
<1>1. IInv => TypeOK
  BY DEF IInv
<1>2. QED
  BY <1>1, CampaignInvariant, PTL

\* No stage is computed while the results of an earlier one are not durable:
\* _upload_stage_checkpoint is repeated for a stage that is skipped.
THEOREM CampaignCheckpointsPrecede == Spec => []CheckpointsPrecede
<1>1. IInv => CheckpointsPrecede
  BY DEF IInv
<1>2. QED
  BY <1>1, CampaignInvariant, PTL

\* The seal and the finalization receipt say what is so from their first byte.
THEOREM CampaignRecordsAreSound == Spec => []RecordsAreSound
<1>1. IInv => RecordsAreSound
  BY DEF IInv
<1>2. QED
  BY <1>1, CampaignInvariant, PTL

\* When the cleanup gate has opened, every registered prefix is complete.
THEOREM CampaignCleanupIsSafe == Spec => []CleanupIsSafe
<1>1. IInv => CleanupIsSafe
  BY DEF IInv
<1>2. QED
  BY <1>1, CampaignInvariant, PTL

\* A relaunch undoes nothing of what earlier workers published, stored,
\* preserved or wrote whole.
LEMMA UndoneStep ==
  IInv /\ [Next]_vars =>
    /\ done \subseteq done' /\ receipts \subseteq receipts'
    /\ published # None => published' = published
    /\ \A a \in Attempt : tree[a] # "none" => tree'[a] # "none"
    /\ \A s \in Checkpointed : remote[s] = "complete" => remote'[s] = "complete"
    /\ \A k \in Record : record[k] = "whole" => record'[k] = "whole"
<1> SUFFICES ASSUME IInv, [Next]_vars
             PROVE /\ done \subseteq done' /\ receipts \subseteq receipts'
                   /\ published # None => published' = published
                   /\ \A a \in Attempt : tree[a] # "none" => tree'[a] # "none"
                   /\ \A s \in Checkpointed :
                        remote[s] = "complete" => remote'[s] = "complete"
                   /\ \A k \in Record : record[k] = "whole" => record'[k] = "whole"
  OBVIOUS
<1>1. done \subseteq done' /\ receipts \subseteq receipts'
  BY DEF Next, Work, vars, local, Launch, Floor, FloorReached, Skip,
         RefuseBare, BeginAttempt, WriteAttempt, Run, Assemble, SendPackage,
         PackageVerified, Move, Publish, Transfer, Validate, Create, Fill, Authenticate, Payload,
         Send, Sent, Receipt, Crash, Verify
<1>2. published # None => published' = published
  <2>1. CASE Publish
    BY <2>1 DEF Publish, IInv, TypeOK, Walk, Uploading
  <2>2. CASE ~Publish
    BY <2>2 DEF Next, Work, vars, local, Launch, Floor, FloorReached, Skip,
                RefuseBare, BeginAttempt, WriteAttempt, Run, Assemble,
                SendPackage, PackageVerified, Move, Transfer, Validate, Create, Fill,
                Authenticate, Payload, Send, Sent, Receipt, Crash, Verify
  <2>3. QED
    BY <2>1, <2>2
<1>3. \A a \in Attempt : tree[a] # "none" => tree'[a] # "none"
  <2>1. UNCHANGED tree \/ Move \/ \E a \in Attempt : Assemble(a)
    BY DEF Next, Work, vars, local, Launch, Floor, FloorReached, Skip,
           RefuseBare, BeginAttempt, WriteAttempt, Run, SendPackage,
           PackageVerified, Publish, Transfer, Validate, Create, Fill, Authenticate, Payload,
           Send, Sent, Receipt, Crash, Verify
  <2>2. QED
    BY <2>1 DEF Move, Assemble, IInv, TypeOK
<1>4. \A s \in Checkpointed : remote[s] = "complete" => remote'[s] = "complete"
  <2>1. UNCHANGED remote \/ Send
    BY DEF Next, Work, vars, stores, Launch, Floor, FloorReached, Skip,
           RefuseBare, BeginAttempt, WriteAttempt, Run, Assemble,
           SendPackage, PackageVerified, Move, Publish, Transfer, Validate, Create, Fill,
           Authenticate, Payload, Sent, Receipt, Crash, Verify
  <2>2. QED
    BY <2>1 DEF Send, IInv, TypeOK
<1>5. \A k \in Record : record[k] = "whole" => record'[k] = "whole"
  <2>1. UNCHANGED record \/ \E k \in Record : Create(k) \/ Fill(k)
    BY DEF Next, Work, vars, Launch, Floor, FloorReached, Skip,
           RefuseBare, BeginAttempt, WriteAttempt, Run, Assemble, SendPackage,
           PackageVerified, Move, Publish, Transfer, Validate, Authenticate, Payload, Send,
           Sent, Receipt, Crash, Verify
  <2>2. QED
    BY <2>1 DEF Create, Fill, IInv, TypeOK
<1>6. QED
  BY <1>1, <1>2, <1>3, <1>4, <1>5

\* The action property the run campaign checks.
THEOREM CampaignNothingIsUndone == Spec => NothingIsUndone
<1>1. IInv /\ [Next]_vars =>
        [/\ done \subseteq done' /\ receipts \subseteq receipts'
         /\ published # None => published' = published
         /\ \A a \in Attempt : tree[a] # "none" => tree'[a] # "none"
         /\ \A s \in Checkpointed : remote[s] = "complete" => remote'[s] = "complete"
         /\ \A k \in Record : record[k] = "whole" => record'[k] = "whole"]_vars
  BY UndoneStep
<1>2. QED
  BY <1>1, CampaignInvariant, PTL DEF Spec, NothingIsUndone

\* Every step of the campaign is a step of DurablePipeline or leaves what it
\* speaks of alone.
LEMMA DurableStep ==
  IInv /\ [Next]_vars => [Durable!Next]_(Durable!pipelineVars)
<1> SUFFICES ASSUME IInv, [Next]_vars PROVE [Durable!Next]_(Durable!pipelineVars)
  OBVIOUS
<1> DEFINE stored == {s \in Checkpointed : remote[s] = "complete"}
           certified == record["finalization"] = "whole"
<1>1. CASE Run \/ Publish
  <2>1. at \in Stage /\ at \notin done /\ done' = done \cup {at}
    BY <1>1, StageNumbers DEF Run, Publish, IInv, TypeOK, Walk, Uploading
  <2>2. 1..(at - 1) \subseteq done
    <3>1. \A s \in Stage : s < at => s \in done
      BY <1>1 DEF Run, Publish, IInv, Walk
    <3>2. QED
      BY <2>1, <3>1, StageNumbers DEF Stage
  <2>3. 2..(at - 1) \subseteq stored
    BY <1>1, <2>1, StageNumbers DEF Run, Publish, IInv, TypeOK, Walk, Stage, Checkpointed
  <2>4. UNCHANGED <<stored, certified>>
    BY <1>1 DEF Run, Publish, stores
  <2>5. PICK s \in 1..Last : s = at
    BY <2>1 DEF Stage
  <2>6. Durable!Compute(s)
    BY <2>1, <2>2, <2>3, <2>4, <2>5 DEF Durable!Compute
  <2>7. QED
    BY <2>6 DEF Durable!Next
<1>2. CASE Send
  <2>1. at \in Checkpointed /\ at \in done /\ at \notin stored
    BY <1>2 DEF Send, IInv, Walk, Checkpointing
  <2>2. UNCHANGED <<done, certified>>
    BY <1>2 DEF Send, local
  <2>3. CASE Filled(remote[at]) = "complete"
    <3>1. stored' = stored \cup {at}
      BY <1>2, <2>1, <2>3 DEF Send, IInv, TypeOK
    <3>2. PICK s \in 2..Last : s = at
      BY <2>1 DEF Checkpointed
    <3>3. Durable!Persist(s)
      BY <2>1, <2>2, <3>1, <3>2 DEF Durable!Persist
    <3>4. QED
      BY <3>3 DEF Durable!Next
  <2>4. CASE Filled(remote[at]) # "complete"
    <3>1. stored' = stored
      BY <1>2, <2>1, <2>4 DEF Send, IInv, TypeOK
    <3>2. QED
      BY <2>2, <3>1 DEF Durable!pipelineVars
  <2>5. QED
    BY <2>3, <2>4
<1>3. ASSUME NEW k \in Record, Create(k) \/ Fill(k)
      PROVE [Durable!Next]_(Durable!pipelineVars)
  <2>1. UNCHANGED <<done, stored>>
    BY <1>3 DEF Create, Fill, local, stores
  <2>2. CASE UNCHANGED certified
    BY <2>1, <2>2 DEF Durable!pipelineVars
  <2>3. CASE ~UNCHANGED certified
    <3>1. k = "finalization" /\ Fill(k) /\ ~certified /\ certified'
      BY <1>3, <2>3 DEF Create, Fill, IInv, TypeOK, Record
    <3>2. done = 1..Last /\ record["seal"] = "whole" /\ remote[Last] = "complete"
      BY <3>1, RecordPoints DEF Fill, IInv, Walk, RecordsAreSound, Stage
    <3>3. stored = 2..Last
      BY <3>2, StageNumbers DEF IInv, RecordsAreSound, Checkpointed
    <3>4. Durable!Certify
      BY <2>1, <3>1, <3>2, <3>3 DEF Durable!Certify
    <3>5. QED
      BY <3>4 DEF Durable!Next
  <2>4. QED
    BY <2>2, <2>3
<1>4. CASE ~(Run \/ Publish \/ Send \/ \E k \in Record : Create(k) \/ Fill(k))
  <2>1. UNCHANGED <<done, remote, record>>
    BY <1>4 DEF Next, Work, vars, local, stores, Launch, Floor, FloorReached, Skip,
                RefuseBare, BeginAttempt, WriteAttempt, Assemble,
                SendPackage, PackageVerified, Move, Transfer, Validate, Authenticate, Payload,
                Sent, Receipt, Crash, Verify
  <2>2. QED
    BY <2>1 DEF Durable!pipelineVars
<1>5. QED
  BY <1>1, <1>2, <1>3, <1>4

\* The campaign implements DurablePipeline: computed in order, durable before
\* the next, certified last.
THEOREM CampaignImplementsDurable == Spec => ImplementsDurable
<1>1. Init => Durable!Init
  BY RecordPoints DEF Init, Durable!Init
<1>2. QED
  BY <1>1, DurableStep, CampaignInvariant, PTL DEF Spec, ImplementsDurable, Durable!Spec

(***************************************************************************)
(* Acceptance                                                              *)
(***************************************************************************)

Where == {"idle", "submitted", "queued", "lexical", "amend", "seal", "note", "audit",
          "conclude", "collect", "point"}
State == {"no_journal", "staging_restored", "canonical_committed"}
LaunchStage == [step : {"idle", "copy", "recover", "receipt"}, before : BOOLEAN, state : State]
Notes == [required : BOOLEAN, lexical : BOOLEAN, finalized : BOOLEAN, audited : BOOLEAN]

OutputTypes ==
  /\ promotion \in Promotion /\ execution \in Execution
  /\ unit \in {"inactive", "active", "failed"} /\ altered \in BOOLEAN /\ tornCopy \in BOOLEAN
DocumentTypes ==
  /\ recovery \in RecoveryReceipt \cup {Unwritten}
  /\ finalization \in Finalization \cup {Unwritten}
  /\ acceptance \in BOOLEAN \cup {Unwritten}
  /\ launcher \in LaunchStage
TaskTypes ==
  /\ named \in [validation : Validation \cup {Unwritten}, packaging : Packaging \cup {Unwritten}]
  /\ doing \in [Task -> Where] /\ notes \in [Task -> Notes] /\ hasty \in BOOLEAN
AcceptanceTypeOK ==
  OutputTypes /\ DocumentTypes /\ TaskTypes /\ deaths \in 0 .. MaxDeaths

Committed == promotion \in {"committed", "sealed"}

WorkerIsNew == unit = "active" => promotion = "none"
Recovered ==
  /\ launcher.step = "receipt" /\ launcher.state = "canonical_committed" => Committed
  /\ recovery # Unwritten /\ recovery.state = "canonical_committed" => Committed
Concluding(t) ==
  /\ doing[t] = "lexical" /\ notes[t].required => Committed
  /\ doing[t] \in {"amend", "seal"} => Committed
Auditing(t) == doing[t] = "conclude" /\ notes[t].audited => OneSealedCommit
PassedIsSealed == acceptance = TRUE => Sealed
Packing(t) == doing[t] \in {"collect", "point"} => Sealed
Name(t) == IF t \in Validation THEN named.validation ELSE named.packaging
Unhurried == ~hasty =>
  /\ \A t, u \in Task : doing[t] # "idle" /\ doing[u] # "idle" => t = u
  /\ \A t \in Task : doing[t] \notin {"idle", "submitted"} => Name(t) = t
  /\ \A t \in Task : doing[t] = "collect" => acceptance = TRUE
  /\ \A t \in Task : doing[t] = "point" => notes[t].audited

AcceptanceInv ==
  /\ AcceptanceTypeOK
  /\ WorkerIsNew /\ Recovered /\ PassedIsSealed
  /\ \A t \in Task : Concluding(t) /\ Auditing(t) /\ Packing(t)
  /\ Unhurried

\* The kinds of tasks are two, and nothing written is the mark for nothing.
LEMMA Marks ==
  /\ Validation \cap Packaging = {} /\ Unwritten \notin Task /\ MaxDeaths \in Nat
  /\ Unwritten \notin RecoveryReceipt \cup Finalization \cup BOOLEAN
BY AcceptanceAssumption

\* No launch and no findings; a launch may find a journal, and lose it.
LEMMA Nothing ==
  /\ NoLaunch \in LaunchStage /\ NoNotes \in Notes
  /\ [NoLaunch EXCEPT !.step = IF JournalActive THEN "copy" ELSE "recover",
                      !.before = JournalActive] \in LaunchStage
  /\ \A l \in LaunchStage : [l EXCEPT !.step = "recover"] \in LaunchStage
<1>1. JournalActive \in BOOLEAN
  BY DEF JournalActive
<1>2. NoLaunch \in LaunchStage /\ NoNotes \in Notes
  BY DEF NoLaunch, NoNotes, LaunchStage, State, Notes
<1>3. \A l \in LaunchStage : \A s \in {"copy", "recover"}, b \in BOOLEAN :
        /\ [l EXCEPT !.step = s] \in LaunchStage
        /\ [l EXCEPT !.step = s, !.before = b] \in LaunchStage
  BY DEF LaunchStage
<1>4. QED
  BY <1>1, <1>2, <1>3

\* The server before the first launch.
LEMMA AcceptanceInitInvariant == AcceptanceInit => AcceptanceInv
<1> SUFFICES ASSUME AcceptanceInit PROVE AcceptanceInv
  OBVIOUS
<1> USE Marks DEF AcceptanceInit
<1>1. AcceptanceTypeOK
  <2>1. OutputTypes /\ DocumentTypes
    BY Nothing DEF OutputTypes, DocumentTypes, Promotion, Execution
  <2>2. TaskTypes
    BY Nothing DEF TaskTypes, Where
  <2>3. QED
    BY <2>1, <2>2 DEF AcceptanceTypeOK
<1>2. WorkerIsNew /\ Recovered /\ PassedIsSealed
  BY DEF WorkerIsNew, Recovered, PassedIsSealed, NoLaunch
<1>3. \A t \in Task : Concluding(t) /\ Auditing(t) /\ Packing(t)
  BY DEF Concluding, Auditing, Packing
<1>4. Unhurried
  BY DEF Unhurried
<1>5. QED
  BY <1>1, <1>2, <1>3, <1>4 DEF AcceptanceInv

-----------------------------------------------------------------------------
(***************************************************************************)
(* Types                                                                   *)
(***************************************************************************)

\* What a step of a task does to the tasks.
LEMMA GoesTypes ==
  ASSUME TaskTypes, NEW t \in Task, NEW step \in Where, NEW found \in Notes,
         Goes(t, step, found)
  PROVE  /\ doing' \in [Task -> Where] /\ notes' \in [Task -> Notes] /\ hasty' \in BOOLEAN
         /\ named' = named => TaskTypes'
BY Nothing DEF TaskTypes, Goes

\* Its notes are notes before and after a finding.
LEMMA NotesTypes ==
  ASSUME TaskTypes, NEW t \in Task
  PROVE  /\ notes[t] \in Notes
         /\ \A b \in BOOLEAN : /\ [notes[t] EXCEPT !.finalized = b] \in Notes
                               /\ [notes[t] EXCEPT !.audited = b] \in Notes
                               /\ [NoNotes EXCEPT !.required = b] \in Notes
         /\ \A b, c \in BOOLEAN : [notes[t] EXCEPT !.lexical = b, !.finalized = c] \in Notes
BY DEF TaskTypes, Notes, NoNotes

\* A death is counted up to the bound.
LEMMA DeathTypes ==
  ASSUME deaths \in 0 .. MaxDeaths, NoDeath \/ Death
  PROVE  deaths' \in 0 .. MaxDeaths
BY Marks DEF NoDeath, Death

\* A launch leaves the tasks alone.
LEMMA LaunchTypes ==
  ASSUME AcceptanceTypeOK, LaunchBegins \/ LaunchStep
  PROVE  AcceptanceTypeOK'
<1> USE DEF AcceptanceTypeOK, OutputTypes, DocumentTypes, output, server, documents
<1>1. TaskTypes'
  BY DEF LaunchBegins, LaunchStep, CopyJournal, RecoverPromotion, WriteRecovery, tasks, TaskTypes
<1>2. deaths' \in 0 .. MaxDeaths
  BY DeathTypes DEF LaunchBegins, LaunchStep, CopyJournal, RecoverPromotion, WriteRecovery
<1>3. CASE LaunchBegins
  BY <1>1, <1>2, <1>3, Nothing DEF LaunchBegins
<1>4. CASE CopyJournal
  BY <1>1, <1>2, <1>4, Nothing DEF CopyJournal
<1>5. CASE RecoverPromotion
  BY <1>1, <1>2, <1>5 DEF RecoverPromotion, Found, LaunchStage, State, Promotion
<1>6. CASE WriteRecovery
  <2>1. Consistent(launcher.before, JournalActive, launcher.state) \in BOOLEAN
    BY DEF Consistent
  <2>2. recovery' \in RecoveryReceipt
    <3>1. launcher.before \in BOOLEAN /\ launcher.state \in State /\ JournalActive \in BOOLEAN
      BY DEF LaunchStage, JournalActive
    <3>2. QED
      BY <1>6, <2>1, <3>1 DEF WriteRecovery, RecoveryReceipt, State
  <2>3. unit' \in {"inactive", "active", "failed"} /\ execution' \in Execution
    BY <1>6 DEF WriteRecovery, Execution
  <2>4. QED
    BY <1>1, <1>2, <1>6, <2>2, <2>3, Nothing DEF WriteRecovery
<1>7. QED
  BY <1>3, <1>4, <1>5, <1>6 DEF LaunchStep

\* The end of a worker, a restart and the death of an operator's shell.
LEMMA ServerTypes ==
  ASSUME AcceptanceTypeOK, WorkerEnds \/ LauncherDies \/ ServerRestarts
  PROVE  AcceptanceTypeOK'
<1> USE DEF AcceptanceTypeOK, OutputTypes, DocumentTypes, TaskTypes, output, documents, tasks,
            server
<1>1. deaths' \in 0 .. MaxDeaths
  BY DeathTypes DEF WorkerEnds, WorkerSucceeds, WorkerFails, LauncherDies, ServerRestarts
<1>4. CASE WorkerSucceeds
  BY <1>1, <1>4 DEF WorkerSucceeds, Promotion, Execution
<1>5. CASE WorkerFails
  <2>1. \A left \in Left : left[1] \in Promotion /\ left[2] \in Execution /\ left[3] \in BOOLEAN
    <3>1. ASSUME NEW left \in Left
          PROVE  \E a \in Promotion, b \in Execution, c \in BOOLEAN : left = <<a, b, c>>
      BY <3>1 DEF Left, Promotion, Execution
    <3>2. QED
      BY <3>1
  <2>2. QED
    BY <1>1, <1>5, <2>1 DEF WorkerFails
<1>6. CASE LauncherDies
  BY <1>1, <1>6, Nothing DEF LauncherDies, CopyCut
<1>7. CASE ServerRestarts
  BY <1>1, <1>7, Nothing DEF ServerRestarts, CopyCut, Where
<1>8. QED
  BY <1>4, <1>5, <1>6, <1>7 DEF WorkerEnds

\* A submission, a step and a death of a task.
LEMMA TaskStepTypes ==
  ASSUME AcceptanceTypeOK, NEW t \in Task, Submit(t) \/ TaskStep(t) \/ TaskDies(t)
  PROVE  AcceptanceTypeOK'
<1> USE DEF AcceptanceTypeOK
<1>1. deaths' \in 0 .. MaxDeaths
  BY DeathTypes DEF Submit, TaskStep, TaskDies, Enqueue, Begin, Lexical, Amend, Seal, Note,
                    AuditReceipts, Conclude, Collect, PointAt
<1>2. /\ OutputTypes' /\ launcher' = launcher /\ recovery' = recovery
  BY DEF OutputTypes, Submit, TaskStep, TaskDies, Enqueue, Begin, Lexical, Amend, Seal, Note,
         AuditReceipts, Conclude, Collect, PointAt, output, server, documents, Execution, Promotion
<1>3. DocumentTypes'
  <2>1. finalization' \in Finalization \cup {Unwritten}
    <3>1. \A b, c \in BOOLEAN : [required |-> b, passed |-> c] \in Finalization
      BY DEF Finalization
    <3>2. notes[t].required \in BOOLEAN /\ notes[t].finalized \in BOOLEAN
      BY NotesTypes DEF Notes
    <3>3. QED
      BY <3>1, <3>2
      DEF DocumentTypes, Submit, TaskStep, TaskDies, Enqueue, Begin, Lexical,
          Amend, Seal, Note, AuditReceipts, Conclude, Collect, PointAt, documents
  <2>2. acceptance' \in BOOLEAN \cup {Unwritten}
    BY DEF DocumentTypes, Submit, TaskStep, TaskDies, Enqueue, Begin, Lexical,
           Amend, Seal, Note, AuditReceipts, Conclude, Collect, PointAt, documents
  <2>3. QED
    BY <1>2, <2>1, <2>2 DEF DocumentTypes
<1>4. TaskTypes'
  <2> USE GoesTypes, NotesTypes DEF Where, To
  <2>1. CASE Submit(t)
    BY <2>1 DEF Submit, TaskTypes
  <2>2. CASE Enqueue(t)
    <3>1. doing' \in [Task -> Where] /\ notes' \in [Task -> Notes] /\ hasty' \in BOOLEAN
      BY <2>2 DEF Enqueue
    <3>2. named' \in [validation : Validation \cup {Unwritten},
                      packaging : Packaging \cup {Unwritten}]
      BY <2>2 DEF Enqueue, TaskTypes, Task
    <3>3. QED
      BY <2>2, <3>1, <3>2 DEF Enqueue, TaskTypes
  <2>3. CASE Begin(t)
    BY <2>3 DEF Begin, JournalActive
  <2>4. CASE Lexical(t)
    <3>1. notes[t].required \in BOOLEAN
      BY NotesTypes DEF Notes
    <3>2. PICK passed \in BOOLEAN :
            Goes(t, IF ~notes[t].required THEN "note"
                    ELSE IF ~JournalActive THEN "idle"
                    ELSE IF passed THEN "amend" ELSE "note",
                 [notes[t] EXCEPT !.lexical = passed, !.finalized = ~notes[t].required])
      BY <2>4 DEF Lexical
    <3>3. [notes[t] EXCEPT !.lexical = passed, !.finalized = ~notes[t].required] \in Notes
      BY <3>1
    <3>4. QED
      BY <2>4, <3>2, <3>3 DEF Lexical
  <2>5. CASE Amend(t) \/ Seal(t) \/ Note(t)
    BY <2>5 DEF Amend, Seal, Note
  <2>6. CASE AuditReceipts(t)
    <3>1. Audit \in BOOLEAN
      BY DEF Audit
    <3>2. QED
      BY <2>6, <3>1 DEF AuditReceipts
  <2>7. CASE Conclude(t)
    BY <2>7 DEF Conclude
  <2>8. CASE Collect(t) \/ PointAt(t)
    BY <2>8 DEF Collect, PointAt
  <2>9. CASE TaskDies(t)
    BY <2>9 DEF TaskDies
  <2>10. QED
    BY <2>1, <2>2, <2>3, <2>4, <2>5, <2>6, <2>7, <2>8, <2>9 DEF TaskStep
<1>5. QED
  BY <1>1, <1>2, <1>3, <1>4

LEMMA AcceptanceTypeStep == AcceptanceTypeOK /\ [AcceptanceNext]_acceptanceVars => AcceptanceTypeOK'
<1> SUFFICES ASSUME AcceptanceTypeOK, [AcceptanceNext]_acceptanceVars PROVE AcceptanceTypeOK'
  OBVIOUS
<1>1. CASE AcceptanceNext
  BY <1>1, LaunchTypes, ServerTypes, TaskStepTypes DEF AcceptanceNext
<1>2. CASE UNCHANGED acceptanceVars
  BY <1>2 DEF AcceptanceTypeOK, OutputTypes, DocumentTypes, TaskTypes, acceptanceVars, output,
              server, documents, tasks
<1>3. QED
  BY <1>1, <1>2

-----------------------------------------------------------------------------
(***************************************************************************)
(* The output                                                              *)
(***************************************************************************)

\* What a step of a task may do to the output.
LEMMA TaskOutput ==
  ASSUME AcceptanceInv, NEW t \in Task, Submit(t) \/ TaskStep(t) \/ TaskDies(t)
  PROVE  /\ UNCHANGED <<server, launcher, recovery>>
         /\ promotion' = promotion \/ (Committed /\ promotion' = "sealed")
         /\ execution' = execution \/ execution' = "succeeded"
<1> USE DEF output, server, documents
<1>1. CASE Amend(t)
  BY <1>1 DEF Amend
<1>2. CASE Seal(t)
  <2>1. Committed
    BY <1>2 DEF Seal, AcceptanceInv, Concluding
  <2>2. QED
    BY <1>2, <2>1 DEF Seal
<1>3. CASE Submit(t) \/ TaskDies(t) \/ (TaskStep(t) /\ ~Amend(t) /\ ~Seal(t))
  BY <1>3 DEF Submit, TaskStep, TaskDies, Enqueue, Begin, Lexical, Note, AuditReceipts, Conclude,
              Collect, PointAt
<1>4. QED
  BY <1>1, <1>2, <1>3

\* A worker is started over nothing, and what is committed or sealed stays so.
LEMMA OutputStep ==
  ASSUME AcceptanceInv, [AcceptanceNext]_acceptanceVars
  PROVE  /\ WorkerIsNew'
         /\ Committed => Committed'
         /\ OneSealedCommit => OneSealedCommit'
         /\ Sealed => Sealed'
<1> USE DEF AcceptanceInv, WorkerIsNew, Committed, OneSealedCommit, Sealed
<1>1. ASSUME NEW t \in Task, Submit(t) \/ TaskStep(t) \/ TaskDies(t)
      PROVE  /\ WorkerIsNew' /\ (Committed => Committed')
             /\ (OneSealedCommit => OneSealedCommit') /\ (Sealed => Sealed')
  BY <1>1, TaskOutput DEF server
<1>2. CASE LaunchBegins \/ CopyJournal
  BY <1>2 DEF LaunchBegins, CopyJournal, output, server
<1>3. CASE RecoverPromotion
  BY <1>3 DEF RecoverPromotion, server
<1>4. CASE WriteRecovery
  BY <1>4 DEF WriteRecovery
<1>5. CASE WorkerEnds
  BY <1>5 DEF WorkerEnds, WorkerSucceeds, WorkerFails
<1>6. CASE LauncherDies \/ ServerRestarts
  BY <1>6 DEF LauncherDies, ServerRestarts, output
<1>7. CASE UNCHANGED acceptanceVars
  BY <1>7 DEF acceptanceVars, output, server
<1>8. QED
  BY <1>1, <1>2, <1>3, <1>4, <1>5, <1>6, <1>7 DEF AcceptanceNext, LaunchStep

-----------------------------------------------------------------------------
(***************************************************************************)
(* The receipts                                                            *)
(***************************************************************************)

\* A launch that finds a commit finds it for good.
LEMMA RecoveredStep ==
  ASSUME AcceptanceInv, [AcceptanceNext]_acceptanceVars
  PROVE  Recovered'
<1>1. Committed => Committed'
  BY OutputStep
<1> USE <1>1 DEF AcceptanceInv, Recovered
<1>2. ASSUME NEW t \in Task, Submit(t) \/ TaskStep(t) \/ TaskDies(t)
      PROVE  Recovered'
  BY <1>2, TaskOutput
<1>3. CASE LaunchBegins \/ CopyJournal
  <2>1. launcher'.step # "receipt"
    <3>1. /\ NoLaunch.step = "idle"
          /\ \A l \in LaunchStage : [l EXCEPT !.step = "recover"].step = "recover"
      BY DEF NoLaunch, LaunchStage
    <3>2. CASE LaunchBegins
      BY <3>2 DEF LaunchBegins, NoLaunch
    <3>3. CASE CopyJournal
      BY <3>1, <3>3 DEF CopyJournal, AcceptanceTypeOK, DocumentTypes
    <3>4. QED
      BY <1>3, <3>2, <3>3
  <2>2. QED
    BY <1>3, <2>1 DEF LaunchBegins, CopyJournal, documents
<1>4. CASE RecoverPromotion
  <2>1. Found = "canonical_committed" => Committed
    BY DEF Found, Committed, AcceptanceTypeOK, OutputTypes, Promotion
  <2>2. launcher'.state = Found
    BY <1>4 DEF RecoverPromotion, AcceptanceTypeOK, DocumentTypes, LaunchStage
  <2>3. QED
    BY <1>4, <2>1, <2>2 DEF RecoverPromotion, documents
<1>5. CASE WriteRecovery
  BY <1>5 DEF WriteRecovery, NoLaunch
<1>6. CASE WorkerEnds
  BY <1>6 DEF WorkerEnds, WorkerSucceeds, WorkerFails, documents
<1>7. CASE LauncherDies \/ ServerRestarts
  BY <1>7 DEF LauncherDies, ServerRestarts, documents, NoLaunch
<1>8. CASE UNCHANGED acceptanceVars
  BY <1>8 DEF acceptanceVars, documents
<1>9. QED
  BY <1>2, <1>3, <1>4, <1>5, <1>6, <1>7, <1>8 DEF AcceptanceNext, LaunchStep

\* Only a validation that ends writes the receipt, from what its audit found.
LEMMA PassedStep ==
  ASSUME AcceptanceInv, [AcceptanceNext]_acceptanceVars
  PROVE  PassedIsSealed'
<1>1. Sealed => Sealed'
  BY OutputStep
<1>2. CASE acceptance' = acceptance
  BY <1>1, <1>2 DEF AcceptanceInv, PassedIsSealed
<1>3. ASSUME NEW t \in Task, Conclude(t)
      PROVE  PassedIsSealed'
  <2>1. acceptance' = TRUE => Sealed
    BY <1>3 DEF Conclude, AcceptanceInv, Auditing, Sealed
  <2>2. QED
    BY <1>1, <2>1 DEF PassedIsSealed
<1>4. acceptance' = acceptance \/ \E t \in Task : Conclude(t)
  BY DEF AcceptanceNext, LaunchBegins, LaunchStep, CopyJournal, RecoverPromotion, WriteRecovery,
         WorkerEnds, WorkerSucceeds, WorkerFails, Submit, TaskStep, TaskDies, Enqueue, Begin,
         Lexical, Amend, Seal, Note, AuditReceipts, Collect, PointAt, LauncherDies,
         ServerRestarts, documents, acceptanceVars
<1>5. QED
  BY <1>2, <1>3, <1>4

-----------------------------------------------------------------------------
(***************************************************************************)
(* The tasks                                                               *)
(***************************************************************************)
TaskInv(t) == Concluding(t) /\ Auditing(t) /\ Packing(t)

\* Where a step takes a task, and what it leaves of the others.
LEMMA GoesTo ==
  ASSUME AcceptanceTypeOK, NEW t \in Task, NEW step, NEW found, Goes(t, step, found)
  PROVE  /\ doing'[t] = step /\ notes'[t] = IF step = "idle" THEN NoNotes ELSE found
         /\ \A u \in Task \ {t} : doing'[u] = doing[u] /\ notes'[u] = notes[u]
BY DEF Goes, AcceptanceTypeOK, TaskTypes

\* A task that does not move keeps what holds of it.
LEMMA Rests ==
  ASSUME AcceptanceInv, [AcceptanceNext]_acceptanceVars, NEW u \in Task,
         \/ doing'[u] = doing[u] /\ notes'[u] = notes[u]
         \/ doing'[u] \in Asleep
  PROVE  TaskInv(u)'
<1>1. (Committed => Committed') /\ (OneSealedCommit => OneSealedCommit') /\ (Sealed => Sealed')
  BY OutputStep
<1>2. QED
  BY <1>1 DEF AcceptanceInv, TaskInv, Concluding, Auditing, Packing, Asleep

\* An active journal admits a validation only if a recovery tells of its commit.
LEMMA AdmittedFinds ==
  ASSUME AcceptanceInv, NEW t \in Task, Admits(t)
  PROVE  /\ t \in Validation /\ JournalActive => Committed
         /\ t \in Packaging => Sealed
BY DEF Admits, Resolved, Authenticated, AcceptanceInv, Recovered, PassedIsSealed

\* The step of a task keeps what holds of it.
LEMMA MoverStep ==
  ASSUME AcceptanceInv, NEW t \in Task, TaskStep(t)
  PROVE  TaskInv(t)'
<1>1. [AcceptanceNext]_acceptanceVars
  BY DEF AcceptanceNext
<1>2. (Committed => Committed') /\ (OneSealedCommit => OneSealedCommit') /\ (Sealed => Sealed')
  BY <1>1, OutputStep
<1>3. AcceptanceTypeOK /\ Concluding(t) /\ Auditing(t) /\ Packing(t)
  BY DEF AcceptanceInv
<1> USE <1>2, <1>3, GoesTo DEF TaskInv, Concluding, Auditing, Packing, To
<1>4. CASE Enqueue(t)
  BY <1>4 DEF Enqueue
<1>5. CASE Begin(t)
  <2>1. t \in Packaging <=> t \notin Validation
    BY Marks DEF Task
  <2>2. [NoNotes EXCEPT !.required = t \in Validation /\ JournalActive].required
          = (t \in Validation /\ JournalActive)
    BY DEF NoNotes
  <2>3. doing'[t] \in {"idle", "lexical", "collect"}
    BY <1>5 DEF Begin
  <2>4. doing'[t] = "lexical" => /\ Admits(t)
                                 /\ notes'[t].required = (t \in Validation /\ JournalActive)
    BY <1>5, <2>2 DEF Begin
  <2>5. doing'[t] = "collect" => Admits(t) /\ t \in Packaging
    BY <1>5, <2>1 DEF Begin
  <2>6. QED
    BY <2>3, <2>4, <2>5, AdmittedFinds
<1>6. CASE Lexical(t)
  <2>1. doing'[t] \in {"idle", "note", "amend"} /\ doing[t] = "lexical"
    BY <1>6 DEF Lexical
  <2>2. doing'[t] = "amend" => notes[t].required
    BY <1>6 DEF Lexical
  <2>3. QED
    BY <2>1, <2>2
<1>7. CASE Amend(t)
  BY <1>7 DEF Amend
<1>8. CASE Seal(t) \/ Note(t)
  BY <1>8 DEF Seal, Note
<1>9. CASE AuditReceipts(t)
  <2>1. doing'[t] = "conclude" /\ notes'[t] = [notes[t] EXCEPT !.audited = Audit]
    BY <1>9 DEF AuditReceipts
  <2>2. notes'[t].audited = Audit
    BY <2>1 DEF AcceptanceTypeOK, TaskTypes, Notes
  <2>3. Audit => OneSealedCommit
    BY DEF Audit
  <2>4. QED
    BY <2>1, <2>2, <2>3
<1>10. CASE Conclude(t) \/ PointAt(t)
  BY <1>10 DEF Conclude, PointAt
<1>11. CASE Collect(t)
  BY <1>11 DEF Collect
<1>12. QED
  BY <1>4, <1>5, <1>6, <1>7, <1>8, <1>9, <1>10, <1>11 DEF TaskStep

\* Whatever happens, every task keeps it.
LEMMA TasksStep ==
  ASSUME AcceptanceInv, [AcceptanceNext]_acceptanceVars, NEW u \in Task
  PROVE  TaskInv(u)'
<1> USE Rests DEF AcceptanceInv
<1>1. ASSUME NEW t \in Task, TaskStep(t)
      PROVE  TaskInv(u)'
  <2>1. \E step, found : Goes(t, step, found)
    BY <1>1 DEF TaskStep, Enqueue, Begin, Lexical, Amend, Seal, Note, AuditReceipts, Conclude,
                Collect, PointAt, To
  <2>2. u # t => doing'[u] = doing[u] /\ notes'[u] = notes[u]
    BY <2>1, GoesTo
  <2>3. QED
    BY <1>1, <2>2, MoverStep
<1>2. ASSUME NEW t \in Task, Submit(t)
      PROVE  TaskInv(u)'
  BY <1>2 DEF Submit, AcceptanceTypeOK, TaskTypes, Asleep
<1>3. ASSUME NEW t \in Task, TaskDies(t)
      PROVE  TaskInv(u)'
  BY <1>3, GoesTo DEF TaskDies, To, Asleep
<1>4. CASE ServerRestarts
  BY <1>4 DEF ServerRestarts, Asleep
<1>5. CASE LaunchBegins \/ LaunchStep \/ WorkerEnds \/ LauncherDies \/ UNCHANGED acceptanceVars
  BY <1>5 DEF LaunchBegins, LaunchStep, CopyJournal, RecoverPromotion, WriteRecovery, WorkerEnds,
              WorkerSucceeds, WorkerFails, LauncherDies, tasks, acceptanceVars
<1>6. QED
  BY <1>1, <1>2, <1>3, <1>4, <1>5 DEF AcceptanceNext

-----------------------------------------------------------------------------
(***************************************************************************)
(* One task at a time                                                      *)
(***************************************************************************)

\* Where a task comes from.
LEMMA ComesFrom ==
  ASSUME AcceptanceTypeOK, NEW t \in Task, TaskStep(t) \/ TaskDies(t)
  PROVE  /\ doing[t] = "submitted" => Enqueue(t) \/ doing'[t] = "idle"
         /\ doing'[t] = "collect" => Begin(t)
         /\ doing'[t] = "point" => Collect(t)
<1> USE GoesTo DEF To
<1>1. CASE Enqueue(t)
  BY <1>1 DEF Enqueue
<1>2. CASE Begin(t)
  BY <1>2 DEF Begin
<1>3. CASE Lexical(t)
  <2>1. doing[t] = "lexical" /\ doing'[t] \in {"idle", "note", "amend"}
    BY <1>3 DEF Lexical
  <2>2. QED
    BY <2>1
<1>4. CASE Amend(t)
  BY <1>4 DEF Amend
<1>5. CASE Seal(t) \/ Note(t)
  BY <1>5 DEF Seal, Note
<1>6. CASE AuditReceipts(t)
  <2>1. doing[t] = "audit" /\ doing'[t] = "conclude"
    BY <1>6 DEF AuditReceipts
  <2>2. QED
    BY <2>1
<1>7. CASE Conclude(t) \/ Collect(t)
  <2>1. \/ doing[t] = "conclude" /\ doing'[t] = "idle"
        \/ doing[t] = "collect" /\ Collect(t) /\ doing'[t] \in {"idle", "point"}
    BY <1>7 DEF Conclude, Collect
  <2>2. QED
    BY <2>1
<1>8. CASE PointAt(t) \/ TaskDies(t)
  BY <1>8 DEF PointAt, TaskDies
<1>9. QED
  BY <1>1, <1>2, <1>3, <1>4, <1>5, <1>6, <1>7, <1>8 DEF TaskStep

\* A submission that is not hurried finds every task idle: one that is at work
\* is named in the files, and seen.
LEMMA UnhurriedSubmit ==
  ASSUME AcceptanceInv, NEW t \in Task, Submit(t)
  PROVE  Unhurried'
<1> SUFFICES ASSUME ~hasty' PROVE Unhurried'
  BY DEF Unhurried
<1>1. ~hasty /\ \A u \in Task : doing[u] \notin {"submitted", "queued"}
  BY DEF Submit, AcceptanceInv, AcceptanceTypeOK, TaskTypes
<1>2. \A u \in Task : doing[u] = "idle"
  <2> SUFFICES ASSUME NEW u \in Task, doing[u] # "idle" PROVE FALSE
    OBVIOUS
  <2>1. Name(u) = u
    BY <1>1 DEF AcceptanceInv, Unhurried
  <2>2. u \in {named.validation, named.packaging} \ {Unwritten}
    BY <2>1, Marks DEF Name
  <2>3. doing[u] \in Asleep
    BY <2>2 DEF Submit
  <2>4. QED
    BY <1>1, <2>3 DEF Asleep
<1>3. doing' = [doing EXCEPT ![t] = "submitted"] /\ named' = named
  BY DEF Submit
<1>4. \A u \in Task : doing'[u] = IF u = t THEN "submitted" ELSE "idle"
  BY <1>2, <1>3 DEF AcceptanceInv, AcceptanceTypeOK, TaskTypes
<1>5. QED
  BY <1>4 DEF Unhurried

\* A step of a task that goes on alone.
LEMMA UnhurriedTask ==
  ASSUME AcceptanceInv, NEW t \in Task, TaskStep(t) \/ TaskDies(t)
  PROVE  Unhurried'
<1>1. PICK step, found : Goes(t, step, found)
  BY DEF TaskStep, Enqueue, Begin, Lexical, Amend, Seal, Note, AuditReceipts, Conclude,
         Collect, PointAt, TaskDies, To
<1>2. /\ doing'[t] = step
      /\ \A u \in Task \ {t} : doing'[u] = doing[u]
  BY <1>1, GoesTo DEF AcceptanceInv
<1>3. CASE step = "idle" /\ \A u \in Task \ {t} : doing[u] = "idle"
  BY <1>2, <1>3 DEF Unhurried
<1>4. ASSUME ~hasty', \E u \in Task : doing'[u] # "idle"
      PROVE  ~hasty
  BY <1>1, <1>4 DEF Goes, AcceptanceInv, AcceptanceTypeOK, TaskTypes
<1>5. ASSUME ~hasty, doing[t] # "idle"
      PROVE  Unhurried'
  <2>1. \A u \in Task : u # t => doing[u] = "idle" /\ doing'[u] = "idle"
    BY <1>2, <1>5 DEF AcceptanceInv, Unhurried
  <2>2. doing[t] \notin {"idle", "submitted"} => Name(t) = t
    BY <1>5 DEF AcceptanceInv, Unhurried
  <2>3. step \notin {"idle", "submitted"} => Name(t)' = t
    <3>1. CASE Enqueue(t)
      <4>1. t \in Validation => named'.validation = t
        BY <3>1 DEF Enqueue, AcceptanceInv, AcceptanceTypeOK, TaskTypes
      <4>2. t \notin Validation => named'.packaging = t
        BY <3>1 DEF Enqueue, AcceptanceInv, AcceptanceTypeOK, TaskTypes
      <4>3. QED
        BY <4>1, <4>2 DEF Name
    <3>2. CASE ~Enqueue(t) /\ doing[t] = "submitted"
      BY <1>2, <3>2, ComesFrom DEF AcceptanceInv
    <3>3. CASE ~Enqueue(t) /\ doing[t] # "submitted"
      <4>1. named' = named
        BY <3>3 DEF TaskStep, Begin, Lexical, Amend, Seal, Note, AuditReceipts, Conclude,
                    Collect, PointAt, TaskDies
      <4>2. QED
        BY <1>5, <2>2, <3>3, <4>1 DEF Name
    <3>4. QED
      BY <3>1, <3>2, <3>3
  <2>4. step = "collect" => acceptance' = TRUE
    <3>1. step = "collect" => Begin(t)
      BY <1>2, ComesFrom DEF AcceptanceInv
    <3>2. ASSUME step = "collect", Begin(t) PROVE acceptance' = TRUE
      <4>1. t \in Packaging /\ Admits(t)
        BY <1>2, <3>2, GoesTo, Marks DEF Begin, AcceptanceInv, Task
      <4>2. QED
        BY <3>2, <4>1 DEF Begin, Admits, documents
    <3>3. QED
      BY <3>1, <3>2
  <2>5. step = "point" => notes'[t].audited
    <3>1. step = "point" => Collect(t)
      BY <1>2, ComesFrom DEF AcceptanceInv
    <3>2. ASSUME step = "point", Collect(t) PROVE notes'[t].audited
      <4>1. acceptance = TRUE
        BY <1>5, <3>2 DEF Collect, AcceptanceInv, Unhurried
      <4>2. notes'[t] = [notes[t] EXCEPT !.audited = (acceptance = TRUE)]
        BY <1>2, <3>2, GoesTo DEF Collect, AcceptanceInv
      <4>3. QED
        BY <4>1, <4>2 DEF AcceptanceInv, AcceptanceTypeOK, TaskTypes, Notes
    <3>3. QED
      BY <3>1, <3>2
  <2>6. QED
    BY <1>2, <2>1, <2>3, <2>4, <2>5 DEF Unhurried
<1>6. doing[t] # "idle"
  BY DEF TaskStep, Enqueue, Begin, Lexical, Amend, Seal, Note, AuditReceipts, Conclude,
         Collect, PointAt, TaskDies
<1>7. ASSUME \A u \in Task : doing'[u] = "idle"
      PROVE  Unhurried'
  BY <1>7 DEF Unhurried
<1>8. ASSUME hasty'
      PROVE  Unhurried'
  BY <1>8 DEF Unhurried
<1>9. QED
  BY <1>4, <1>5, <1>6, <1>7, <1>8

LEMMA UnhurriedStep ==
  ASSUME AcceptanceInv, [AcceptanceNext]_acceptanceVars
  PROVE  Unhurried'
<1>1. CASE LaunchBegins \/ LaunchStep \/ WorkerEnds \/ LauncherDies \/ UNCHANGED acceptanceVars
  <2>1. UNCHANGED <<tasks, acceptance>>
    BY <1>1 DEF LaunchBegins, LaunchStep, CopyJournal, RecoverPromotion, WriteRecovery, WorkerEnds,
                WorkerSucceeds, WorkerFails, LauncherDies, documents, tasks, acceptanceVars
  <2>2. QED
    BY <2>1 DEF AcceptanceInv, Unhurried, Name, tasks
<1>2. CASE ServerRestarts
  BY <1>2 DEF ServerRestarts, Unhurried
<1>3. QED
  BY <1>1, <1>2, UnhurriedSubmit, UnhurriedTask DEF AcceptanceNext

-----------------------------------------------------------------------------
(***************************************************************************)
(* Theorems                                                                *)
(***************************************************************************)

LEMMA InvStep == AcceptanceInv /\ [AcceptanceNext]_acceptanceVars => AcceptanceInv'
<1> SUFFICES ASSUME AcceptanceInv, [AcceptanceNext]_acceptanceVars PROVE AcceptanceInv'
  OBVIOUS
<1>1. AcceptanceTypeOK'
  BY AcceptanceTypeStep DEF AcceptanceInv
<1>2. WorkerIsNew' /\ Recovered' /\ PassedIsSealed' /\ Unhurried'
  BY OutputStep, RecoveredStep, PassedStep, UnhurriedStep
<1>3. \A t \in Task : Concluding(t)' /\ Auditing(t)' /\ Packing(t)'
  BY TasksStep DEF TaskInv
<1>4. QED
  BY <1>1, <1>2, <1>3 DEF AcceptanceInv

\* Every variable keeps its type: no step of a launch, a validation or a packaging
\* writes a receipt or a state the others do not know.
THEOREM AcceptanceTypes == AcceptanceSpec => []AcceptanceTypeOK
<1>1. AcceptanceInit => AcceptanceTypeOK
  BY AcceptanceInitInvariant DEF AcceptanceInv
<1>2. QED
  BY <1>1, AcceptanceTypeStep, PTL DEF AcceptanceSpec

\* A receipt says passed, and a package is named, only for a sealed promotion,
\* whatever dies, overlaps or is launched in between; and the package carries such
\* a receipt, unless a task was submitted beside one that was not running yet.
THEOREM AcceptanceEarned == AcceptanceSpec => []AcceptanceIsEarned
<1>1. AcceptanceInv => AcceptanceIsEarned
  BY Marks DEF AcceptanceInv, PassedIsSealed, Packing, Unhurried, AcceptanceIsEarned, Task
<1>2. QED
  BY <1>1, AcceptanceInitInvariant, InvStep, PTL DEF AcceptanceSpec

\* What is committed stays: no launch, death or restart moves the output of a
\* promotion that the database knows, or starts a worker over it.
CommitsStay == [][Committed => Committed' /\ unit' # "active"]_acceptanceVars

THEOREM CommittedStays == AcceptanceSpec => CommitsStay
<1>1. AcceptanceInv /\ [AcceptanceNext]_acceptanceVars
        => [Committed => Committed' /\ unit' # "active"]_acceptanceVars
  <2> SUFFICES ASSUME AcceptanceInv, [AcceptanceNext]_acceptanceVars, Committed
               PROVE  Committed' /\ unit' # "active"
    OBVIOUS
  <2>1. QED
    BY OutputStep DEF WorkerIsNew, Committed
<1>2. QED
  BY <1>1, AcceptanceInitInvariant, InvStep, PTL DEF AcceptanceSpec, CommitsStay

-----------------------------------------------------------------------------
(***************************************************************************)
(* With jq as it is                                                        *)
(***************************************************************************)
Shut ==
  /\ promotion = "none" /\ unit # "active" /\ acceptance # TRUE
  /\ \A t \in Task : doing[t] \in Asleep

\* As long as jq reads false as missing, nothing is ever run, validated or packaged.
THEOREM GatesShutOut == FalseIsMissing => (AcceptanceSpec => []Shut)
<1> SUFFICES ASSUME FalseIsMissing PROVE AcceptanceSpec => []Shut
  OBVIOUS
<1>1. AcceptanceInit => Shut
  BY Marks DEF AcceptanceInit, Shut, Asleep
<1>2. ASSUME AcceptanceTypeOK, Shut, [AcceptanceNext]_acceptanceVars PROVE Shut'
  <2>1. \A field : OrTrue(field)
    BY DEF OrTrue
  <2>2. CASE LaunchBegins \/ LaunchStep
    <3>1. CASE LaunchBegins \/ CopyJournal
      BY <1>2, <3>1 DEF Shut, LaunchBegins, CopyJournal, output, server, documents, tasks
    <3>2. CASE RecoverPromotion
      BY <1>2, <3>2 DEF Shut, RecoverPromotion, server, documents, tasks
    <3>3. CASE WriteRecovery
      BY <1>2, <2>1, <3>3 DEF Shut, WriteRecovery, tasks
    <3>4. QED
      BY <2>2, <3>1, <3>2, <3>3 DEF LaunchStep
  <2>3. CASE WorkerEnds \/ LauncherDies \/ ServerRestarts
    BY <1>2, <2>3 DEF Shut, WorkerEnds, WorkerSucceeds, WorkerFails, LauncherDies,
       ServerRestarts, output, documents, tasks, Asleep
  <2>4. ASSUME NEW t \in Task, Submit(t) \/ TaskStep(t) \/ TaskDies(t) PROVE Shut'
    <3>1. UNCHANGED <<output, unit, acceptance>>
      BY <1>2, <2>4 DEF Shut, Asleep, Submit, TaskStep, TaskDies, Enqueue, Begin, Lexical, Amend,
         Seal, Note, AuditReceipts, Conclude, Collect, PointAt, output, server, documents
    <3>2. \A u \in Task : doing'[u] = doing[u] \/ doing'[u] \in Asleep
      <4>1. CASE Submit(t)
        BY <4>1, <1>2 DEF Submit, AcceptanceTypeOK, TaskTypes, Asleep
      <4>2. CASE TaskDies(t) \/ Enqueue(t)
        BY <4>2, <1>2, GoesTo DEF TaskDies, Enqueue, To, Asleep
      <4>3. CASE Begin(t)
        BY <4>3, <1>2, GoesTo DEF Begin, Shut, Asleep
      <4>4. QED
        BY <1>2, <2>4, <4>1, <4>2, <4>3 DEF Shut, Asleep, TaskStep, Lexical, Amend,
           Seal, Note, AuditReceipts, Conclude, Collect, PointAt
    <3>3. QED
      BY <1>2, <3>1, <3>2 DEF Shut, output
  <2>5. CASE UNCHANGED acceptanceVars
    BY <1>2, <2>5 DEF Shut, acceptanceVars, output, server, documents, tasks
  <2>6. QED
    BY <1>2, <2>2, <2>3, <2>4, <2>5 DEF AcceptanceNext
<1>3. QED
  BY <1>1, <1>2, AcceptanceTypes, PTL DEF AcceptanceSpec
=============================================================================
