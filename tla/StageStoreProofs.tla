-------------------------- MODULE StageStoreProofs --------------------------
(***************************************************************************)
(* Theorems about StageStore, for every stage graph, every number of       *)
(* runners and attempts, and any interference the model allows; the last   *)
(* one for a single runner.                                                *)
(*                                                                         *)
(* The inductive invariant IInv adds to the safety properties what a       *)
(* runner in the middle of run_stage may rely on: its attempt is its own,  *)
(* lies where its program counter says, and carries the record it wrote;   *)
(* and the dependency digests it noted are still the published ones.       *)
(***************************************************************************)
EXTENDS StageStore, TLAPS

\* A runner past these points has an attempt, an attempt record, an inventory.
Started  == {"attempt", "produce", "inventory", "vacant", "promote", "moved", "publish",
             "tidy", "confirm", "preserve"}
Recorded == Started \ {"attempt"}
Counted  == {"vacant", "promote", "moved", "publish"}

\* What a runner's locals say about the files of its own attempt.
Owns(p) ==
  /\ pc[p] # "idle" => job[p] # None
  /\ pc[p] = "record" => cur[p] # None
  /\ pc[p] \in Started =>
       /\ mine[p] # None
       /\ home[mine[p]] = job[p].stage
       /\ loc[mine[p]] # "absent"
  /\ pc[p] = "attempt" => rec[mine[p]] = None
  /\ pc[p] \in Recorded => rec[mine[p]] = job[p]
  /\ pc[p] = "inventory" => art[mine[p]] \in Content
  /\ pc[p] \in {"moved", "publish"} => loc[mine[p]] = "completed-attempts"
  /\ pc[p] \in Counted => inv[p] # None

\* No two runners work on one attempt.
OwnersDistinct ==
  \A p, r \in Runner : mine[p] = mine[r] /\ mine[p] # None => p = r

\* An unused name has no files.
UnusedIsBlank ==
  \A a \in Attempt : loc[a] = "absent" =>
    /\ home[a] = None
    /\ rec[a] = None
    /\ \A p \in Runner : mine[p] # a

\* The digests a runner noted before its attempt are those of the completions
\* that stand now, except where one has been removed from outside.
NotesCurrent ==
  \A p \in Runner : pc[p] # "idle" =>
    \A d \in Dependencies[job[p].stage] : d \notin erased =>
      completion[d] # None /\ job[p].deps[d] = completion[d].attempt

\* PublishedIsPreserved but for the artifacts.
PublishedInPlace ==
  \A s \in Stage : completion[s] # None =>
    LET a == completion[s].attempt IN
    /\ home[a] = s /\ loc[a] = "completed-attempts"
    /\ rec[a] = [stage |-> s, request |-> completion[s].request,
                 deps |-> completion[s].deps]

IInv ==
  /\ TypeOK
  /\ \A p \in Runner : Owns(p)
  /\ OwnersDistinct
  /\ UnusedIsBlank
  /\ NotesCurrent
  /\ ChainConsistent
  /\ PublishedInPlace

-----------------------------------------------------------------------------
\* A stage is among its own ancestors, so authentication finds its completion.
LEMMA AuthenticPresent ==
  ASSUME NEW s \in Stage, Authentic(s)
  PROVE  completion[s] # None
BY DEF Authentic, Ancestors, Consistent

\* The arguments of a call and the digests it noted, as typed by Job.
LEMMA JobShape ==
  ASSUME NEW j \in Job
  PROVE  /\ j.stage \in Stage
         /\ j.request \in Request
         /\ j.deps \in [Dependencies[j.stage] -> Attempt]
         /\ j = [stage |-> j.stage, request |-> j.request, deps |-> j.deps]
BY DEF Job, Identity

-----------------------------------------------------------------------------
\* Types of the parts of a state, one line per variable a proof looks up.
LEMMA RunnerTypes ==
  ASSUME TypeOK, NEW p \in Runner
  PROVE  /\ pc[p] \in Step
         /\ job[p] \in Job \cup {None}
         /\ mine[p] \in Attempt \cup {None}
         /\ area[p] \in Place
         /\ todo[p] \subseteq Attempt
         /\ cur[p] \in Attempt \cup {None}
         /\ inv[p] \in Content \cup {None}
         /\ kept[p] \in Place
BY DEF TypeOK

\* Between two calls nothing is left in memory, so a return keeps the types.
LEMMA LeaveTypes ==
  ASSUME TypeOK, NEW p \in Runner, NEW how \in {"none", "ran", "raised"}, Leave(p, how)
  PROVE  /\ pc' \in [Runner -> Step]
         /\ mine' \in [Runner -> Attempt \cup {None}]
         /\ seen' \in [Runner -> Attempt \cup {None}]
         /\ area' \in [Runner -> Place]
         /\ todo' \in [Runner -> SUBSET Attempt]
         /\ cur' \in [Runner -> Attempt \cup {None}]
         /\ inv' \in [Runner -> Content \cup {None}]
         /\ kept' \in [Runner -> Place]
         /\ result' \in [Runner -> {"none", "skipped", "ran", "raised"}]
BY DEF TypeOK, Leave, Step, Place

\* The arguments of a call with the digests Enter notes.
NotedJob(s, q) ==
  [stage |-> s, request |-> q,
   deps |-> [d \in Dependencies[s] |-> completion[d].attempt]]

\* Authenticated dependencies are published, so each digest is an attempt.
LEMMA EnterNotes ==
  ASSUME TypeOK, NEW s \in Stage, NEW q \in Request,
         \A d \in Dependencies[s] : Authentic(d)
  PROVE  /\ NotedJob(s, q) \in Job
         /\ \A d \in Dependencies[s] : completion[d] # None
<1> USE StoreAssumption
<1>1. \A d \in Dependencies[s] : d \in Stage /\ completion[d] # None
  BY AuthenticPresent DEF GraphAssumption
<1>2. \A d \in Dependencies[s] : completion[d] \in Manifest(d)
  BY <1>1 DEF TypeOK
<1>3. [d \in Dependencies[s] |-> completion[d].attempt] \in [Dependencies[s] -> Attempt]
  BY <1>2 DEF Manifest
<1> QED BY <1>1, <1>3 DEF NotedJob, Job, Identity

\* Files and locals keep their shapes: every step preserves TypeOK.
LEMMA TypeStep ==
  ASSUME IInv, Next
  PROVE  TypeOK'
<1> USE StoreAssumption DEF IInv, disk, history, memory, notes, scan, NoFault, Fault
<1>1. ASSUME NEW p \in Runner, NEW s \in Stage, NEW q \in Request, Reuse(p, s, q)
      PROVE  TypeOK'
  <2>1. completion[s] \in Manifest(s)
    BY <1>1 DEF Reuse, TypeOK
  <2>2. [stage |-> s, request |-> q, deps |-> completion[s].deps] \in Job
    BY <2>1, <1>1 DEF Manifest, Job, Identity
  <2> QED BY <1>1, <2>2 DEF Reuse, TypeOK
<1>2. ASSUME NEW p \in Runner, NEW s \in Stage, NEW q \in Request, Enter(p, s, q)
      PROVE  TypeOK'
  <2>1. job' = [job EXCEPT ![p] = NotedJob(s, q)] /\ NotedJob(s, q) \in Job
    BY <1>2, EnterNotes DEF Enter, NotedJob
  <2>2. /\ pc' = [pc EXCEPT ![p] = "list"] /\ result' = [result EXCEPT ![p] = "none"]
        /\ UNCHANGED <<completion, home, loc, rec, art, failure, mine, seen, area, todo, cur,
                       inv, kept, made, early, unnoted, erased, faults>>
    BY <1>2 DEF Enter, Goto
  <2> QED BY <2>1, <2>2 DEF Step, TypeOK
<1>3. ASSUME NEW p \in Runner, NEW s \in Stage, RefuseDependency(p, s)
      PROVE  TypeOK'
  BY <1>3 DEF RefuseDependency, TypeOK
<1>4. ASSUME NEW p \in Runner, List(p) \/ ListCompleted(p)
      PROVE  TypeOK'
  <2>1. job[p].stage \in Stage \/ ~List(p)
    BY RunnerTypes, JobShape DEF Owns, List
  <2>2. CASE List(p)
    <3>1. seen' \in [Runner -> Attempt \cup {None}]
      BY <2>1, <2>2 DEF List, TypeOK, Manifest
    <3> QED BY <2>2, <3>1 DEF List, Goto, Step, TypeOK
  <2>3. CASE ListCompleted(p)
    BY <2>3 DEF ListCompleted, Place, TypeOK
  <2> QED BY <1>4, <2>2, <2>3
<1>5. ASSUME NEW p \in Runner, NEW a \in Attempt, Inspect(p, a)
      PROVE  TypeOK'
  <2>1. CASE Leave(p, "raised")
    BY <1>5, <2>1, LeaveTypes DEF Inspect, TypeOK
  <2>2. CASE ~Leave(p, "raised")
    BY <1>5, <2>2 DEF Inspect, Goto, Step, TypeOK
  <2> QED BY <2>1, <2>2
<1>6. ASSUME NEW p \in Runner, Record(p)
      PROVE  TypeOK'
  <2>1. [kind |-> "interrupted", path |-> area[p]] \in FailureRecord
    BY RunnerTypes DEF FailureRecord
  <2>2. failure' \in [Attempt -> FailureRecord \cup {None}]
    BY <1>6, <2>1 DEF Record, WriteFailure, TypeOK
  <2>3. CASE Leave(p, "raised")
    BY <1>6, <2>2, <2>3, LeaveTypes DEF Record, TypeOK
  <2>4. CASE Dealt(p)
    BY <1>6, <2>2, <2>4 DEF Record, Dealt, Goto, Step, TypeOK
  <2> QED BY <1>6, <2>3, <2>4 DEF Record
<1>7. ASSUME NEW p \in Runner, Recovered(p) \/ HandlerFails(p)
      PROVE  TypeOK'
  <2>1. CASE Recovered(p)
    BY <2>1 DEF Recovered, Goto, Step, TypeOK
  <2>2. CASE HandlerFails(p)
    <3>1. mine[p] \in Attempt
      BY <2>2, RunnerTypes DEF HandlerFails, Owns, Started
    <3>2. pc' \in [Runner -> Step] /\ faults' \in Nat
      BY <2>2 DEF HandlerFails, Goto, Step, TypeOK
    <3>3. unnoted' \subseteq Attempt
      BY <2>2, <3>1 DEF HandlerFails, TypeOK
    <3> QED BY <2>2, <3>2, <3>3 DEF HandlerFails, TypeOK
  <2> QED BY <1>7, <2>1, <2>2
<1>8. ASSUME NEW p \in Runner, NEW a \in Attempt, MakeDirectory(p, a)
      PROVE  TypeOK'
  <2>1. job[p] \in Job
    BY <1>8, RunnerTypes DEF Owns, MakeDirectory
  <2> QED BY <1>8, <2>1, JobShape DEF MakeDirectory, Goto, Step, Place, TypeOK
<1>9. ASSUME NEW p \in Runner, WriteAttempt(p)
      PROVE  TypeOK'
  <2>1. job[p] \in Job
    BY <1>9, RunnerTypes DEF Owns, WriteAttempt
  <2> QED BY <1>9, <2>1 DEF WriteAttempt, Goto, Step, TypeOK
<1>10. ASSUME NEW p \in Runner, CallFails(p) \/ Crash(p)
       PROVE  TypeOK'
  BY <1>10, LeaveTypes DEF CallFails, Crash, TypeOK
<1>11. ASSUME NEW p \in Runner, NEW c \in Content, Produce(p, c)
       PROVE  TypeOK'
  BY <1>11 DEF Produce, Goto, Step, TypeOK
<1>12. ASSUME NEW p \in Runner, NEW c \in Content \cup {Empty}, ProducerFails(p, c)
       PROVE  TypeOK'
  <2>1. art' \in [Attempt -> Content \cup {Empty}]
    BY <1>12 DEF ProducerFails, TypeOK
  <2>2. faults' \in Nat
    BY <1>12 DEF ProducerFails, TypeOK
  <2>3. pc' \in [Runner -> Step]
    BY <1>12 DEF ProducerFails, Goto, Step, TypeOK
  <2> QED BY <1>12, <2>1, <2>2, <2>3 DEF ProducerFails, TypeOK
<1>13. ASSUME NEW p \in Runner, Inventory(p) \/ FindVacant(p) \/ Promote(p) \/ NoteMove(p)
       PROVE  TypeOK'
  <2>1. CASE Inventory(p)
    <3>1. art[mine[p]] \in Content
      BY <2>1 DEF Inventory, Owns
    <3> QED BY <2>1, <3>1 DEF Inventory, Goto, Step, TypeOK
  <2>2. CASE FindVacant(p)
    BY <2>2 DEF FindVacant, Goto, Step, TypeOK
  <2>3. CASE Promote(p)
    BY <2>3 DEF Promote, Goto, Step, Place, TypeOK
  <2>4. CASE NoteMove(p)
    BY <2>4 DEF NoteMove, Goto, Step, Place, TypeOK
  <2> QED BY <1>13, <2>1, <2>2, <2>3, <2>4
<1>14. ASSUME NEW p \in Runner, Publish(p)
       PROVE  TypeOK'
  <2> DEFINE s == job[p].stage
             m == [attempt |-> mine[p], request |-> job[p].request,
                   deps |-> job[p].deps, inventory |-> inv[p]]
  <2>1. job[p] \in Job /\ mine[p] \in Attempt /\ inv[p] \in Content
    BY <1>14, RunnerTypes DEF Owns, Publish, Started, Counted
  <2>2. s \in Stage /\ m \in Manifest(s)
    BY <2>1, JobShape DEF Manifest
  <2>3. completion' = completion \/ completion' = [completion EXCEPT ![s] = m]
    BY <1>14 DEF Publish
  <2>4. /\ DOMAIN completion' = Stage
        /\ \A r \in Stage : completion'[r] \in Manifest(r) \cup {None}
    BY <2>2, <2>3 DEF TypeOK
  <2> QED BY <1>14, <2>4 DEF Publish, Goto, Step, TypeOK
<1>15. ASSUME NEW p \in Runner, Tidy(p)
       PROVE  TypeOK'
  BY <1>15 DEF Tidy, Goto, Step, TypeOK
<1>16. ASSUME NEW p \in Runner, Confirm(p)
       PROVE  TypeOK'
  BY <1>16, LeaveTypes DEF Confirm, TypeOK
<1>17. ASSUME NEW p \in Runner, Preserve(p)
       PROVE  TypeOK'
  <2>1. [kind |-> "exception", path |-> kept[p]] \in FailureRecord
    BY RunnerTypes DEF FailureRecord
  <2> QED BY <1>17, <2>1, LeaveTypes DEF Preserve, WriteFailure, TypeOK
<1>18. ASSUME NEW a \in Attempt, NEW c \in Content, Damage(a, c)
       PROVE  TypeOK'
  BY <1>18 DEF Damage, TypeOK
<1>19. ASSUME NEW s \in Stage, Erase(s)
       PROVE  TypeOK'
  BY <1>19 DEF Erase, TypeOK
<1> QED
  BY <1>1, <1>2, <1>3, <1>4, <1>5, <1>6, <1>7, <1>8, <1>9, <1>10, <1>11, <1>12,
     <1>13, <1>14, <1>15, <1>16, <1>17, <1>18, <1>19
  DEF Next, Call, Work, Trouble, Outside

-----------------------------------------------------------------------------
\* What one runner puts into its attempt is not in another's.
LEMMA OthersKeep ==
  ASSUME IInv, NEW p \in Runner, NEW r \in Runner, r # p, pc[p] \in Started,
         NEW x, art' = [art EXCEPT ![mine[p]] = x]
  PROVE  pc[r] \in Started => art'[mine[r]] = art[mine[r]]
<1>1. mine[p] # None /\ (pc[r] \in Started => mine[r] \in Attempt)
  BY RunnerTypes DEF IInv, Owns
<1> QED BY <1>1 DEF IInv, TypeOK, OwnersDistinct

\* The lemmas below go through the actions in groups: those that leave every
\* file alone first, then the ones that create, move or publish something.

\* A step by which p neither ends nor starts a call, or ends one, without
\* touching a file, keeps p's claims about its files.
LEMMA OwnsStep ==
  ASSUME IInv, Next, NEW r \in Runner
  PROVE  Owns(r)'
<1> USE StoreAssumption DEF IInv, disk, history, memory, notes, scan, NoFault, Fault
<1>0. ASSUME NEW p \in Runner, NEW s \in Stage, RefuseDependency(p, s)
      PROVE  Owns(r)'
  BY <1>0 DEF RefuseDependency, Owns
<1>1. ASSUME NEW p \in Runner, NEW s \in Stage, NEW q \in Request, Reuse(p, s, q)
      PROVE  Owns(r)'
  BY <1>1 DEF Reuse, Owns, Started, Recorded, Counted, TypeOK
<1>2. ASSUME NEW p \in Runner, NEW s \in Stage, NEW q \in Request, Enter(p, s, q)
      PROVE  Owns(r)'
  <2>1. job' = [job EXCEPT ![p] = NotedJob(s, q)] /\ NotedJob(s, q) # None
    BY <1>2, EnterNotes DEF Enter, NotedJob, NoneAssumption
  <2>2. /\ pc' = [pc EXCEPT ![p] = "list"] /\ result' = [result EXCEPT ![p] = "none"]
        /\ UNCHANGED <<completion, home, loc, rec, art, failure, mine, seen, area, todo, cur,
                       inv, kept, made, early, unnoted, erased, faults>>
    BY <1>2 DEF Enter, Goto
  <2>3. CASE r = p
    BY <2>1, <2>2, <2>3 DEF Owns, Started, Recorded, Counted, TypeOK
  <2>4. CASE r # p
    BY <2>1, <2>2, <2>4 DEF Owns, Started, Recorded, Counted, TypeOK
  <2> QED BY <2>3, <2>4
<1>3. ASSUME NEW p \in Runner,
             \/ List(p) \/ ListCompleted(p) \/ Recovered(p) \/ Tidy(p) \/ HandlerFails(p)
             \/ FindVacant(p) \/ NoteMove(p)
      PROVE  Owns(r)'
  <2>1. CASE List(p) \/ ListCompleted(p) \/ Recovered(p)
    BY <2>1 DEF List, ListCompleted, Recovered, Goto, Owns, Started, Recorded, Counted, TypeOK
  <2>2. CASE Tidy(p) \/ HandlerFails(p)
    BY <2>2 DEF Tidy, HandlerFails, Goto, Owns, Started, Recorded, Counted, TypeOK
  <2>3. CASE FindVacant(p) \/ NoteMove(p)
    BY <2>3 DEF FindVacant, NoteMove, Goto, Owns, Started, Recorded, Counted, TypeOK
  <2> QED BY <1>3, <2>1, <2>2, <2>3
<1>4. ASSUME NEW p \in Runner, NEW a \in Attempt, Inspect(p, a)
      PROVE  Owns(r)'
  <2>1. a # None
    BY RunnerTypes DEF NoneAssumption
  <2> QED BY <1>4, <2>1 DEF Inspect, Leave, Goto, Owns, Started, Recorded, Counted, TypeOK
<1>5. ASSUME NEW p \in Runner, Record(p) \/ Preserve(p)
      PROVE  Owns(r)'
  BY <1>5 DEF Record, Dealt, Preserve, Leave, Goto, Owns, Started, Recorded, Counted, TypeOK
<1>6. ASSUME NEW p \in Runner, CallFails(p) \/ Crash(p) \/ Confirm(p)
      PROVE  Owns(r)'
  BY <1>6 DEF CallFails, Crash, Confirm, Leave, Owns, Started, Recorded, Counted, TypeOK
<1>7. ASSUME NEW p \in Runner, NEW a \in Attempt, MakeDirectory(p, a)
      PROVE  Owns(r)'
  <2>1. \A i \in Runner : mine[i] # a
    BY <1>7 DEF MakeDirectory, UnusedIsBlank
  <2>2. rec[a] = None /\ a # None
    BY <1>7 DEF MakeDirectory, UnusedIsBlank, NoneAssumption
  <2> QED BY <1>7, <2>1, <2>2 DEF MakeDirectory, Goto, Owns, Started, Recorded, Counted, TypeOK
<1>8. ASSUME NEW p \in Runner, WriteAttempt(p)
      PROVE  Owns(r)'
  BY <1>8 DEF WriteAttempt, OwnersDistinct, Goto, Owns, Started, Recorded, Counted, TypeOK
<1>9. ASSUME NEW p \in Runner, NEW c \in Content, Produce(p, c)
      PROVE  Owns(r)'
  <2>1. CASE r = p
    <3>1. mine[p] \in Attempt
      BY <1>9, RunnerTypes DEF Produce, Owns, Started
    <3> QED
      BY <1>9, <2>1, <3>1 DEF Produce, Goto, Owns, Started, Recorded, Counted, TypeOK
  <2>2. CASE r # p
    BY <1>9, <2>2, OthersKeep DEF Produce, Goto, Owns, Started, Recorded, Counted, TypeOK
  <2> QED BY <2>1, <2>2
<1>10. ASSUME NEW p \in Runner, NEW c \in Content \cup {Empty}, ProducerFails(p, c)
       PROVE  Owns(r)'
  <2>1. CASE r = p
    BY <1>10, <2>1 DEF ProducerFails, Goto, Owns, Started, Recorded, Counted, TypeOK
  <2>2. CASE r # p
    <3>1. pc[p] \in Started /\ art' = [art EXCEPT ![mine[p]] = c]
      BY <1>10 DEF ProducerFails, Started
    <3>2. pc[r] = "inventory" => art'[mine[r]] = art[mine[r]]
      BY <2>2, <3>1, OthersKeep DEF Started
    <3>3. pc'[r] = pc[r] /\ UNCHANGED <<home, loc, rec, job, mine, cur, inv>>
      BY <1>10, <2>2 DEF ProducerFails, Goto, TypeOK
    <3> QED BY <3>2, <3>3 DEF Owns
  <2> QED BY <2>1, <2>2
<1>11. ASSUME NEW p \in Runner, Inventory(p) \/ Promote(p) \/ Publish(p)
       PROVE  Owns(r)'
  <2>1. CASE Inventory(p)
    <3>1. art[mine[p]] # None
      BY <2>1 DEF Inventory, Owns, NoneAssumption
    <3> QED BY <2>1, <3>1 DEF Inventory, Goto, Owns, Started, Recorded, Counted, TypeOK
  <2>2. CASE Promote(p)
    BY <2>2 DEF Promote, OwnersDistinct, Goto, Owns, Started, Recorded, Counted, TypeOK
  <2>3. CASE Publish(p)
    BY <2>3 DEF Publish, OwnersDistinct, Goto, Owns, Started, Recorded, Counted, TypeOK
  <2> QED BY <1>11, <2>1, <2>2, <2>3
<1>12. ASSUME NEW a \in Attempt, NEW c \in Content, Damage(a, c)
       PROVE  Owns(r)'
  <2>1. pc[r] = "inventory" => mine[r] \in Attempt
    BY RunnerTypes DEF Owns, Started
  <2>2. pc[r] = "inventory" => art'[mine[r]] \in Content
    BY <1>12, <2>1 DEF Damage, Owns, TypeOK
  <2> QED BY <1>12, <2>2 DEF Damage, Owns
<1>13. ASSUME NEW s \in Stage, Erase(s)
       PROVE  Owns(r)'
  BY <1>13 DEF Erase, Owns
<1> QED
  BY <1>0, <1>1, <1>2, <1>3, <1>4, <1>5, <1>6, <1>7, <1>8, <1>9, <1>10, <1>11, <1>12, <1>13
  DEF Next, Call, Work, Trouble, Outside

\* An attempt name is taken by one runner, and only while it is unused.
LEMMA NamesStep ==
  ASSUME IInv, Next
  PROVE  (OwnersDistinct /\ UnusedIsBlank)'
<1> USE StoreAssumption DEF IInv, disk, history, memory, notes, scan, NoFault, Fault
<1>1. ASSUME NEW p \in Runner, NEW a \in Attempt, MakeDirectory(p, a)
      PROVE  (OwnersDistinct /\ UnusedIsBlank)'
  <2>1. \A i \in Runner : mine[i] # a
    BY <1>1 DEF MakeDirectory, UnusedIsBlank
  <2> QED BY <1>1, <2>1 DEF MakeDirectory, OwnersDistinct, UnusedIsBlank, TypeOK
<1>2. ASSUME NEW p \in Runner, WriteAttempt(p)
      PROVE  (OwnersDistinct /\ UnusedIsBlank)'
  <2>1. loc[mine[p]] # "absent"
    BY <1>2 DEF WriteAttempt, Owns, Started
  <2> QED BY <1>2, <2>1 DEF WriteAttempt, OwnersDistinct, UnusedIsBlank, TypeOK
<1>3. ASSUME NEW p \in Runner, Promote(p)
      PROVE  (OwnersDistinct /\ UnusedIsBlank)'
  BY <1>3 DEF Promote, OwnersDistinct, UnusedIsBlank, TypeOK
<1>4. ASSUME NEW p \in Runner, NEW how \in {"none", "ran", "raised"}, Leave(p, how),
             UNCHANGED <<home, loc, rec>>
      PROVE  (OwnersDistinct /\ UnusedIsBlank)'
  BY <1>4 DEF Leave, OwnersDistinct, UnusedIsBlank, TypeOK, NoneAssumption
<1>5. ASSUME UNCHANGED <<home, loc, rec, mine>>
      PROVE  (OwnersDistinct /\ UnusedIsBlank)'
  BY <1>5 DEF OwnersDistinct, UnusedIsBlank
<1>6. ASSUME NEW p \in Runner, Call(p) \/ List(p) \/ ListCompleted(p) \/ Recovered(p)
                                \/ Inventory(p) \/ FindVacant(p) \/ NoteMove(p)
      PROVE  (OwnersDistinct /\ UnusedIsBlank)'
  BY <1>5, <1>6 DEF Call, Reuse, Enter, RefuseDependency, List, ListCompleted, Recovered,
     Inventory, FindVacant, NoteMove
<1>7. ASSUME NEW p \in Runner, Publish(p) \/ Tidy(p) \/ HandlerFails(p)
                                \/ \E c \in Content \cup {Empty} : ProducerFails(p, c)
      PROVE  (OwnersDistinct /\ UnusedIsBlank)'
  BY <1>5, <1>7 DEF Publish, Tidy, HandlerFails, ProducerFails
<1>8. ASSUME NEW p \in Runner, Record(p) \/ \E a \in Attempt : Inspect(p, a)
      PROVE  (OwnersDistinct /\ UnusedIsBlank)'
  BY <1>4, <1>5, <1>8 DEF Record, Dealt, Inspect
<1>9. ASSUME NEW p \in Runner, Confirm(p) \/ Preserve(p) \/ CallFails(p) \/ Crash(p)
      PROVE  (OwnersDistinct /\ UnusedIsBlank)'
  BY <1>4, <1>9 DEF Confirm, Preserve, CallFails, Crash
<1>10. ASSUME Outside
       PROVE  (OwnersDistinct /\ UnusedIsBlank)'
  BY <1>5, <1>10 DEF Outside, Damage, Erase
<1>11. ASSUME NEW p \in Runner, NEW c \in Content, Produce(p, c)
       PROVE  (OwnersDistinct /\ UnusedIsBlank)'
  BY <1>5, <1>11 DEF Produce
<1> HIDE StoreAssumption DEF IInv, disk, history, memory, notes, scan, NoFault, Fault
<1>12. ASSUME NEW p \in Runner, Work(p)
       PROVE  (OwnersDistinct /\ UnusedIsBlank)'
  <2>1. CASE WriteAttempt(p) \/ Promote(p) \/ \E a \in Attempt : MakeDirectory(p, a)
    BY <1>1, <1>2, <1>3, <2>1
  <2>2. CASE \/ List(p) \/ ListCompleted(p) \/ Recovered(p) \/ Inventory(p) \/ FindVacant(p)
             \/ NoteMove(p) \/ \E c \in Content : Produce(p, c)
    BY <1>6, <1>11, <2>2
  <2>3. CASE \/ Record(p) \/ Publish(p) \/ Tidy(p) \/ Confirm(p) \/ Preserve(p)
             \/ \E a \in Attempt : Inspect(p, a)
    BY <1>7, <1>8, <1>9, <2>3
  <2> QED BY <1>12, <2>1, <2>2, <2>3 DEF Work
<1>13. ASSUME NEW p \in Runner, Trouble(p)
       PROVE  (OwnersDistinct /\ UnusedIsBlank)'
  BY <1>7, <1>9, <1>13 DEF Trouble
<1> QED BY <1>6, <1>10, <1>12, <1>13 DEF Next

\* Completions change in two ways only: one is linked where none was, or the
\* outside removes one.
LEMMA CompletionChanges ==
  ASSUME Next
  PROVE  \/ UNCHANGED <<completion, erased>>
         \/ \E p \in Runner : Publish(p) /\ completion[job[p].stage] = None
         \/ \E s \in Stage : Erase(s)
BY DEF Next, Call, Work, Trouble, Outside, Reuse, Enter, RefuseDependency, List,
   ListCompleted, Inspect, Record, Recovered, MakeDirectory, WriteAttempt, Produce, Inventory,
   FindVacant, Promote, NoteMove, Publish, Tidy, Confirm, Preserve, HandlerFails, CallFails,
   ProducerFails, Crash, Damage, disk, history, NoFault, Fault

\* A runner inside a call was called for a stage of the graph.
LEMMA JobStages ==
  ASSUME TypeOK, \A p \in Runner : Owns(p)
  PROVE  \A p \in Runner : pc[p] # "idle" => job[p] \in Job /\ job[p].stage \in Stage
BY RunnerTypes, JobShape DEF Owns

\* A call starts in Enter; in all later steps its arguments stay the same.
LEMMA CallsOnly ==
  ASSUME IInv, Next, NEW r \in Runner, pc'[r] # "idle"
  PROVE  \/ \E s \in Stage, q \in Request : Enter(r, s, q)
         \/ pc[r] # "idle" /\ job'[r] = job[r]
<1> USE DEF IInv, TypeOK, disk, history, memory, notes, scan
<1>1. ASSUME NEW p \in Runner, Call(p)
      PROVE  \/ \E s \in Stage, q \in Request : Enter(r, s, q)
             \/ pc[r] # "idle" /\ job'[r] = job[r]
  BY <1>1 DEF Call, Reuse, Enter, RefuseDependency, Goto
<1>2. ASSUME NEW p \in Runner, Work(p)
      PROVE  pc[r] # "idle" /\ job'[r] = job[r]
  BY <1>2 DEF Work, List, ListCompleted, Inspect, Record, Dealt, Recovered, MakeDirectory,
     WriteAttempt, Produce, Inventory, FindVacant, Promote, NoteMove, Publish, Tidy, Confirm,
     Preserve, Leave, Goto
<1>3. ASSUME NEW p \in Runner, Trouble(p)
      PROVE  pc[r] # "idle" /\ job'[r] = job[r]
  BY <1>3 DEF Trouble, HandlerFails, CallFails, ProducerFails, Crash, Leave, Goto
<1>4. ASSUME Outside
      PROVE  pc[r] # "idle" /\ job'[r] = job[r]
  BY <1>4 DEF Outside, Damage, Erase
<1> QED BY <1>1, <1>2, <1>3, <1>4 DEF Next

\* Publishing never takes an upstream completion away, so what a runner has
\* noted stays current until the outside interferes.
LEMMA NotesStep ==
  ASSUME IInv, Next
  PROVE  NotesCurrent'
<1> USE StoreAssumption DEF IInv
<1>1. CASE UNCHANGED <<completion, erased>>
  <2> SUFFICES ASSUME NEW r \in Runner, pc'[r] # "idle",
                      NEW d \in Dependencies[job'[r].stage], d \notin erased
               PROVE  completion[d] # None /\ job'[r].deps[d] = completion[d].attempt
    BY <1>1 DEF NotesCurrent
  <2>1. ASSUME NEW s \in Stage, NEW q \in Request, Enter(r, s, q)
        PROVE  completion[d] # None /\ job'[r].deps[d] = completion[d].attempt
    <3>1. job'[r] = NotedJob(s, q)
      BY <2>1 DEF Enter, NotedJob, TypeOK
    <3> QED BY <2>1, <3>1, EnterNotes DEF Enter, NotedJob
  <2>2. ASSUME pc[r] # "idle", job'[r] = job[r]
        PROVE  completion[d] # None /\ job'[r].deps[d] = completion[d].attempt
    BY <2>2 DEF NotesCurrent
  <2>3. \/ \E s \in Stage, q \in Request : Enter(r, s, q)
        \/ pc[r] # "idle" /\ job'[r] = job[r]
    BY CallsOnly
  <2> QED BY <2>1, <2>2, <2>3
<1>2. ASSUME NEW p \in Runner, Publish(p), completion[job[p].stage] = None
      PROVE  NotesCurrent'
  <2> DEFINE s == job[p].stage
  <2>1. erased' = erased /\ job' = job /\ \A r \in Runner : pc'[r] # "idle" => pc[r] # "idle"
    BY <1>2 DEF Publish, Goto, NoFault, history, TypeOK
  <2>2. \A d \in Stage : completion[d] # None => completion'[d] = completion[d]
    BY <1>2 DEF Publish, TypeOK
  <2>3. \A r \in Runner : pc[r] # "idle" => Dependencies[job[r].stage] \subseteq Stage
    BY JobStages DEF GraphAssumption
  <2> QED BY <2>1, <2>2, <2>3 DEF NotesCurrent
<1>3. ASSUME NEW s \in Stage, Erase(s)
      PROVE  NotesCurrent'
  BY <1>3 DEF Erase, memory, notes, scan, NotesCurrent, TypeOK
<1> QED BY <1>1, <1>2, <1>3, CompletionChanges, JobStages DEF Publish

\* The published manifest carries the noted digests.
LEMMA ChainStep ==
  ASSUME IInv, Next
  PROVE  ChainConsistent'
<1> USE StoreAssumption DEF IInv
<1>1. CASE UNCHANGED <<completion, erased>>
  BY <1>1 DEF ChainConsistent
<1>2. ASSUME NEW p \in Runner, Publish(p), completion[job[p].stage] = None
      PROVE  ChainConsistent'
  <2>1. \A d \in Dependencies[job[p].stage] : d \notin erased =>
          completion[d] # None /\ job[p].deps[d] = completion[d].attempt
    BY <1>2 DEF Publish, NotesCurrent
  <2>2. \A d \in Stage : completion[d] # None => completion'[d] = completion[d]
    BY <1>2 DEF Publish, TypeOK
  <2>3. job[p].stage \in Stage
    BY <1>2, JobStages DEF Publish
  <2>4. \A s \in Stage \ {job[p].stage} : completion'[s] = completion[s]
    BY <1>2, <2>3 DEF Publish, TypeOK
  <2>5. \A s \in Stage : Dependencies[s] \subseteq Stage
    BY DEF GraphAssumption
  <2>6. completion'[job[p].stage].deps = job[p].deps
    BY <1>2, <2>3 DEF Publish, TypeOK
  <2> QED BY <1>2, <2>1, <2>2, <2>3, <2>4, <2>5, <2>6 DEF Publish, NoFault, history, ChainConsistent
<1>3. ASSUME NEW s \in Stage, Erase(s)
      PROVE  ChainConsistent'
  BY <1>3 DEF Erase, ChainConsistent, TypeOK
<1> QED BY <1>1, <1>2, <1>3, CompletionChanges, JobStages DEF Publish

\* Only unpublished attempts are written, moved or created.
LEMMA PreservedStep ==
  ASSUME IInv, Next
  PROVE  PublishedInPlace'
<1> USE StoreAssumption DEF IInv
<1> DEFINE Kept(s) ==
      LET a == completion[s].attempt IN
      /\ a \in Attempt
      /\ home'[a] = home[a] /\ loc'[a] = loc[a] /\ rec'[a] = rec[a]
<1>1. ASSUME NEW s \in Stage, completion[s] # None
      PROVE  Kept(s)
  <2> DEFINE a == completion[s].attempt
  <2>1. completion[s] \in Manifest(s)
    BY <1>1 DEF TypeOK
  <2>2. a \in Attempt /\ loc[a] = "completed-attempts"
    BY <1>1, <2>1 DEF Manifest, PublishedInPlace
  <2>3. rec[a] # None
    <3>1. [stage |-> s, request |-> completion[s].request, deps |-> completion[s].deps] \in Job
      BY <2>1 DEF Manifest, Job, Identity
    <3> QED BY <1>1, <3>1 DEF PublishedInPlace, NoneAssumption
  <2>4. ASSUME NEW p \in Runner, NEW b \in Attempt, MakeDirectory(p, b)
        PROVE  Kept(s)
    BY <2>2, <2>4 DEF MakeDirectory, TypeOK
  <2>5. ASSUME NEW p \in Runner, WriteAttempt(p)
        PROVE  Kept(s)
    <3>1. mine[p] # a
      BY <2>3, <2>5 DEF WriteAttempt, Owns
    <3> QED BY <2>2, <2>5, <3>1 DEF WriteAttempt, TypeOK
  <2>6. ASSUME NEW p \in Runner, Promote(p)
        PROVE  Kept(s)
    BY <2>2, <2>6 DEF Promote, TypeOK
  <2>7. \/ UNCHANGED <<home, loc, rec>>
        \/ \E p \in Runner : \/ \E b \in Attempt : MakeDirectory(p, b)
                             \/ WriteAttempt(p) \/ Promote(p)
    <3>1. ASSUME NEW p \in Runner, Call(p) \/ Trouble(p)
          PROVE  UNCHANGED <<home, loc, rec>>
      BY <3>1 DEF Call, Trouble, Reuse, Enter, RefuseDependency, HandlerFails, CallFails,
         ProducerFails, Crash, disk, history
    <3>2. ASSUME NEW p \in Runner, Work(p), ~ \E b \in Attempt : MakeDirectory(p, b),
                 ~WriteAttempt(p), ~Promote(p)
          PROVE  UNCHANGED <<home, loc, rec>>
      BY <3>2 DEF Work, List, ListCompleted, Inspect, Record, Recovered, Produce, Inventory,
         FindVacant, NoteMove, Publish, Tidy, Confirm, Preserve, disk, history
    <3>3. Outside => UNCHANGED <<home, loc, rec>>
      BY DEF Outside, Damage, Erase
    <3> QED BY <3>1, <3>2, <3>3 DEF Next
  <2> QED BY <2>2, <2>4, <2>5, <2>6, <2>7
<1>2. CASE UNCHANGED <<completion, erased>>
  BY <1>1, <1>2 DEF PublishedInPlace
<1>3. ASSUME NEW p \in Runner, Publish(p), completion[job[p].stage] = None
      PROVE  PublishedInPlace'
  <2> DEFINE s == job[p].stage
  <2>1. job[p] \in Job
    BY <1>3, RunnerTypes DEF Owns, Publish
  <2>2. /\ home[mine[p]] = s /\ loc[mine[p]] = "completed-attempts"
        /\ rec[mine[p]] = [stage |-> s, request |-> job[p].request, deps |-> job[p].deps]
    BY <1>3, <2>1, JobShape DEF Owns, Publish, Started, Recorded
  <2> QED BY <1>3, <2>2 DEF Publish, PublishedInPlace, TypeOK
<1>4. ASSUME NEW s \in Stage, Erase(s)
      PROVE  PublishedInPlace'
  BY <1>4 DEF Erase, PublishedInPlace, TypeOK
<1> QED BY <1>2, <1>3, <1>4, CompletionChanges

-----------------------------------------------------------------------------
\* The empty store satisfies the invariant.
LEMMA InitInvariant == Init => IInv
<1> SUFFICES ASSUME Init PROVE IInv
  OBVIOUS
<1>1. TypeOK
  BY DEF Init, TypeOK, Step, Place
<1>2. (\A p \in Runner : Owns(p)) /\ OwnersDistinct /\ NotesCurrent
  BY DEF Init, Owns, OwnersDistinct, NotesCurrent, Started, Recorded, Counted
<1>3. UnusedIsBlank /\ ChainConsistent /\ PublishedInPlace
  BY StoreAssumption DEF Init, UnusedIsBlank, ChainConsistent, PublishedInPlace, NoneAssumption
<1> QED BY <1>1, <1>2, <1>3 DEF IInv

\* It speaks of the store's variables only.
LEMMA StutterInvariant == IInv /\ UNCHANGED vars => IInv'
BY DEF vars, disk, history, memory, notes, scan, IInv, TypeOK, Owns, OwnersDistinct, UnusedIsBlank,
   NotesCurrent, ChainConsistent, PublishedInPlace

\* Every step, or none, keeps it.
LEMMA InvariantStep == IInv /\ [Next]_vars => IInv'
BY TypeStep, OwnsStep, NamesStep, NotesStep, ChainStep, PreservedStep, StutterInvariant DEF IInv

\* The store's own invariant holds in every reachable state.
THEOREM StoreInvariant == Spec => []IInv
BY InitInvariant, InvariantStep, PTL DEF Spec

\* Files and locals always have the shapes the code's models declare.
THEOREM StoreTypeOK == Spec => []TypeOK
<1>1. IInv => TypeOK BY DEF IInv
<1> QED BY <1>1, StoreInvariant, PTL

\* A published completion was built from the completions that stand upstream.
THEOREM StoreChainConsistent == Spec => []ChainConsistent
<1>1. IInv => ChainConsistent BY DEF IInv
<1> QED BY <1>1, StoreInvariant, PTL

\* No step of the program replaces or removes a completion.
THEOREM StoreCompletionWriteOnce == Spec => CompletionWriteOnce
<1>1. ASSUME IInv, [Next]_vars, NEW s \in Stage, completion[s] # None
      PROVE  completion'[s] = completion[s] \/ s \in erased'
  <2>1. ASSUME NEW p \in Runner, Publish(p), completion[job[p].stage] = None
        PROVE  completion'[s] = completion[s]
    BY <1>1, <2>1 DEF Publish, IInv, TypeOK
  <2>2. ASSUME NEW t \in Stage, Erase(t)
        PROVE  completion'[s] = completion[s] \/ s \in erased'
    BY <1>1, <2>2 DEF Erase, IInv, TypeOK
  <2>3. CASE UNCHANGED vars
    BY <2>3 DEF vars, disk, history
  <2> QED BY <1>1, <2>1, <2>2, <2>3, CompletionChanges
<1>2. IInv /\ [Next]_vars =>
        [\A s \in Stage : completion[s] # None =>
           completion'[s] = completion[s] \/ s \in erased']_vars
  BY <1>1
<1> QED BY <1>2, StoreInvariant, PTL DEF Spec, CompletionWriteOnce

\* An attempt without a runner is never taken up again, and only the outside
\* changes what is in it.
LEMMA EndedStep ==
  ASSUME IInv, Next, NEW a \in Attempt, loc[a] # "absent", \A p \in Runner : mine[p] # a
  PROVE  (\A p \in Runner : mine'[p] # a) /\ (~Tampering => art'[a] = art[a])
<1> USE StoreAssumption DEF IInv, disk, memory, notes, scan
<1> DEFINE Ended == (\A p \in Runner : mine'[p] # a) /\ (~Tampering => art'[a] = art[a])
<1>1. a # None
  BY DEF NoneAssumption
<1>2. ASSUME NEW p \in Runner, NEW how, Leave(p, how), art' = art
      PROVE  Ended
  BY <1>1, <1>2 DEF Leave, TypeOK
<1>3. ASSUME UNCHANGED <<mine, art>>
      PROVE  Ended
  BY <1>3
<1>4. ASSUME NEW p \in Runner, NEW b \in Attempt, MakeDirectory(p, b)
      PROVE  Ended
  BY <1>4 DEF MakeDirectory, TypeOK
<1>5. ASSUME NEW p \in Runner, NEW x, art' = [art EXCEPT ![mine[p]] = x], mine' = mine
      PROVE  Ended
  BY <1>5 DEF TypeOK
<1>6. ASSUME NEW p \in Runner, Call(p)
      PROVE  Ended
  BY <1>3, <1>6 DEF Call, Reuse, Enter, RefuseDependency
<1>7. ASSUME NEW p \in Runner, Work(p)
      PROVE  Ended
  <2>1. CASE \/ List(p) \/ ListCompleted(p) \/ Recovered(p) \/ WriteAttempt(p)
             \/ Inventory(p) \/ FindVacant(p) \/ Promote(p) \/ NoteMove(p)
             \/ Publish(p) \/ Tidy(p)
    BY <1>3, <2>1 DEF List, ListCompleted, Recovered, WriteAttempt, Inventory, FindVacant,
       Promote, NoteMove, Publish, Tidy
  <2>2. CASE \/ Record(p) \/ Confirm(p) \/ Preserve(p) \/ \E b \in Attempt : Inspect(p, b)
    BY <1>2, <1>3, <2>2 DEF Record, Dealt, Confirm, Preserve, Inspect
  <2>3. ASSUME NEW c \in Content, Produce(p, c)
        PROVE  Ended
    BY <1>5, <2>3 DEF Produce
  <2> HIDE DEF Ended, IInv, disk, memory, notes, scan
  <2> QED BY <1>4, <1>7, <2>1, <2>2, <2>3 DEF Work
<1>8. ASSUME NEW p \in Runner, Trouble(p)
      PROVE  Ended
  <2>1. CASE HandlerFails(p) \/ CallFails(p) \/ Crash(p)
    BY <1>2, <1>3, <2>1 DEF HandlerFails, CallFails, Crash
  <2>2. ASSUME NEW c \in Content \cup {Empty}, ProducerFails(p, c)
        PROVE  Ended
    BY <1>5, <2>2 DEF ProducerFails
  <2> HIDE DEF Ended, IInv, disk, memory, notes, scan
  <2> QED BY <1>8, <2>1, <2>2 DEF Trouble
<1>9. ASSUME Outside
      PROVE  Ended
  BY <1>9 DEF Outside, Damage, Erase
<1> QED BY <1>6, <1>7, <1>8, <1>9 DEF Next

\* Attempt directories and records of both kinds are never removed, moved
\* back or rewritten.
LEMMA EvidenceStep ==
  ASSUME IInv, Next, NEW a \in Attempt
  PROVE  /\ loc[a] # "absent" => loc'[a] # "absent"
         /\ loc[a] = "completed-attempts" => loc'[a] = loc[a]
         /\ rec[a] # None => rec'[a] = rec[a]
         /\ failure[a] # None => failure'[a] = failure[a]
<1> USE DEF IInv, disk, history
<1> DEFINE Kept == /\ loc[a] # "absent" => loc'[a] # "absent"
                   /\ loc[a] = "completed-attempts" => loc'[a] = loc[a]
                   /\ rec[a] # None => rec'[a] = rec[a]
                   /\ failure[a] # None => failure'[a] = failure[a]
<1>1. ASSUME NEW p \in Runner, NEW b \in Attempt, MakeDirectory(p, b)
      PROVE  Kept
  BY <1>1 DEF MakeDirectory, TypeOK
<1>2. ASSUME NEW p \in Runner, WriteAttempt(p)
      PROVE  Kept
  BY <1>2 DEF WriteAttempt, Owns, TypeOK
<1>3. ASSUME NEW p \in Runner, Promote(p)
      PROVE  Kept
  BY <1>3 DEF Promote, TypeOK
<1>4. ASSUME NEW p \in Runner, Record(p) \/ Preserve(p)
      PROVE  Kept
  BY <1>4 DEF Record, Preserve, WriteFailure, TypeOK
<1>5. ASSUME NEW p \in Runner, Call(p) \/ Trouble(p)
      PROVE  Kept
  BY <1>5 DEF Call, Trouble, Reuse, Enter, RefuseDependency, HandlerFails, CallFails,
     ProducerFails, Crash
<1>6. ASSUME NEW p \in Runner, Work(p), ~ \E b \in Attempt : MakeDirectory(p, b),
             ~WriteAttempt(p), ~Promote(p), ~Record(p), ~Preserve(p)
      PROVE  UNCHANGED <<loc, rec, failure>>
  BY <1>6 DEF Work, List, ListCompleted, Inspect, Recovered, Produce, Inventory,
     FindVacant, NoteMove, Publish, Tidy, Confirm
<1>7. ASSUME Outside
      PROVE  Kept
  BY <1>7 DEF Outside, Damage, Erase
<1> QED BY <1>1, <1>2, <1>3, <1>4, <1>5, <1>6, <1>7 DEF Next

\* Whatever runners, crashes and competitors do, directories, attempt records and
\* failure records only accumulate, and what an ended attempt holds is left alone
\* by all but the outside.
THEOREM StoreEvidenceRetained == Spec => EvidenceRetained
<1>1. IInv /\ [Next]_vars =>
        [\A a \in Attempt :
           /\ loc[a] # "absent" => loc'[a] # "absent"
           /\ loc[a] = "completed-attempts" => loc'[a] = loc[a]
           /\ rec[a] # None => rec'[a] = rec[a]
           /\ failure[a] # None => failure'[a] = failure[a]
           /\ (loc[a] # "absent" /\ \A p \in Runner : mine[p] # a) =>
                (\A p \in Runner : mine'[p] # a) /\ (~Tampering => art'[a] = art[a])]_vars
  BY EvidenceStep, EndedStep
<1> QED BY <1>1, StoreInvariant, PTL DEF Spec, EvidenceRetained

-----------------------------------------------------------------------------
(***************************************************************************)
(* The store implements the write-once ledger of StageLedger: a link into  *)
(* place is Publish, outside removal is Erase, every other step stutters.  *)
(***************************************************************************)

\* The ledger a state of the store stands for.
Book == [s \in Stage |-> IF completion[s] = None THEN None
          ELSE [attempt |-> completion[s].attempt, deps |-> completion[s].deps]]

\* A published completion is an entry of the ledger, not its absence.
LEMMA BookEntry ==
  ASSUME TypeOK, NEW s \in Stage, completion[s] # None
  PROVE  [attempt |-> completion[s].attempt, deps |-> completion[s].deps] # None
<1>1. completion[s] \in Manifest(s)
  BY DEF TypeOK
<1>2. [attempt |-> completion[s].attempt, deps |-> completion[s].deps] \in LedgerEntry(s)
  BY <1>1 DEF Manifest, LedgerEntry
<1> QED BY <1>2, StoreAssumption DEF NoneAssumption

\* The manifest a runner is about to link into place is one.
LEMMA ManifestWritten ==
  ASSUME TypeOK, NEW p \in Runner, Owns(p), pc[p] = "publish"
  PROVE  [attempt |-> mine[p], request |-> job[p].request,
          deps |-> job[p].deps, inventory |-> inv[p]] # None
<1> DEFINE m == [attempt |-> mine[p], request |-> job[p].request,
                 deps |-> job[p].deps, inventory |-> inv[p]]
<1>1. job[p] \in Job /\ mine[p] \in Attempt
  BY RunnerTypes DEF Owns, Started
<1>2. inv[p] \in Content
  BY DEF TypeOK, Owns, Counted
<1>3. m \in Manifest(job[p].stage) /\ job[p].stage \in Stage
  BY <1>1, <1>2, JobShape DEF Manifest
<1> QED BY <1>3, StoreAssumption DEF NoneAssumption

\* Every step of the store is a step of the ledger or leaves it alone.
LEMMA LedgerStep == IInv /\ [Next]_vars => [Ledger!Next]_(Ledger!vars)
<1> SUFFICES ASSUME IInv, [Next]_vars
             PROVE  Ledger!Next \/ UNCHANGED <<Book, erased>>
  BY DEF Ledger!vars, Book
<1> USE StoreAssumption DEF IInv
<1>1. CASE UNCHANGED vars \/ UNCHANGED <<completion, erased>>
  BY <1>1 DEF vars, disk, history, Book
<1>2. ASSUME NEW p \in Runner, NEW s \in Stage, s = job[p].stage,
             Publish(p), completion[s] = None
      PROVE  Ledger!Next
  <2> DEFINE e == [attempt |-> mine[p], deps |-> job[p].deps]
  <2>1. job[p] \in Job /\ mine[p] \in Attempt
    BY <1>2, RunnerTypes DEF Publish, Owns, Started
  <2>2. e \in Ledger!Entry(s)
    BY <1>2, <2>1, JobShape DEF Ledger!Entry
  <2>3. \A d \in Dependencies[s] : d \notin erased =>
          Book[d] # None /\ Book[d].attempt = e.deps[d]
    <3> SUFFICES ASSUME NEW d \in Dependencies[s], d \notin erased
                 PROVE  Book[d] # None /\ Book[d].attempt = e.deps[d]
      OBVIOUS
    <3>1. d \in Stage /\ completion[d] # None /\ completion[d].attempt = job[p].deps[d]
      BY <1>2, <2>1 DEF Publish, NotesCurrent, GraphAssumption
    <3>2. [attempt |-> completion[d].attempt, deps |-> completion[d].deps] # None
      BY <3>1, BookEntry
    <3> QED BY <3>1, <3>2 DEF Book
  <2> DEFINE m == [attempt |-> mine[p], request |-> job[p].request,
                   deps |-> job[p].deps, inventory |-> inv[p]]
  <2>4. Book[s] = None
    BY <1>2, <2>1 DEF Book
  <2>5. Book' = [Book EXCEPT ![s] = e]
    <3>1. completion' = [completion EXCEPT ![s] = m] /\ DOMAIN completion = Stage
      BY <1>2 DEF Publish, TypeOK
    <3>2. m # None
      BY <1>2, ManifestWritten DEF Publish
    <3>3. m.attempt = mine[p] /\ m.deps = job[p].deps
      OBVIOUS
    <3> HIDE DEF m
    <3>4. \A r \in Stage : completion'[r] = IF r = s THEN m ELSE completion[r]
      BY <2>1, <3>1
    <3> QED BY <2>1, <3>2, <3>3, <3>4 DEF Book
  <2>6. Ledger!Publish(s)
    <3>1. erased' = erased
      BY <1>2 DEF Publish, NoFault, history
    <3> HIDE DEF e
    <3>2. /\ Book[s] = None
          /\ \E x \in Ledger!Entry(s) :
               /\ \A d \in Dependencies[s] :
                    d \notin erased => Book[d] # None /\ Book[d].attempt = x.deps[d]
               /\ Book' = [Book EXCEPT ![s] = x]
          /\ erased' = erased
      BY <2>2, <2>3, <2>4, <2>5, <3>1
    <3> QED BY <3>2 DEF Ledger!Publish, Book
  <2> QED BY <2>6 DEF Ledger!Next
<1>3. ASSUME NEW s \in Stage, Erase(s)
      PROVE  Ledger!Next
  <2>1. Book[s] # None
    BY <1>3, BookEntry DEF Erase, Book
  <2>2. Book' = [Book EXCEPT ![s] = None]
    BY <1>3 DEF Erase, Book, TypeOK
  <2> QED BY <1>3, <2>1, <2>2 DEF Ledger!Next, Ledger!Erase, Book, Erase
<1> QED BY <1>1, <1>2, <1>3, CompletionChanges, JobStages DEF Publish

\* Refinement: every behaviour of the store is one of the ledger.
THEOREM StoreImplementsLedger == Spec => ImplementsLedger
<1>1. Init => Ledger!Init
  BY DEF Init, Ledger!Init
<1> QED BY <1>1, LedgerStep, StoreInvariant, PTL DEF Spec, ImplementsLedger, Ledger!Spec

-----------------------------------------------------------------------------
(***************************************************************************)
(* What a call returns is what the producers made.  On top of IInv: an     *)
(* attempt whose producer may still write is not published, so inventories *)
(* taken once stay those of the bytes the producer left, unless these were *)
(* changed before the inventory.                                           *)
(***************************************************************************)
Fresh == {"attempt", "produce", "inventory", "vacant", "promote", "moved", "publish"}

Pending == \A p \in Runner : pc[p] \in Fresh => Unpublished(mine[p])

InventoriesMade ==
  /\ \A s \in Stage : (completion[s] # None /\ completion[s].attempt \notin early) =>
       completion[s].inventory = made[completion[s].attempt]
  /\ \A p \in Runner : (pc[p] \in Counted /\ mine[p] \notin early) => inv[p] = made[mine[p]]
  /\ \A p \in Runner : (pc[p] = "inventory" /\ mine[p] \notin early) =>
       art[mine[p]] = made[mine[p]]

GInv == Pending /\ InventoriesMade

\* A runner is before its publication because it was, or has just begun.
LEMMA FreshMoves ==
  ASSUME IInv, Next, NEW p \in Runner, pc'[p] \in Fresh
  PROVE  \/ pc[p] \in Fresh /\ mine'[p] = mine[p]
         \/ \E a \in Attempt : MakeDirectory(p, a)
<1> USE DEF IInv, TypeOK, disk, memory, notes, scan, Fresh
<1>1. ASSUME NEW r \in Runner, Call(r)
      PROVE  pc[p] \in Fresh /\ mine'[p] = mine[p]
  BY <1>1 DEF Call, Reuse, Enter, RefuseDependency, Goto
<1>2. ASSUME NEW r \in Runner, Trouble(r)
      PROVE  pc[p] \in Fresh /\ mine'[p] = mine[p]
  BY <1>2 DEF Trouble, HandlerFails, CallFails, ProducerFails, Crash, Leave, Goto
<1>3. ASSUME NEW r \in Runner, Work(r)
      PROVE  \/ pc[p] \in Fresh /\ mine'[p] = mine[p]
             \/ \E a \in Attempt : MakeDirectory(p, a)
  <2>1. CASE List(r) \/ ListCompleted(r) \/ Recovered(r) \/ \E a \in Attempt : Inspect(r, a)
    BY <2>1 DEF List, ListCompleted, Recovered, Inspect, Leave, Goto
  <2>2. CASE Record(r)
    BY <2>2 DEF Record, Dealt, Leave, Goto
  <2>3. CASE \E a \in Attempt : MakeDirectory(r, a)
    <3>1. PICK a \in Attempt : MakeDirectory(r, a)
      BY <2>3
    <3>2. CASE r = p
      BY <3>1, <3>2
    <3>3. CASE r # p
      BY <3>1, <3>3 DEF MakeDirectory, Goto
    <3>4. QED
      BY <3>2, <3>3
  <2>4. CASE \/ WriteAttempt(r) \/ (\E c \in Content : Produce(r, c)) \/ Inventory(r)
             \/ FindVacant(r) \/ Promote(r) \/ NoteMove(r)
    BY <2>4 DEF WriteAttempt, Produce, Inventory, FindVacant, Promote, NoteMove, Goto
  <2>5. CASE Publish(r) \/ Tidy(r) \/ Confirm(r) \/ Preserve(r)
    BY <2>5 DEF Publish, Tidy, Confirm, Preserve, Leave, Goto
  <2> QED BY <1>3, <2>1, <2>2, <2>3, <2>4, <2>5 DEF Work
<1>4. Outside => pc[p] \in Fresh /\ mine'[p] = mine[p]
  BY DEF Outside, Damage, Erase
<1> QED BY <1>1, <1>2, <1>3, <1>4 DEF Next

\* A runner holds an inventory because it did, or has just taken it.
LEMMA CountedMoves ==
  ASSUME IInv, Next, NEW p \in Runner, pc'[p] \in Counted
  PROVE  \/ pc[p] \in Counted /\ mine'[p] = mine[p] /\ inv'[p] = inv[p]
         \/ Inventory(p)
<1> USE DEF IInv, TypeOK, disk, memory, notes, scan, Counted
<1>1. ASSUME NEW r \in Runner, Call(r)
      PROVE  pc[p] \in Counted /\ mine'[p] = mine[p] /\ inv'[p] = inv[p]
  BY <1>1 DEF Call, Reuse, Enter, RefuseDependency, Goto
<1>2. ASSUME NEW r \in Runner, Trouble(r)
      PROVE  pc[p] \in Counted /\ mine'[p] = mine[p] /\ inv'[p] = inv[p]
  BY <1>2 DEF Trouble, HandlerFails, CallFails, ProducerFails, Crash, Leave, Goto
<1>3. ASSUME NEW r \in Runner, Work(r)
      PROVE  \/ pc[p] \in Counted /\ mine'[p] = mine[p] /\ inv'[p] = inv[p]
             \/ Inventory(p)
  <2>1. CASE List(r) \/ ListCompleted(r) \/ Recovered(r) \/ \E a \in Attempt : Inspect(r, a)
    BY <2>1 DEF List, ListCompleted, Recovered, Inspect, Leave, Goto
  <2>2. CASE Record(r)
    BY <2>2 DEF Record, Dealt, Leave, Goto
  <2>3. CASE WriteAttempt(r) \/ \E a \in Attempt : MakeDirectory(r, a)
    BY <2>3 DEF WriteAttempt, MakeDirectory, Goto
  <2>4. CASE \/ (\E c \in Content : Produce(r, c)) \/ Inventory(r)
             \/ FindVacant(r) \/ Promote(r) \/ NoteMove(r)
    BY <2>4 DEF Produce, Inventory, FindVacant, Promote, NoteMove, Goto
  <2>5. CASE Publish(r) \/ Tidy(r) \/ Confirm(r) \/ Preserve(r)
    BY <2>5 DEF Publish, Tidy, Confirm, Preserve, Leave, Goto
  <2> QED BY <1>3, <2>1, <2>2, <2>3, <2>4, <2>5 DEF Work
<1>4. Outside => pc[p] \in Counted /\ mine'[p] = mine[p] /\ inv'[p] = inv[p]
  BY DEF Outside, Damage, Erase
<1> QED BY <1>1, <1>2, <1>3, <1>4 DEF Next

\* Only a producer that returns adds to the history of what was made.
LEMMA MadeChanges ==
  ASSUME Next
  PROVE  UNCHANGED made \/ \E p \in Runner, c \in Content : Produce(p, c)
<1> USE DEF history, NoFault
<1>1. ASSUME NEW p \in Runner, Call(p) PROVE UNCHANGED made
  BY <1>1 DEF Call, Reuse, Enter, RefuseDependency
<1>2. ASSUME NEW p \in Runner, Trouble(p) PROVE UNCHANGED made
  BY <1>2 DEF Trouble, HandlerFails, CallFails, ProducerFails, Crash
<1>3. ASSUME NEW p \in Runner, Work(p)
      PROVE  UNCHANGED made \/ \E c \in Content : Produce(p, c)
  BY <1>3 DEF Work, List, ListCompleted, Inspect, Record, Recovered, MakeDirectory,
              WriteAttempt, Inventory, FindVacant, Promote, NoteMove, Publish, Tidy, Confirm,
              Preserve
<1>4. Outside => UNCHANGED made
  BY DEF Outside, Damage, Erase
<1> QED BY <1>1, <1>2, <1>3, <1>4 DEF Next

\* The histories of early changes and of moves not noted only grow; a move goes
\* unnoted when the handler is entered right after the rename.
LEMMA HistoryGrows ==
  ASSUME Next
  PROVE  /\ early \subseteq early'
         /\ \/ unnoted' = unnoted
            \/ \E p \in Runner : /\ HandlerFails(p) /\ pc[p] = "moved"
                               /\ unnoted' = unnoted \cup {mine[p]}
<1> USE DEF history, NoFault
<1>1. ASSUME NEW p \in Runner, Call(p) PROVE UNCHANGED <<early, unnoted>>
  BY <1>1 DEF Call, Reuse, Enter, RefuseDependency
<1>2. ASSUME NEW p \in Runner, Work(p) PROVE UNCHANGED <<early, unnoted>>
  BY <1>2 DEF Work, List, ListCompleted, Inspect, Record, Recovered, MakeDirectory,
     WriteAttempt, Produce, Inventory, FindVacant, Promote, NoteMove, Publish, Tidy, Confirm,
     Preserve
<1>3. ASSUME NEW p \in Runner, Trouble(p), ~HandlerFails(p) PROVE UNCHANGED <<early, unnoted>>
  BY <1>3 DEF Trouble, CallFails, ProducerFails, Crash
<1>4. ASSUME NEW p \in Runner, HandlerFails(p)
      PROVE  /\ early' = early
             /\ \/ unnoted' = unnoted
                \/ pc[p] = "moved" /\ unnoted' = unnoted \cup {mine[p]}
  BY <1>4 DEF HandlerFails
<1>5. ASSUME Outside PROVE early \subseteq early' /\ unnoted' = unnoted
  BY <1>5 DEF Outside, Damage, Erase
<1> QED BY <1>1, <1>2, <1>3, <1>4, <1>5 DEF Next

\* Between the return of its producer and its inventory, an attempt changes
\* only from outside, and the history remembers it.
LEMMA OutputKept ==
  ASSUME IInv, Next, NEW p \in Runner, pc'[p] = "inventory"
  PROVE  \/ /\ pc[p] = "inventory" /\ mine'[p] = mine[p]
            /\ mine[p] \in early' \/ art'[mine[p]] = art[mine[p]]
         \/ \E c \in Content : Produce(p, c)
<1> USE DEF IInv, TypeOK, disk, memory, notes, scan
<1> DEFINE Kept == /\ pc[p] = "inventory" /\ mine'[p] = mine[p]
                   /\ mine[p] \in early' \/ art'[mine[p]] = art[mine[p]]
<1>1. ASSUME NEW r \in Runner, Call(r) PROVE Kept
  BY <1>1 DEF Call, Reuse, Enter, RefuseDependency, Goto
<1>2. ASSUME NEW r \in Runner, Trouble(r) PROVE Kept
  <2>1. CASE HandlerFails(r) \/ CallFails(r) \/ Crash(r)
    BY <2>1 DEF HandlerFails, CallFails, Crash, Leave, Goto
  <2>2. ASSUME NEW c \in Content \cup {Empty}, ProducerFails(r, c)
        PROVE  Kept
    <3>1. r # p /\ pc[p] = "inventory" /\ mine'[p] = mine[p]
      BY <2>2 DEF ProducerFails, Goto
    <3>2. pc[r] \in Started /\ art' = [art EXCEPT ![mine[r]] = c]
      BY <2>2 DEF ProducerFails, Started
    <3> QED BY <3>1, <3>2, OthersKeep DEF Started
  <2> QED BY <1>2, <2>1, <2>2 DEF Trouble
<1>3. ASSUME NEW r \in Runner, NEW c \in Content, Produce(r, c), r # p PROVE Kept
  <2>1. pc[p] = "inventory" /\ mine'[p] = mine[p]
    BY <1>3 DEF Produce, Goto
  <2>2. pc[r] \in Started /\ art' = [art EXCEPT ![mine[r]] = c]
    BY <1>3 DEF Produce, Started
  <2> QED BY <1>3, <2>1, <2>2, OthersKeep DEF Started
<1>4. ASSUME NEW r \in Runner, Work(r), ~ \E c \in Content : Produce(r, c) PROVE Kept
  <2>1. CASE \/ List(r) \/ ListCompleted(r) \/ Recovered(r) \/ Record(r)
             \/ \E a \in Attempt : Inspect(r, a)
    BY <2>1 DEF List, ListCompleted, Recovered, Record, Dealt, Inspect, Leave, Goto
  <2>2. CASE \/ WriteAttempt(r) \/ (\E a \in Attempt : MakeDirectory(r, a))
             \/ Inventory(r) \/ FindVacant(r)
    BY <2>2 DEF WriteAttempt, MakeDirectory, Inventory, FindVacant, Goto
  <2>3. CASE Promote(r) \/ NoteMove(r) \/ Publish(r)
    BY <2>3 DEF Promote, NoteMove, Publish, Goto
  <2>4. CASE Tidy(r) \/ Confirm(r) \/ Preserve(r)
    BY <2>4 DEF Tidy, Confirm, Preserve, Leave, Goto
  <2> QED BY <1>4, <2>1, <2>2, <2>3, <2>4 DEF Work
<1>5. ASSUME NEW a \in Attempt, NEW c \in Content, Damage(a, c) PROVE Kept
  <2>1. pc[p] = "inventory" /\ mine'[p] = mine[p] /\ art' = [art EXCEPT ![a] = c]
    BY <1>5 DEF Damage
  <2>2. mine[p] = a => mine[p] \in early'
    BY <1>5, <2>1 DEF Damage
  <2> QED BY <2>1, <2>2
<1>6. ASSUME NEW s \in Stage, Erase(s) PROVE Kept
  BY <1>6 DEF Erase
<1> QED BY <1>1, <1>2, <1>3, <1>4, <1>5, <1>6 DEF Next, Work, Outside

\* Publication is of a runner's own attempt, which it then no longer works on.
LEMMA PendingStep ==
  ASSUME IInv, GInv, Next
  PROVE  Pending'
<1> USE StoreAssumption DEF IInv
<1> SUFFICES ASSUME NEW p \in Runner, pc'[p] \in Fresh, NEW s \in Stage, completion'[s] # None
             PROVE  completion'[s].attempt # mine'[p]
  BY DEF Pending, Unpublished
<1>1. ASSUME NEW a \in Attempt, MakeDirectory(p, a)
      PROVE  completion'[s].attempt # mine'[p]
  <2>1. completion' = completion /\ mine'[p] = a /\ loc[a] = "absent"
    BY <1>1 DEF MakeDirectory, TypeOK
  <2>2. loc[completion[s].attempt] = "completed-attempts"
    BY <2>1 DEF PublishedInPlace
  <2> QED BY <2>1, <2>2
<1>2. CASE pc[p] \in Fresh /\ mine'[p] = mine[p]
  <2>1. mine[p] # None /\ (completion[s] # None => completion[s].attempt # mine[p])
    BY <1>2 DEF GInv, Pending, Unpublished, Owns, Fresh, Started
  <2>2. CASE UNCHANGED <<completion, erased>>
    BY <1>2, <2>1, <2>2
  <2>3. ASSUME NEW r \in Runner, Publish(r), completion[job[r].stage] = None
        PROVE  completion'[s].attempt # mine'[p]
    <3>1. pc'[r] = "tidy" /\ r # p
      BY <2>3 DEF Publish, Goto, TypeOK, Fresh
    <3>2. mine[r] # mine[p]
      BY <2>1, <3>1 DEF OwnersDistinct
    <3> QED BY <1>2, <2>1, <2>3, <3>2 DEF Publish, TypeOK
  <2>4. ASSUME NEW t \in Stage, Erase(t)
        PROVE  completion'[s].attempt # mine'[p]
    BY <1>2, <2>1, <2>4 DEF Erase, TypeOK
  <2> QED BY <2>2, <2>3, <2>4, CompletionChanges
<1> QED BY <1>1, <1>2, FreshMoves

\* An inventory, held or published, is of what the attempt's producer made,
\* but for a change in between.
LEMMA InventoriesStep ==
  ASSUME IInv, GInv, Next
  PROVE  InventoriesMade'
<1> USE StoreAssumption DEF IInv, GInv
<1>0. early \subseteq early'
  BY HistoryGrows
<1>1. ASSUME NEW r \in Runner, NEW c \in Content, Produce(r, c)
      PROVE  InventoriesMade'
  <2>1. mine[r] \in Attempt /\ Unpublished(mine[r]) /\ early' = early
    BY <1>1, RunnerTypes DEF Produce, Owns, Started, Pending, Fresh
  <2>2. ASSUME NEW s \in Stage, completion'[s] # None, completion'[s].attempt \notin early
        PROVE  completion'[s].inventory = made'[completion'[s].attempt]
    <3>1. completion[s].attempt \in Attempt /\ completion[s].attempt # mine[r]
      BY <1>1, <2>1, <2>2 DEF Produce, Unpublished, TypeOK, Manifest
    <3> QED BY <1>1, <2>2, <3>1 DEF Produce, TypeOK, InventoriesMade
  <2>3. ASSUME NEW p \in Runner, p # r, pc'[p] \in Counted \cup {"inventory"}
        PROVE  /\ pc[p] = pc'[p] /\ inv'[p] = inv[p] /\ mine'[p] = mine[p]
               /\ made'[mine[p]] = made[mine[p]] /\ art'[mine[p]] = art[mine[p]]
    <3>1. pc[p] = pc'[p] /\ inv'[p] = inv[p] /\ mine'[p] = mine[p]
      BY <1>1, <2>3 DEF Produce, Goto, notes, TypeOK
    <3>2. mine[p] \in Attempt /\ mine[p] # mine[r]
      BY <2>1, <2>3, <3>1, RunnerTypes DEF OwnersDistinct, Owns, Started, Counted
    <3> QED BY <1>1, <3>1, <3>2 DEF Produce, TypeOK
  <2>4. /\ pc'[r] = "inventory" /\ mine'[r] = mine[r]
        /\ art'[mine[r]] = c /\ made'[mine[r]] = c
    BY <1>1, <2>1 DEF Produce, Goto, TypeOK
  <2>5. ASSUME NEW p \in Runner, pc'[p] \in Counted, mine'[p] \notin early
        PROVE  inv'[p] = made'[mine'[p]]
    BY <2>3, <2>4, <2>5 DEF InventoriesMade, Counted
  <2>6. ASSUME NEW p \in Runner, pc'[p] = "inventory", mine'[p] \notin early
        PROVE  art'[mine'[p]] = made'[mine'[p]]
    BY <2>3, <2>4, <2>6 DEF InventoriesMade
  <2> QED BY <2>1, <2>2, <2>5, <2>6 DEF InventoriesMade
<1>2. ASSUME UNCHANGED made, ~ \E r \in Runner, c \in Content : Produce(r, c)
      PROVE  InventoriesMade'
  <2>1. ASSUME NEW p \in Runner, pc'[p] \in Counted, mine'[p] \notin early'
        PROVE  inv'[p] = made[mine'[p]]
    <3>1. CASE Inventory(p)
      BY <1>0, <2>1, <3>1 DEF Inventory, memory, scan, TypeOK, InventoriesMade
    <3>2. CASE ~Inventory(p)
      BY <1>0, <2>1, <3>2, CountedMoves DEF InventoriesMade
    <3> QED BY <3>1, <3>2
  <2>2. ASSUME NEW p \in Runner, pc'[p] = "inventory", mine'[p] \notin early'
        PROVE  art'[mine'[p]] = made[mine'[p]]
    BY <1>0, <1>2, <2>2, OutputKept DEF InventoriesMade
  <2>3. ASSUME NEW s \in Stage, completion'[s] # None, completion'[s].attempt \notin early'
        PROVE  completion'[s].inventory = made[completion'[s].attempt]
    <3>1. CASE UNCHANGED <<completion, erased>>
      BY <1>0, <2>3, <3>1 DEF InventoriesMade
    <3>2. ASSUME NEW r \in Runner, Publish(r), completion[job[r].stage] = None
          PROVE  completion'[s].inventory = made[completion'[s].attempt]
      <4>1. mine[r] \notin early => inv[r] = made[mine[r]]
        BY <3>2 DEF Publish, Counted, InventoriesMade
      <4> QED BY <1>0, <2>3, <3>2, <4>1 DEF Publish, TypeOK, InventoriesMade
    <3>3. ASSUME NEW t \in Stage, Erase(t)
          PROVE  completion'[s].inventory = made[completion'[s].attempt]
      BY <1>0, <2>3, <3>3 DEF Erase, TypeOK, InventoriesMade
    <3> QED BY <3>1, <3>2, <3>3, CompletionChanges
  <2> QED BY <1>2, <2>1, <2>2, <2>3 DEF InventoriesMade
<1> QED BY <1>1, <1>2, MadeChanges

\* Both parts hold at the start and are kept by every step.
LEMMA GenuineInvariant == Spec => []GInv
<1>1. Init => GInv
  BY DEF Init, GInv, Pending, InventoriesMade, Fresh, Counted
<1>2. ASSUME IInv, GInv, [Next]_vars
      PROVE  GInv'
  <2>1. CASE Next
    BY <1>2, <2>1, PendingStep, InventoriesStep DEF GInv
  <2>2. CASE UNCHANGED vars
    BY <1>2, <2>2
    DEF GInv, Pending, Unpublished, InventoriesMade, vars, disk, memory, notes, scan, history
  <2> QED BY <1>2, <2>1, <2>2
<1> QED BY <1>1, <1>2, StoreInvariant, PTL DEF Spec

\* As long as nothing outside interferes, an inventory is of what is there.
Untouched ==
  ~Tampering =>
    /\ \A s \in Stage : completion[s] # None =>
         art[completion[s].attempt] = completion[s].inventory
    /\ \A p \in Runner : pc[p] \in Counted => art[mine[p]] = inv[p]

\* Artifacts are written by producers, whose attempts are not published yet.
LEMMA ArtifactsChange ==
  ASSUME Next, ~Tampering
  PROVE  \/ art' = art
         \/ \E p \in Runner : \/ \E c \in Content : Produce(p, c)
                              \/ \E c \in Content \cup {Empty} : ProducerFails(p, c)
<1> USE DEF disk
<1>1. ASSUME NEW p \in Runner, Call(p) PROVE art' = art
  BY <1>1 DEF Call, Reuse, Enter, RefuseDependency
<1>2. ASSUME NEW p \in Runner, Work(p)
      PROVE  art' = art \/ \E c \in Content : Produce(p, c)
  BY <1>2 DEF Work, List, ListCompleted, Inspect, Record, Recovered, MakeDirectory,
     WriteAttempt, Inventory, FindVacant, Promote, NoteMove, Publish, Tidy, Confirm, Preserve
<1>3. ASSUME NEW p \in Runner, Trouble(p)
      PROVE  art' = art \/ \E c \in Content \cup {Empty} : ProducerFails(p, c)
  BY <1>3 DEF Trouble, HandlerFails, CallFails, Crash
<1>4. Outside => art' = art
  BY DEF Outside, Damage, Erase
<1> QED BY <1>1, <1>2, <1>3, <1>4 DEF Next

\* A producer is at work on its own, unpublished attempt only; everything else
\* leaves artifacts alone.
LEMMA UntouchedStep ==
  ASSUME IInv, GInv, Untouched, Next
  PROVE  Untouched'
<1> USE StoreAssumption DEF IInv
<1> SUFFICES ASSUME ~Tampering
             PROVE  /\ \A s \in Stage : completion'[s] # None =>
                         art'[completion'[s].attempt] = completion'[s].inventory
                    /\ \A p \in Runner : pc'[p] \in Counted => art'[mine'[p]] = inv'[p]
  BY DEF Untouched
<1>1. CASE art' = art
  <2>1. ASSUME NEW p \in Runner, pc'[p] \in Counted
        PROVE  art'[mine'[p]] = inv'[p]
    <3>1. CASE Inventory(p)
      BY <1>1, <3>1 DEF Inventory, memory, scan, TypeOK
    <3>2. CASE ~Inventory(p)
      BY <1>1, <2>1, <3>2, CountedMoves DEF Untouched
    <3> QED BY <3>1, <3>2
  <2>2. ASSUME NEW s \in Stage, completion'[s] # None
        PROVE  art'[completion'[s].attempt] = completion'[s].inventory
    <3>1. CASE UNCHANGED <<completion, erased>>
      BY <1>1, <2>2, <3>1 DEF Untouched
    <3>2. ASSUME NEW r \in Runner, Publish(r), completion[job[r].stage] = None
          PROVE  art'[completion'[s].attempt] = completion'[s].inventory
      <4>1. art[mine[r]] = inv[r]
        BY <3>2 DEF Publish, Counted, Untouched
      <4> QED BY <1>1, <2>2, <3>2, <4>1 DEF Publish, TypeOK, Untouched
    <3>3. ASSUME NEW t \in Stage, Erase(t)
          PROVE  art'[completion'[s].attempt] = completion'[s].inventory
      BY <3>3 DEF Erase
    <3> QED BY <3>1, <3>2, <3>3, CompletionChanges
  <2> QED BY <2>1, <2>2
<1>2. ASSUME NEW r \in Runner,
             \/ \E c \in Content : Produce(r, c)
             \/ \E c \in Content \cup {Empty} : ProducerFails(r, c)
      PROVE  /\ \A s \in Stage : completion'[s] # None =>
                  art'[completion'[s].attempt] = completion'[s].inventory
             /\ \A p \in Runner : pc'[p] \in Counted => art'[mine'[p]] = inv'[p]
  <2>1. /\ pc[r] = "produce" /\ pc'[r] \in {"inventory", "preserve"}
        /\ \A p \in Runner \ {r} : pc'[p] = pc[p]
        /\ UNCHANGED <<completion, mine, inv>>
        /\ \E x : art' = [art EXCEPT ![mine[r]] = x]
    BY <1>2 DEF Produce, ProducerFails, Goto, notes, TypeOK
  <2>2. \A s \in Stage : completion[s] # None => completion[s].attempt # mine[r]
    BY <2>1 DEF GInv, Pending, Fresh, Unpublished
  <2>3. mine[r] \in Attempt
    BY <2>1, RunnerTypes DEF Owns, Started
  <2>4. \A s \in Stage : completion[s] # None => completion[s].attempt \in Attempt
    BY DEF TypeOK, Manifest
  <2>5. ASSUME NEW p \in Runner, pc'[p] \in Counted
        PROVE  art'[mine'[p]] = inv'[p]
    <3>1. p # r /\ pc[p] \in Counted
      BY <2>1, <2>5 DEF Counted
    <3>2. art'[mine[p]] = art[mine[p]]
      <4>1. PICK x : art' = [art EXCEPT ![mine[r]] = x]
        BY <2>1
      <4> QED BY <2>1, <3>1, <4>1, OthersKeep DEF Counted, Started
    <3> QED BY <2>1, <3>1, <3>2 DEF Untouched
  <2> QED BY <2>1, <2>2, <2>3, <2>4, <2>5 DEF Untouched, TypeOK
<1> QED BY <1>1, <1>2, ArtifactsChange

\* The attempt a completion names is under completed-attempts, its attempt.json
\* states the request and the dependencies of the manifest, and as long as nothing
\* outside interferes its artifacts are the inventoried ones.
THEOREM StorePublishedIsPreserved == Spec => []PublishedIsPreserved
<1>1. Init => Untouched
  BY DEF Init, Untouched, Counted
<1>2. ASSUME IInv, GInv, Untouched, [Next]_vars
      PROVE  Untouched'
  <2>1. CASE UNCHANGED vars
    BY <1>2, <2>1 DEF Untouched, vars, disk, memory, notes
  <2> QED BY <1>2, <2>1, UntouchedStep
<1>3. IInv /\ Untouched => PublishedIsPreserved
  BY DEF IInv, PublishedInPlace, Untouched, PublishedIsPreserved
<1> QED BY <1>1, <1>2, <1>3, StoreInvariant, GenuineInvariant, PTL DEF Spec

\* Authentication finds what the producers left, or what took its place before
\* the inventory.
LEMMA AuthenticIsGenuine ==
  ASSUME IInv, GInv, NEW s \in Stage, Authentic(s), NEW t \in Ancestors[s]
  PROVE  /\ completion[t] # None
         /\ completion[t].attempt \notin early =>
              art[completion[t].attempt] = made[completion[t].attempt]
         /\ \A d \in Dependencies[t] :
              completion[d] # None /\ rec[completion[t].attempt].deps[d] = completion[d].attempt
<1>1. t \in Stage /\ Consistent(t)
  BY DEF Authentic, Ancestors
<1>2. /\ completion[t] # None
      /\ completion[t].attempt \notin early =>
           completion[t].inventory = made[completion[t].attempt]
  BY <1>1 DEF Consistent, GInv, InventoriesMade
<1>3. rec[completion[t].attempt].deps = completion[t].deps
  <2>1. rec[completion[t].attempt] = [stage |-> t, request |-> completion[t].request,
                                      deps |-> completion[t].deps]
    BY <1>1, <1>2 DEF IInv, PublishedInPlace
  <2> QED BY <2>1
<1> QED BY <1>1, <1>2, <1>3 DEF Consistent

\* A call returns a result only where Reuse or Confirm has authenticated it.
LEMMA ResultsChange ==
  ASSUME IInv, Next, NEW p \in Runner,
         result'[p] # result[p], result'[p] \in {"ran", "skipped"}
  PROVE  /\ Authentic(job'[p].stage) /\ job'[p].stage \in Stage
         /\ UNCHANGED <<completion, rec, art, made>>
<1> USE DEF IInv, TypeOK, disk, memory, notes, scan, history, NoFault
<1>1. ASSUME NEW r \in Runner, NEW s \in Stage, NEW q \in Request, Reuse(r, s, q)
      PROVE  /\ Authentic(job'[p].stage) /\ job'[p].stage \in Stage
             /\ UNCHANGED <<completion, rec, art, made>>
  BY <1>1 DEF Reuse
<1>2. ASSUME NEW r \in Runner, Confirm(r)
      PROVE  /\ Authentic(job'[p].stage) /\ job'[p].stage \in Stage
             /\ UNCHANGED <<completion, rec, art, made>>
  BY <1>2, JobStages DEF Confirm, Leave
<1>3. ASSUME NEW r \in Runner, NEW s \in Stage,
             RefuseDependency(r, s) \/ \E q \in Request : Enter(r, s, q)
      PROVE  FALSE
  BY <1>3 DEF RefuseDependency, Enter
<1>4. ASSUME NEW r \in Runner, Work(r), ~Confirm(r)
      PROVE  FALSE
  <2>1. CASE Record(r) \/ \E a \in Attempt : Inspect(r, a)
    BY <2>1 DEF Record, Dealt, Inspect, Leave
  <2>2. CASE \/ List(r) \/ ListCompleted(r) \/ Recovered(r) \/ WriteAttempt(r)
             \/ \E a \in Attempt : MakeDirectory(r, a)
    BY <2>2 DEF List, ListCompleted, Recovered, WriteAttempt, MakeDirectory
  <2>3. CASE \/ (\E c \in Content : Produce(r, c)) \/ Inventory(r) \/ FindVacant(r)
             \/ Promote(r) \/ NoteMove(r) \/ Publish(r)
    BY <2>3 DEF Produce, Inventory, FindVacant, Promote, NoteMove, Publish
  <2>4. CASE Tidy(r) \/ Preserve(r)
    BY <2>4 DEF Tidy, Preserve, Leave
  <2> QED BY <1>4, <2>1, <2>2, <2>3, <2>4 DEF Work
<1>5. ASSUME NEW r \in Runner, Trouble(r)
      PROVE  FALSE
  BY <1>5 DEF Trouble, HandlerFails, CallFails, ProducerFails, Crash, Leave
<1>6. ~Outside
  BY DEF Outside, Damage, Erase
<1> QED BY <1>1, <1>2, <1>3, <1>4, <1>5, <1>6 DEF Next, Call

\* Whatever is damaged or removed meanwhile, a result that is returned rests on
\* the bytes the producers left, along the whole chain of stages upstream, except
\* in an attempt whose bytes were changed before run_stage took their inventory.
THEOREM StoreResultsAreGenuine == Spec => ResultsAreGenuine
<1> DEFINE Genuine(p) ==
      \A t \in Ancestors[job'[p].stage] :
        /\ completion[t] # None
        /\ LET a == completion[t].attempt IN
           /\ a \notin early => art[a] = made[a]
           /\ \A d \in Dependencies[t] :
                completion[d] # None /\ rec[a].deps[d] = completion[d].attempt
<1>1. ASSUME IInv, GInv, Next, NEW p \in Runner,
             result'[p] # result[p], result'[p] \in {"ran", "skipped"}
      PROVE  Genuine(p)
  <2>1. PICK s \in Stage : s = job'[p].stage /\ Authentic(s)
    BY <1>1, ResultsChange
  <2>2. \A t \in Ancestors[s] :
          /\ completion[t] # None
          /\ completion[t].attempt \notin early =>
               art[completion[t].attempt] = made[completion[t].attempt]
          /\ \A d \in Dependencies[t] :
               completion[d] # None /\ rec[completion[t].attempt].deps[d] = completion[d].attempt
    BY <1>1, <2>1, AuthenticIsGenuine
  <2> QED BY <2>1, <2>2
<1>2. IInv /\ GInv /\ [Next]_vars =>
        [\A p \in Runner :
           (result'[p] # result[p] /\ result'[p] \in {"ran", "skipped"}) => Genuine(p)]_vars
  BY <1>1
<1> QED BY <1>2, StoreInvariant, GenuineInvariant, PTL DEF Spec, ResultsAreGenuine

-----------------------------------------------------------------------------
(***************************************************************************)
(* preserved_path.  A runner's note of where its attempt is agrees with    *)
(* the disk but between the rename and the assignment; an attempt whose    *)
(* handler was entered there is given up for good, so never published.     *)
(***************************************************************************)
NotMoved == {"attempt", "produce", "inventory", "vacant", "promote"}

Noted(p) ==
  /\ pc[p] \notin Started \/ pc[p] \in NotMoved \cup {"moved"} => kept[p] = "in-progress"
  /\ pc[p] \in NotMoved => loc[mine[p]] = "in-progress"
  /\ pc[p] \in {"publish", "tidy", "confirm"} =>
       kept[p] = "completed-attempts" /\ loc[mine[p]] = "completed-attempts"
  /\ pc[p] = "preserve" => kept[p] = loc[mine[p]] \/ mine[p] \in unnoted

GivenUp ==
  \A a \in unnoted :
    loc[a] # "absent" /\ Unpublished(a) /\ \A p \in Runner : pc[p] \in Fresh => mine[p] # a

NInv == GivenUp /\ \A p \in Runner : Noted(p)

\* Nothing is in progress, nothing is given up.
LEMMA NotedInit == Init => NInv
BY DEF Init, NInv, Noted, GivenUp, Started, NotMoved

\* Others' attempts stay where they are while one is created or moved.
LEMMA OthersStay ==
  ASSUME IInv, Next, NEW r \in Runner, pc[r] \in Started
  PROVE  \/ loc'[mine[r]] = loc[mine[r]]
         \/ Promote(r)
<1> USE StoreAssumption DEF IInv
<1>1. mine[r] \in Attempt /\ mine[r] # None /\ loc[mine[r]] # "absent"
  BY RunnerTypes DEF Owns
<1>2. ASSUME NEW p \in Runner, NEW a \in Attempt, MakeDirectory(p, a)
      PROVE  loc'[mine[r]] = loc[mine[r]]
  BY <1>1, <1>2 DEF MakeDirectory, TypeOK
<1>3. ASSUME NEW p \in Runner, Promote(p), p # r
      PROVE  loc'[mine[r]] = loc[mine[r]]
  BY <1>1, <1>3 DEF Promote, OwnersDistinct, TypeOK
<1>4. ASSUME NEW p \in Runner, Call(p) \/ Trouble(p)
      PROVE  loc' = loc
  BY <1>4 DEF Call, Trouble, Reuse, Enter, RefuseDependency, HandlerFails, CallFails,
     ProducerFails, Crash, disk
<1>5. ASSUME NEW p \in Runner, Work(p), ~Promote(p),
             ~ \E a \in Attempt : MakeDirectory(p, a)
      PROVE  loc' = loc
  BY <1>5 DEF Work, List, ListCompleted, Inspect, Record, Recovered, WriteAttempt, Produce,
     Inventory, FindVacant, NoteMove, Publish, Tidy, Confirm, Preserve, disk
<1>6. Outside => loc' = loc
  BY DEF Outside, Damage, Erase
<1> QED BY <1>2, <1>3, <1>4, <1>5, <1>6 DEF Next, Work

\* What a runner has noted changes in its own steps only.
LEMMA NotedStep ==
  ASSUME IInv, NInv, Next, NEW r \in Runner
  PROVE  Noted(r)'
<1> USE DEF IInv, disk, memory, notes, scan, NotMoved, Started
<1>0. /\ Noted(r) /\ unnoted \subseteq unnoted'
      /\ pc[r] \in Started => loc'[mine[r]] = loc[mine[r]] \/ Promote(r)
  BY HistoryGrows, OthersStay DEF NInv
<1>1. ASSUME UNCHANGED <<pc, mine, kept, loc>>
      PROVE  Noted(r)'
  BY <1>0, <1>1 DEF Noted
<1>2. ASSUME NEW how, Leave(r, how)
      PROVE  Noted(r)'
  <2>1. pc'[r] = "idle" /\ kept'[r] = "in-progress"
    BY <1>2 DEF Leave, TypeOK
  <2> QED BY <2>1 DEF Noted
<1>3. ASSUME NEW p \in Runner, p # r, Call(p) \/ Work(p) \/ Trouble(p)
      PROVE  Noted(r)'
  <2>1. pc'[r] = pc[r] /\ mine'[r] = mine[r] /\ kept'[r] = kept[r]
    <3>1. CASE Call(p) \/ Trouble(p)
      BY <1>3, <3>1 DEF Call, Trouble, Reuse, Enter, RefuseDependency, HandlerFails, CallFails,
         ProducerFails, Crash, Leave, Goto, TypeOK
    <3>2. CASE Work(p)
      <4>1. CASE \/ List(p) \/ ListCompleted(p) \/ Recovered(p) \/ Record(p)
                 \/ \E a \in Attempt : Inspect(p, a)
        BY <1>3, <4>1 DEF List, ListCompleted, Recovered, Record, Dealt, Inspect, Leave, Goto,
           TypeOK
      <4>2. CASE \/ WriteAttempt(p) \/ (\E a \in Attempt : MakeDirectory(p, a))
                 \/ Inventory(p) \/ FindVacant(p) \/ \E c \in Content : Produce(p, c)
        BY <1>3, <4>2 DEF WriteAttempt, MakeDirectory, Inventory, FindVacant, Produce, Goto, TypeOK
      <4>3. CASE Promote(p) \/ NoteMove(p) \/ Publish(p) \/ Tidy(p) \/ Confirm(p) \/ Preserve(p)
        BY <1>3, <4>3 DEF Promote, NoteMove, Publish, Tidy, Confirm, Preserve, Leave, Goto, TypeOK
      <4> QED BY <3>2, <4>1, <4>2, <4>3 DEF Work
    <3> QED BY <1>3, <3>1, <3>2
  <2>2. pc[r] \in Started => loc'[mine[r]] = loc[mine[r]]
    <3>1. CASE Promote(r)
      BY <1>3, <2>1, <3>1 DEF Promote, Goto, TypeOK
    <3> QED BY <1>0, <3>1
  <2> QED BY <1>0, <2>1, <2>2 DEF Noted
<1>4. CASE Call(r)
  <2>1. pc[r] = "idle" /\ pc'[r] \in {"idle", "list"} /\ UNCHANGED <<mine, kept>>
    BY <1>4 DEF Call, Reuse, Enter, RefuseDependency, Goto, TypeOK
  <2> QED BY <1>0, <2>1 DEF Noted
<1>5. CASE \/ List(r) \/ ListCompleted(r) \/ Recovered(r) \/ Record(r)
           \/ \E a \in Attempt : Inspect(r, a)
  <2>1. CASE \E how : Leave(r, how)
    BY <1>2, <2>1
  <2>2. CASE ~ \E how : Leave(r, how)
    <3>1. pc[r] \notin Started /\ pc'[r] \notin Started /\ kept' = kept
      BY <1>5, <2>2 DEF List, ListCompleted, Recovered, Record, Dealt, Inspect, Goto, TypeOK
    <3> QED BY <1>0, <3>1 DEF Noted
  <2> QED BY <2>1, <2>2
<1>6. ASSUME NEW a \in Attempt, MakeDirectory(r, a)
      PROVE  Noted(r)'
  <2>1. /\ pc[r] = "mkdir" /\ pc'[r] = "attempt" /\ mine'[r] = a /\ kept' = kept
        /\ loc'[a] = "in-progress"
    BY <1>6 DEF MakeDirectory, Goto, TypeOK
  <2> QED BY <1>0, <2>1 DEF Noted
<1>7. CASE \/ WriteAttempt(r) \/ (\E c \in Content : Produce(r, c)) \/ Inventory(r)
           \/ FindVacant(r)
  <2>1. /\ pc[r] \in NotMoved /\ pc'[r] \in NotMoved \cup {"preserve"}
        /\ UNCHANGED <<mine, kept>> /\ loc'[mine[r]] = loc[mine[r]]
    BY <1>7 DEF WriteAttempt, Produce, Inventory, FindVacant, Goto, TypeOK
  <2> QED BY <1>0, <2>1 DEF Noted
<1>8. CASE Promote(r)
  <2>1. pc[r] = "promote" /\ pc'[r] = "moved" /\ UNCHANGED <<mine, kept>>
    BY <1>8 DEF Promote, Goto, TypeOK
  <2> QED BY <1>0, <2>1 DEF Noted
<1>9. CASE NoteMove(r)
  <2>1. /\ pc[r] = "moved" /\ pc'[r] = "publish" /\ UNCHANGED <<mine, loc>>
        /\ kept'[r] = "completed-attempts"
    BY <1>9 DEF NoteMove, Goto, TypeOK
  <2>2. loc[mine[r]] = "completed-attempts"
    BY <2>1 DEF Owns
  <2> QED BY <2>1, <2>2 DEF Noted
<1>10. CASE Publish(r) \/ Tidy(r)
  <2>1. /\ pc[r] \in {"publish", "tidy"} /\ pc'[r] \in {"tidy", "confirm", "preserve"}
        /\ UNCHANGED <<mine, kept, loc>>
    BY <1>10 DEF Publish, Tidy, Goto, TypeOK
  <2> QED BY <1>0, <2>1 DEF Noted
<1>11. CASE Confirm(r) \/ Preserve(r) \/ CallFails(r) \/ Crash(r)
  BY <1>2, <1>11 DEF Confirm, Preserve, CallFails, Crash
<1>12. CASE HandlerFails(r) \/ \E c \in Content \cup {Empty} : ProducerFails(r, c)
  <2>1. /\ pc[r] \in Started \ {"preserve", "confirm", "attempt"} /\ pc'[r] = "preserve"
        /\ pc[r] = "moved" => mine[r] \in unnoted'
        /\ UNCHANGED <<mine, kept, loc>>
    BY <1>12 DEF HandlerFails, ProducerFails, Goto, TypeOK
  <2> QED BY <1>0, <2>1 DEF Noted
<1>13. CASE Outside
  BY <1>1, <1>13 DEF Outside, Damage, Erase
<1> HIDE DEF IInv, disk, memory, notes, scan, NotMoved, Started
<1>14. CASE Work(r)
  BY <1>5, <1>6, <1>7, <1>8, <1>9, <1>10, <1>11, <1>14 DEF Work
<1>15. CASE Trouble(r)
  BY <1>11, <1>12, <1>15 DEF Trouble
<1> QED BY <1>3, <1>4, <1>13, <1>14, <1>15 DEF Next

\* An attempt that was given up is neither published nor worked on again.
LEMMA GivenUpStep ==
  ASSUME IInv, GInv, NInv, Next
  PROVE  GivenUp'
<1> USE StoreAssumption DEF IInv
<1> SUFFICES ASSUME NEW a \in unnoted'
             PROVE  /\ loc'[a] # "absent" /\ Unpublished(a)'
                    /\ \A p \in Runner : pc'[p] \in Fresh => mine'[p] # a
  BY DEF GivenUp
<1>1. CASE a \in unnoted
  <2>1. a \in Attempt /\ loc[a] # "absent" /\ Unpublished(a)
    BY <1>1 DEF NInv, GivenUp, TypeOK
  <2>2. \A p \in Runner : pc[p] \in Fresh => mine[p] # a
    BY <1>1 DEF NInv, GivenUp
  <2>3. ASSUME NEW p \in Runner, pc'[p] \in Fresh PROVE mine'[p] # a
    BY <2>1, <2>2, <2>3, FreshMoves DEF MakeDirectory, TypeOK
  <2>4. Unpublished(a)'
    <3>1. CASE UNCHANGED <<completion, erased>>
      BY <2>1, <3>1 DEF Unpublished
    <3>2. ASSUME NEW p \in Runner, Publish(p)
          PROVE  Unpublished(a)'
      <4>1. mine[p] # a
        BY <2>2, <3>2 DEF Publish, Fresh
      <4> QED BY <2>1, <3>2, <4>1 DEF Publish, Unpublished, TypeOK
    <3>3. ASSUME NEW s \in Stage, Erase(s)
          PROVE  Unpublished(a)'
      BY <2>1, <3>3 DEF Erase, Unpublished, TypeOK
    <3> QED BY <3>1, <3>2, <3>3, CompletionChanges
  <2> QED BY <2>1, <2>3, <2>4, EvidenceStep
<1>2. CASE a \notin unnoted
  <2>1. PICK r \in Runner : HandlerFails(r) /\ pc[r] = "moved" /\ a = mine[r]
    BY <1>2, HistoryGrows
  <2>2. a \in Attempt /\ a # None /\ loc[a] # "absent" /\ Unpublished(a)
    BY <2>1, RunnerTypes DEF Owns, Started, GInv, Pending, Fresh
  <2>3. /\ UNCHANGED <<completion, loc, mine>> /\ pc'[r] = "preserve"
        /\ \A p \in Runner \ {r} : pc'[p] = pc[p]
    BY <2>1 DEF HandlerFails, Goto, disk, TypeOK
  <2>4. \A p \in Runner : mine[p] = a => p = r
    BY <2>1, <2>2 DEF OwnersDistinct
  <2> QED BY <2>2, <2>3, <2>4 DEF Unpublished, Fresh
<1> QED BY <1>1, <1>2

\* Both parts hold at the start and are kept by every step.
LEMMA NotedInvariant == Spec => []NInv
<1>1. ASSUME IInv, GInv, NInv, [Next]_vars
      PROVE  NInv'
  <2>1. CASE Next
    BY <1>1, <2>1, NotedStep, GivenUpStep DEF NInv
  <2>2. CASE UNCHANGED vars
    BY <1>1, <2>2
    DEF NInv, Noted, GivenUp, Unpublished, vars, disk, memory, notes, scan, history
  <2> QED BY <1>1, <2>1, <2>2
<1> QED BY <1>1, NotedInit, StoreInvariant, GenuineInvariant, PTL DEF Spec

-----------------------------------------------------------------------------
(***************************************************************************)
(* With one runner, every attempt but the published one has its record     *)
(* before the next one begins.  Nothing then comes between the call and    *)
(* the publication: the stage stays without a completion (Vacant), its own *)
(* attempt without a record (Untried), and what the runner has not listed  *)
(* or not yet looked at is all that may lack one (Listed).                 *)
(***************************************************************************)
Sole == \E p \in Runner : Runner = {p}

Scanning == {"inspect", "record"}

Vacant(p) ==
  pc[p] \in {"list", "mkdir"} \cup Scanning \cup Fresh => completion[job[p].stage] = None

Untried(p) ==
  /\ pc[p] \notin Started => mine[p] = None
  /\ pc[p] \in Started => failure[mine[p]] = None

Listed(p) ==
  /\ pc[p] \in {"idle", "list"} => area[p] = "in-progress"
  /\ pc[p] \in Scanning =>
       /\ seen[p] = None
       /\ \A a \in todo[p] : home[a] = job[p].stage /\ loc[a] = area[p]
       /\ \A a \in Attempt : (home[a] = job[p].stage /\ failure[a] = None) =>
            a \in todo[p] \/ (area[p] = "in-progress" /\ loc[a] = "completed-attempts")
  /\ pc[p] = "record" => cur[p] \in todo[p]

Blank == \A a \in Attempt : loc[a] = "absent" => failure[a] = None

PathsKnown ==
  \A a \in Attempt : failure[a] # None => failure[a].path = loc[a] \/ a \in unnoted

Explicit == InterruptedMeansUnpublished /\ PathsKnown /\ EarlierAttemptsRecorded

LoneInv ==
  Blank /\ Explicit /\ \A p \in Runner : Vacant(p) /\ Untried(p) /\ Listed(p)

\* Nothing has begun.
LEMMA LoneInit == Init => LoneInv
BY DEF Init, LoneInv, Blank, Explicit, InterruptedMeansUnpublished,
   PathsKnown, EarlierAttemptsRecorded, Vacant, Untried, Listed, Scanning, Fresh,
   Started

\* A call that ends leaves the store to the next one.
LEMMA LoneLeaves ==
  ASSUME TypeOK, LoneInv, NEW p \in Runner, Runner = {p}, NEW how, Leave(p, how),
         UNCHANGED <<completion, home, loc, failure, unnoted>>
  PROVE  LoneInv'
<1>1. pc'[p] = "idle" /\ mine'[p] = None /\ area'[p] = "in-progress"
  BY DEF Leave, TypeOK
<1>2. Vacant(p)' /\ Untried(p)' /\ Listed(p)'
  BY <1>1 DEF Vacant, Untried, Listed, Scanning, Fresh, Started
<1>3. Blank' /\ Explicit'
  BY <1>1 DEF LoneInv, Blank, Explicit, InterruptedMeansUnpublished, Unpublished,
     PathsKnown, EarlierAttemptsRecorded
<1> QED BY <1>2, <1>3 DEF LoneInv

\* The head of run_stage.
LEMMA LoneCall ==
  ASSUME IInv, LoneInv, NEW p \in Runner, Runner = {p}, Call(p)
  PROVE  LoneInv'
<1> USE DEF IInv, TypeOK, LoneInv, Blank, Explicit, InterruptedMeansUnpublished,
            Unpublished, PathsKnown, EarlierAttemptsRecorded, disk, scan, notes, memory,
            NoFault, history
<1>1. ASSUME NEW s \in Stage, NEW q \in Request, Enter(p, s, q)
      PROVE  LoneInv'
  <2>1. /\ job'[p].stage = s /\ completion'[s] = None /\ pc'[p] = "list"
        /\ UNCHANGED <<mine, area, unnoted>>
    BY <1>1 DEF Enter, Goto
  <2>2. Vacant(p)' /\ Untried(p)' /\ Listed(p)'
    BY <1>1, <2>1 DEF Enter, Vacant, Untried, Listed, Scanning, Fresh, Started
  <2> QED BY <1>1, <2>1, <2>2 DEF Enter
<1>2. ASSUME NEW s \in Stage, RefuseDependency(p, s) \/ \E q \in Request : Reuse(p, s, q)
      PROVE  LoneInv'
  <2>1. pc[p] = "idle" /\ UNCHANGED <<disk, pc, mine, scan, unnoted>>
    BY <1>2 DEF RefuseDependency, Reuse
  <2> QED BY <2>1 DEF Vacant, Untried, Listed, Scanning, Fresh, Started
<1> QED BY <1>1, <1>2 DEF Call

\* record_interrupted_attempts goes through what no other runner touches.
LEMMA LoneScan ==
  ASSUME IInv, LoneInv, NEW p \in Runner, Runner = {p},
         \/ List(p) \/ ListCompleted(p) \/ Record(p) \/ Recovered(p)
         \/ \E a \in Attempt : Inspect(p, a)
  PROVE  LoneInv'
<1> USE DEF IInv, TypeOK, LoneInv, Blank, disk, scan, notes, memory
<1>0. unnoted' = unnoted
  BY DEF List, ListCompleted, Record, Recovered, Inspect, NoFault, history
<1>1. ASSUME UNCHANGED <<completion, home, loc, failure>>, pc'[p] \in Scanning
      PROVE  Blank' /\ Explicit'
  BY <1>0, <1>1 DEF Explicit, InterruptedMeansUnpublished, Unpublished,
     PathsKnown, EarlierAttemptsRecorded, Scanning
<1>2. CASE List(p)
  <2>1. /\ pc'[p] = "inspect" /\ seen'[p] = None /\ area'[p] = "in-progress"
        /\ todo'[p] = {a \in Attempt : home[a] = job[p].stage /\ loc[a] = "in-progress"}
        /\ UNCHANGED <<disk, job, mine>>
    BY <1>2 DEF List, Goto, Vacant, Listed
  <2>2. \A a \in Attempt : home[a] = job[p].stage => loc[a] \in Place
    BY StoreAssumption, <1>2, RunnerTypes, JobShape
    DEF UnusedIsBlank, NoneAssumption, List, Owns, Place
  <2>3. Vacant(p)' /\ Untried(p)' /\ Listed(p)'
    BY <1>2, <2>1, <2>2 DEF List, Vacant, Untried, Listed, Scanning, Fresh, Started, Place
  <2> QED BY <1>1, <2>1, <2>3 DEF Scanning
<1>3. CASE ListCompleted(p)
  <2>1. /\ pc'[p] = "inspect" /\ seen'[p] = None /\ area'[p] = "completed-attempts"
        /\ todo'[p] = {a \in Attempt : /\ home[a] = job[p].stage /\ loc[a] = "completed-attempts"
                                       /\ a # None}
        /\ UNCHANGED <<disk, job, mine>>
    BY <1>3 DEF ListCompleted, Listed, Scanning
  <2>2. None \notin Attempt
    BY StoreAssumption DEF NoneAssumption
  <2>3. Vacant(p)' /\ Untried(p)' /\ Listed(p)'
    BY <1>3, <2>1, <2>2 DEF ListCompleted, Vacant, Untried, Listed, Scanning, Fresh, Started
  <2> QED BY <1>1, <2>1, <2>3 DEF Scanning
<1>4. ASSUME NEW a \in Attempt, Inspect(p, a)
      PROVE  LoneInv'
  <2>1. CASE \E how : Leave(p, how)
    BY <1>0, <1>4, <2>1, LoneLeaves DEF Inspect
  <2>2. CASE ~ \E how : Leave(p, how)
    <3>1. /\ pc'[p] \in Scanning /\ UNCHANGED <<disk, job, mine, seen, area>>
          /\ \/ todo'[p] = todo[p] \ {a} /\ failure[a] # None /\ pc'[p] = "inspect"
             \/ todo'[p] = todo[p] /\ cur'[p] = a /\ a \in todo[p]
      BY <1>4, <2>2 DEF Inspect, Goto, Scanning
    <3>2. Vacant(p)' /\ Untried(p)' /\ Listed(p)'
      BY <1>4, <3>1 DEF Inspect, Vacant, Untried, Listed, Scanning, Fresh, Started
    <3> QED BY <1>1, <3>1, <3>2
  <2> QED BY <2>1, <2>2
<1>5. CASE Record(p)
  <2> DEFINE a == cur[p]
  <2>1. a \in Attempt /\ a \in todo[p] /\ loc[a] = area[p] /\ home[a] = job[p].stage
    BY <1>5 DEF Record, Listed, Scanning
  <2>2. job[p].stage \in Stage /\ completion[job[p].stage] = None
    BY <1>5, RunnerTypes, JobShape DEF Record, Vacant, Scanning, Owns
  <2>3. Unpublished(a)
    BY <2>1, <2>2 DEF Unpublished, PublishedInPlace
  <2>4. CASE \E how : Leave(p, how)
    BY <1>0, <1>5, <2>4, LoneLeaves DEF Record, Dealt, Leave, Goto
  <2>5. CASE Dealt(p)
    <3>1. /\ failure'[a] # None /\ \A b \in Attempt \ {a} : failure'[b] = failure[b]
          /\ failure'[a] = failure[a] \/ failure'[a] = [kind |-> "interrupted", path |-> area[p]]
          /\ UNCHANGED <<completion, home, loc, job>>
      BY <1>5, <2>1, StoreAssumption DEF Record, WriteFailure, NoneAssumption, FailureRecord
    <3>2. /\ pc'[p] = "inspect" /\ todo'[p] = todo[p] \ {a} /\ UNCHANGED <<mine, seen, area>>
      BY <2>5 DEF Dealt, Goto
    <3>3. Vacant(p)' /\ Untried(p)' /\ Listed(p)'
      BY <1>5, <3>1, <3>2 DEF Record, Vacant, Untried, Listed, Scanning, Fresh, Started
    <3>4. Blank'
      BY <2>1, <3>1 DEF Place
    <3>5. Explicit'
      BY <1>0, <2>1, <2>3, <3>1, <3>2
      DEF Explicit, InterruptedMeansUnpublished, Unpublished, PathsKnown,
          EarlierAttemptsRecorded
    <3> QED BY <3>3, <3>4, <3>5
  <2> QED BY <1>5, <2>4, <2>5 DEF Record
<1>6. CASE Recovered(p)
  <2>1. pc'[p] = "mkdir" /\ UNCHANGED <<disk, job, mine, scan>>
    BY <1>6 DEF Recovered, Goto
  <2>2. Vacant(p)' /\ Untried(p)' /\ Listed(p)'
    BY <1>6, <2>1 DEF Recovered, Vacant, Untried, Listed, Scanning, Fresh, Started
  <2>3. EarlierAttemptsRecorded'
    BY <1>6, <2>1 DEF Recovered, Listed, Scanning, EarlierAttemptsRecorded
  <2> QED
    BY <1>0, <2>1, <2>2, <2>3
    DEF Explicit, InterruptedMeansUnpublished, Unpublished, PathsKnown
<1> QED BY <1>2, <1>3, <1>4, <1>5, <1>6

\* The attempt of a lone runner.
LEMMA LoneAttempt ==
  ASSUME IInv, NInv, LoneInv, NEW p \in Runner, Runner = {p},
         \/ \E a \in Attempt : MakeDirectory(p, a)
         \/ WriteAttempt(p)
         \/ \E c \in Content : Produce(p, c)
         \/ Inventory(p) \/ FindVacant(p) \/ Promote(p) \/ NoteMove(p)
         \/ Publish(p) \/ Tidy(p) \/ Confirm(p) \/ Preserve(p)
  PROVE  LoneInv'
<1> USE DEF IInv, TypeOK, LoneInv, Blank, disk, scan, notes, memory
<1>0. unnoted' = unnoted
  BY DEF MakeDirectory, WriteAttempt, Produce, Inventory, FindVacant, Promote, NoteMove,
     Publish, Tidy, Confirm, Preserve, NoFault, history
<1>1. pc[p] \in Started => mine[p] \in Attempt
  BY DEF Owns, Started
<1>2. ASSUME NEW a \in Attempt, MakeDirectory(p, a)
      PROVE  LoneInv'
  <2>1. /\ pc'[p] = "attempt" /\ mine'[p] = a /\ loc[a] = "absent" /\ loc'[a] = "in-progress"
        /\ \A b \in Attempt \ {a} : home'[b] = home[b] /\ loc'[b] = loc[b]
        /\ UNCHANGED <<completion, failure, job>>
    BY <1>2 DEF MakeDirectory, Goto
  <2>2. Vacant(p)' /\ Untried(p)' /\ Listed(p)'
    BY <1>2, <2>1 DEF MakeDirectory, Vacant, Untried, Listed, Scanning, Fresh, Started
  <2>3. Blank'
    BY <2>1
  <2>4. InterruptedMeansUnpublished' /\ PathsKnown'
    BY <1>0, <2>1
    DEF Explicit, InterruptedMeansUnpublished, Unpublished, PathsKnown
  <2>5. EarlierAttemptsRecorded'
    <3>1. \A b \in Attempt : home[b] = job[p].stage => failure[b] # None
      BY <1>2, StoreAssumption DEF MakeDirectory, Explicit, EarlierAttemptsRecorded,
                  Untried, Started, NoneAssumption
    <3>2. QED
      BY <2>1, <3>1 DEF EarlierAttemptsRecorded
  <2> QED BY <2>2, <2>3, <2>4, <2>5 DEF Explicit
<1>3. ASSUME \/ WriteAttempt(p) \/ (\E c \in Content : Produce(p, c)) \/ Inventory(p)
             \/ FindVacant(p) \/ NoteMove(p)
      PROVE  LoneInv'
  <2>1. /\ pc[p] \in Fresh /\ pc'[p] \in Fresh \cup {"preserve"}
        /\ UNCHANGED <<completion, home, loc, failure, job, mine, scan>>
    BY <1>3 DEF WriteAttempt, Produce, Inventory, FindVacant, NoteMove, Goto, Fresh
  <2> QED
    BY <1>0, <2>1
    DEF Vacant, Untried, Listed, Scanning, Fresh, Started, Explicit,
        InterruptedMeansUnpublished, Unpublished, PathsKnown, EarlierAttemptsRecorded
<1>4. CASE Promote(p)
  <2>1. /\ pc[p] = "promote" /\ pc'[p] = "moved"
        /\ \A b \in Attempt \ {mine[p]} : loc'[b] = loc[b]
        /\ loc[mine[p]] # "absent"
        /\ UNCHANGED <<completion, home, failure, job, mine, scan>>
    BY <1>4 DEF Promote, Goto, Owns, Started
  <2>2. Vacant(p)' /\ Untried(p)' /\ Listed(p)'
    BY <2>1 DEF Vacant, Untried, Listed, Scanning, Fresh, Started
  <2>3. failure[mine[p]] = None
    BY <2>1 DEF Untried, Started
  <2>4. Explicit' /\ Blank'
    BY <1>0, <2>1, <2>3
    DEF Explicit, InterruptedMeansUnpublished, Unpublished, PathsKnown,
        EarlierAttemptsRecorded
  <2> QED BY <2>2, <2>4
<1>5. CASE Publish(p)
  <2>1. /\ pc[p] = "publish" /\ pc'[p] \in {"preserve", "tidy"}
        /\ UNCHANGED <<home, loc, failure, job, mine, scan>>
    BY <1>5 DEF Publish, Goto
  <2>2. \A s \in Stage : completion'[s] = completion[s] \/ completion'[s].attempt = mine[p]
    BY <1>5 DEF Publish
  <2>3. failure[mine[p]] = None
    BY <2>1 DEF Untried, Started
  <2>4. Vacant(p)' /\ Untried(p)' /\ Listed(p)'
    BY <2>1 DEF Vacant, Untried, Listed, Scanning, Fresh, Started
  <2>5. InterruptedMeansUnpublished'
    BY <2>1, <2>2, <2>3 DEF Explicit, InterruptedMeansUnpublished, Unpublished
  <2> QED
    BY <1>0, <2>1, <2>4, <2>5 DEF Explicit, PathsKnown, EarlierAttemptsRecorded
<1>6. CASE Tidy(p)
  <2>1. /\ pc[p] = "tidy" /\ pc'[p] = "confirm" /\ UNCHANGED <<disk, job, mine, scan>>
    BY <1>6 DEF Tidy, Goto
  <2> QED
    BY <1>0, <2>1
    DEF Vacant, Untried, Listed, Scanning, Fresh, Started, Explicit,
        InterruptedMeansUnpublished, Unpublished, PathsKnown, EarlierAttemptsRecorded
<1>7. CASE Confirm(p)
  BY <1>0, <1>7, LoneLeaves DEF Confirm
<1>8. CASE Preserve(p)
  <2>1. /\ pc'[p] = "idle" /\ mine'[p] = None /\ area'[p] = "in-progress"
        /\ UNCHANGED <<completion, home, loc>>
    BY <1>8 DEF Preserve, Leave
  <2>2. /\ pc[p] \in Started /\ failure[mine[p]] = None
        /\ \A b \in Attempt \ {mine[p]} : failure'[b] = failure[b]
        /\ failure'[mine[p]] = [kind |-> "exception", path |-> kept[p]]
        /\ kept[p] = loc[mine[p]] \/ mine[p] \in unnoted
    BY <1>1, <1>8 DEF Preserve, WriteFailure, Untried, Started, NInv, Noted
  <2>3. Vacant(p)' /\ Untried(p)' /\ Listed(p)'
    BY <2>1 DEF Vacant, Untried, Listed, Scanning, Fresh, Started
  <2>4. loc[mine[p]] # "absent"
    BY <2>2 DEF Owns
  <2>5. Blank' /\ Explicit'
    BY <1>0, <1>1, <2>1, <2>2, <2>4
    DEF Explicit, InterruptedMeansUnpublished, Unpublished, PathsKnown,
        EarlierAttemptsRecorded
  <2> QED BY <2>3, <2>5
<1> QED BY <1>2, <1>3, <1>4, <1>5, <1>6, <1>7, <1>8

\* Faults of the runner and acts from outside.
LEMMA LoneTrouble ==
  ASSUME IInv, LoneInv, NEW p \in Runner, Runner = {p}, Trouble(p) \/ Outside
  PROVE  LoneInv'
<1> USE DEF IInv, TypeOK, LoneInv, disk, scan, notes, memory
<1>1. CASE CallFails(p) \/ Crash(p)
  BY <1>1, LoneLeaves DEF CallFails, Crash, history
<1>2. ASSUME HandlerFails(p) \/ \E c \in Content \cup {Empty} : ProducerFails(p, c)
      PROVE  LoneInv'
  <2>1. /\ pc[p] \in Started /\ pc'[p] = "preserve"
        /\ UNCHANGED <<completion, home, loc, failure, job, mine, scan>>
        /\ unnoted \subseteq unnoted'
    BY <1>2 DEF HandlerFails, ProducerFails, Goto, Started, history
  <2> QED
    BY <2>1
    DEF Blank, Vacant, Untried, Listed, Scanning, Fresh, Started, Explicit,
        InterruptedMeansUnpublished, Unpublished, PathsKnown, EarlierAttemptsRecorded
<1>3. ASSUME Outside
      PROVE  LoneInv'
  <2>1. /\ \A s \in Stage : completion'[s] = completion[s] \/ completion'[s] = None
        /\ UNCHANGED <<home, loc, failure, pc, job, mine, scan, unnoted>>
    BY <1>3 DEF Outside, Damage, Erase
  <2>2. pc[p] # "idle" => job[p].stage \in Stage
    BY RunnerTypes, JobShape DEF Owns
  <2> QED
    BY <2>1, <2>2
    DEF Blank, Vacant, Untried, Listed, Scanning, Fresh, Started, Explicit,
        InterruptedMeansUnpublished, Unpublished, PathsKnown, EarlierAttemptsRecorded
<1> QED BY <1>1, <1>2, <1>3 DEF Trouble

\* With a single runner, whatever fails, crashes or is damaged, each attempt of a
\* stage but the published one has its failure record before the next begins, and
\* the record is about it: it names the directory the attempt is in, except that
\* of an attempt, never published, whose handler was entered between the rename
\* and the assignment of preserved_path.
THEOREM StoreRecordsAreExplicit == Sole => (Spec => []RecordsAreExplicit)
<1> SUFFICES ASSUME NEW p \in Runner, Runner = {p} PROVE Spec => []RecordsAreExplicit
  BY DEF Sole
<1>1. ASSUME IInv, NInv, LoneInv, [Next]_vars
      PROVE  LoneInv'
  <2>1. CASE Next
    BY <1>1, <2>1, LoneCall, LoneScan, LoneAttempt, LoneTrouble DEF Next, Work
  <2>2. CASE UNCHANGED vars
    BY <1>1, <2>2
    DEF LoneInv, vars, disk, memory, notes, scan, history, Blank, Vacant, Untried, Listed,
        Explicit, InterruptedMeansUnpublished, Unpublished, PathsKnown, EarlierAttemptsRecorded
  <2> QED BY <1>1, <2>1, <2>2
<1>2. LoneInv /\ NInv => RecordsAreExplicit
  BY DEF LoneInv, NInv, GivenUp, Explicit, PathsKnown, RecordsAreExplicit, RecordsPointAtEvidence
<1> QED BY <1>1, <1>2, LoneInit, StoreInvariant, NotedInvariant, PTL DEF Spec
=============================================================================
