----------------------------- MODULE StageStore -----------------------------
(***************************************************************************)
(* The checkpoint store of the final-discovery campaign                    *)
(* (src/echoes/final_discovery/stages.py).  A stage owns a directory with  *)
(*                                                                         *)
(*    in-progress/<uuid>/          attempts whose producer may be running  *)
(*    completed-attempts/<uuid>/   attempts whose producer has returned    *)
(*    failures/<uuid>.json         one failure record per failed attempt   *)
(*    completion.json              the one published completion            *)
(*                                                                         *)
(* Runners execute run_stage.  Everything a runner holds in memory is lost *)
(* in a crash; everything above is on disk.  Several runners may share a   *)
(* store: the code has no lock, only publication without replacement.      *)
(***************************************************************************)
EXTENDS Naturals, FiniteSets

CONSTANTS
  Stage,          \* nodes of the campaign graph
  Dependencies,   \* Stage -> SUBSET Stage
  Runner,         \* processes calling run_stage
  Attempt,        \* pool of uuids; its size bounds the attempts of a run
  Request,        \* identities: input hashes, config, code and commit
  Content,        \* what an attempt's artifact directory can hold
  None,           \* absent file or unset variable
  MaxFaults,      \* bound on crashes, exceptions and outside damage
  Tampering       \* whether anything outside the program touches the store

Empty == "empty"  \* an artifact directory without regular files

\* Every nonempty set of stages has one that depends on none of the others:
\* the frozen table lists a stage after the stages it depends on.
GraphAssumption ==
  /\ Dependencies \in [Stage -> SUBSET Stage]
  /\ \A S \in SUBSET Stage : S # {} => \E s \in S : Dependencies[s] \cap S = {}

VARIABLES
  completion,     \* completion.json of every stage
  home,           \* the stage an attempt directory belongs to
  loc,            \* the parent directory of an attempt
  rec,            \* attempt.json
  art,            \* the content of artifacts/
  failure,        \* failures/<uuid>.json
  pc,             \* where a runner is in run_stage
  job,            \* its arguments and the dependency hashes it authenticated
  mine,           \* the attempt it has started
  seen,           \* the published attempt record_interrupted_attempts has read
  area,           \* the directory it is going through
  todo,           \* the attempts it listed there
  cur,            \* the one it is about to record
  inv,            \* the artifact inventory it took
  kept,           \* preserved_path: where it believes its attempt to be
  result,         \* how its last call ended
  made,           \* history: what the producer of an attempt left in artifacts/
  early,          \* history: attempts changed from outside before their inventory
  unnoted,        \* history: attempts moved by a run_stage that failed to note it
  erased,         \* history: stages whose completion the outside removed
  faults          \* faults so far

disk == <<completion, home, loc, rec, art, failure>>
scan == <<seen, area, todo, cur>>
notes == <<inv, kept>>
memory == <<pc, job, mine, scan, notes, result>>
history == <<made, early, unnoted, erased>>
vars == <<disk, memory, history, faults>>

Place == {"in-progress", "completed-attempts"}
Step == {"idle", "list", "inspect", "record", "mkdir", "attempt", "produce",
         "inventory", "vacant", "promote", "moved", "publish", "tidy", "confirm", "preserve"}
Identity(s) == [stage : {s}, request : Request, deps : [Dependencies[s] -> Attempt]]
Job == UNION {Identity(s) : s \in Stage}
Manifest(s) == [attempt : Attempt, request : Request,
                deps : [Dependencies[s] -> Attempt], inventory : Content]
LedgerEntry(s) == [attempt : Attempt, deps : [Dependencies[s] -> Attempt]]
FailureRecord == [kind : {"exception", "interrupted"}, path : Place]

\* None is distinct from everything a file or a variable can hold.
NoneAssumption ==
  /\ None \notin Attempt \cup Stage \cup Content \cup Job \cup FailureRecord
  /\ \A s \in Stage : None \notin Manifest(s) \cup LedgerEntry(s)

ASSUME StoreAssumption ==
  /\ GraphAssumption
  /\ NoneAssumption
  /\ MaxFaults \in Nat
  /\ Tampering \in BOOLEAN

(***************************************************************************)
(* Authentication.  A completion digest is modelled by the attempt it      *)
(* names: attempt uuids are fresh, so two completions never share one.     *)
(***************************************************************************)

\* s and the stages it is computed from, directly or not.
Ancestors ==
  [s \in Stage |-> {t \in Stage : \A T \in SUBSET Stage :
     (s \in T /\ \A u \in T : Dependencies[u] \subseteq T) => t \in T}]

\* The completion of t alone agrees with the files around it.
Consistent(t) ==
  /\ completion[t] # None
  /\ \A d \in Dependencies[t] :
       completion[d] # None /\ completion[t].deps[d] = completion[d].attempt
  /\ loc[completion[t].attempt] = "completed-attempts"
  /\ art[completion[t].attempt] = completion[t].inventory

\* Mutant: only the stage's own files are checked.
AuthenticAlone(s) == Consistent(s)

\* authenticate_completion: the manifest, all upstream ones, every artifact.
Authentic(s) == \A t \in Ancestors[s] : Consistent(t)

(***************************************************************************)
(* Leaving run_stage, by a return or by an exception.                      *)
(***************************************************************************)
Leave(p, how) ==
  /\ pc' = [pc EXCEPT ![p] = "idle"]
  /\ mine' = [mine EXCEPT ![p] = None]
  /\ seen' = [seen EXCEPT ![p] = None]
  /\ area' = [area EXCEPT ![p] = "in-progress"]
  /\ todo' = [todo EXCEPT ![p] = {}]
  /\ cur' = [cur EXCEPT ![p] = None]
  /\ inv' = [inv EXCEPT ![p] = None]
  /\ kept' = [kept EXCEPT ![p] = "in-progress"]
  /\ result' = [result EXCEPT ![p] = how]

Goto(p, step) == pc' = [pc EXCEPT ![p] = step]

\* The environment may interfere only while the bound allows it.
Fault == faults < MaxFaults /\ faults' = faults + 1
NoFault == UNCHANGED <<faults, history>>

(***************************************************************************)
(* run_stage up to the start of an attempt                                 *)
(***************************************************************************)

\* A completion is there: return it after full authentication, when it was
\* made for this very request; raise otherwise.
Reuse(p, s, q) ==
  /\ pc[p] = "idle" /\ completion[s] # None
  /\ IF Authentic(s) /\ completion[s].request = q
       THEN /\ job' = [job EXCEPT ![p] =
                 [stage |-> s, request |-> q, deps |-> completion[s].deps]]
            /\ result' = [result EXCEPT ![p] = "skipped"]
       ELSE /\ result' = [result EXCEPT ![p] = "raised"]
            /\ UNCHANGED job
  /\ UNCHANGED <<disk, pc, mine, scan, notes>> /\ NoFault

\* None is there: authenticate every dependency and note its digest.
Enter(p, s, q) ==
  /\ pc[p] = "idle" /\ completion[s] = None
  /\ \A d \in Dependencies[s] : Authentic(d)
  /\ job' = [job EXCEPT ![p] = [stage |-> s, request |-> q,
       deps |-> [d \in Dependencies[s] |-> completion[d].attempt]]]
  /\ Goto(p, "list")
  /\ result' = [result EXCEPT ![p] = "none"]
  /\ UNCHANGED <<disk, mine, scan, notes>> /\ NoFault

\* A dependency is absent or does not authenticate.
RefuseDependency(p, s) ==
  /\ pc[p] = "idle" /\ completion[s] = None
  /\ \E d \in Dependencies[s] : ~Authentic(d)
  /\ result' = [result EXCEPT ![p] = "raised"]
  /\ UNCHANGED <<disk, pc, job, mine, scan, notes>> /\ NoFault

(***************************************************************************)
(* record_interrupted_attempts                                             *)
(***************************************************************************)

\* Read which attempt is published, then list in-progress.
List(p) ==
  LET s == job[p].stage IN
  /\ pc[p] = "list"
  /\ seen' = [seen EXCEPT ![p] = IF completion[s] = None THEN None ELSE completion[s].attempt]
  /\ todo' = [todo EXCEPT ![p] = {a \in Attempt : home[a] = s /\ loc[a] = "in-progress"}]
  /\ Goto(p, "inspect")
  /\ UNCHANGED <<disk, job, mine, area, cur, notes, result>> /\ NoFault

\* Mutant: an attempt that moved before its runner died is not looked for.
SkipCompleted(p) ==
  /\ pc[p] = "inspect" /\ area[p] = "in-progress" /\ todo[p] = {}
  /\ area' = [area EXCEPT ![p] = "completed-attempts"]
  /\ UNCHANGED <<disk, pc, job, mine, seen, todo, cur, notes, result>> /\ NoFault

\* Done with in-progress, list completed-attempts without the published one.
ListCompleted(p) ==
  /\ pc[p] = "inspect" /\ area[p] = "in-progress" /\ todo[p] = {}
  /\ area' = [area EXCEPT ![p] = "completed-attempts"]
  /\ todo' = [todo EXCEPT ![p] =
       {a \in Attempt : /\ home[a] = job[p].stage /\ loc[a] = "completed-attempts"
                        /\ a # seen[p]}]
  /\ UNCHANGED <<disk, pc, job, mine, seen, cur, notes, result>> /\ NoFault

\* Mutant: a directory that already has its record is an error.
InspectOnce(p, a) ==
  /\ pc[p] = "inspect" /\ a \in todo[p]
  /\ \/ /\ rec[a] = None \/ failure[a] # None
        /\ Leave(p, "raised")
     \/ /\ rec[a] # None /\ failure[a] = None
        /\ cur' = [cur EXCEPT ![p] = a]
        /\ Goto(p, "record")
        /\ UNCHANGED <<mine, seen, area, todo, notes, result>>
  /\ UNCHANGED <<disk, job>> /\ NoFault

\* One listed directory: gone from where it was listed, or without a readable
\* attempt.json, it raises; already recorded, it is passed over.
Inspect(p, a) ==
  /\ pc[p] = "inspect" /\ a \in todo[p]
  /\ \/ /\ loc[a] # area[p]
        /\ Leave(p, "raised")
     \/ /\ loc[a] = area[p] /\ failure[a] # None
        /\ todo' = [todo EXCEPT ![p] = @ \ {a}]
        /\ UNCHANGED <<pc, mine, seen, area, cur, notes, result>>
     \/ /\ loc[a] = area[p] /\ failure[a] = None /\ rec[a] = None
        /\ Leave(p, "raised")
     \/ /\ loc[a] = area[p] /\ failure[a] = None /\ rec[a] # None
        /\ cur' = [cur EXCEPT ![p] = a]
        /\ Goto(p, "record")
        /\ UNCHANGED <<mine, seen, area, todo, notes, result>>
  /\ UNCHANGED <<disk, job>> /\ NoFault

WriteFailure(a, kind, path) ==
  failure' = [failure EXCEPT ![a] = [kind |-> kind, path |-> path]]

\* The directory is dealt with: on to the next.
Dealt(p) ==
  /\ todo' = [todo EXCEPT ![p] = @ \ {cur[p]}]
  /\ cur' = [cur EXCEPT ![p] = None]
  /\ Goto(p, "inspect")
  /\ UNCHANGED <<mine, seen, area, notes, result>>

\* _preserve_failure(kind = interrupted).  When another runner has written the
\* record meanwhile, the existence test returns it or the link refuses it.
Record(p) ==
  /\ pc[p] = "record"
  /\ \/ /\ failure[cur[p]] = None
        /\ WriteFailure(cur[p], "interrupted", area[p])
        /\ Dealt(p)
     \/ /\ failure[cur[p]] # None
        /\ Dealt(p) /\ UNCHANGED failure
     \/ /\ failure[cur[p]] # None
        /\ Leave(p, "raised") /\ UNCHANGED failure
  /\ UNCHANGED <<completion, home, loc, rec, art, job>> /\ NoFault

Recovered(p) ==
  /\ pc[p] = "inspect" /\ area[p] = "completed-attempts" /\ todo[p] = {}
  /\ Goto(p, "mkdir")
  /\ UNCHANGED <<disk, job, mine, scan, notes, result>> /\ NoFault

(***************************************************************************)
(* The attempt                                                             *)
(***************************************************************************)

\* Mutant: an abandoned attempt directory of the stage is taken over.
MakeOrReuseDirectory(p, a) ==
  /\ pc[p] = "mkdir"
  /\ loc[a] = "absent" \/ (loc[a] = "in-progress" /\ home[a] = job[p].stage)
  /\ home' = [home EXCEPT ![a] = job[p].stage]
  /\ loc' = [loc EXCEPT ![a] = "in-progress"]
  /\ mine' = [mine EXCEPT ![p] = a]
  /\ Goto(p, "attempt")
  /\ UNCHANGED <<completion, rec, art, failure, job, scan, notes, result>>
  /\ NoFault

\* in-progress/<uuid>/artifacts
MakeDirectory(p, a) ==
  /\ pc[p] = "mkdir" /\ loc[a] = "absent"
  /\ home' = [home EXCEPT ![a] = job[p].stage]
  /\ loc' = [loc EXCEPT ![a] = "in-progress"]
  /\ mine' = [mine EXCEPT ![p] = a]
  /\ Goto(p, "attempt")
  /\ UNCHANGED <<completion, rec, art, failure, job, scan, notes, result>>
  /\ NoFault

\* attempt.json
WriteAttempt(p) ==
  /\ pc[p] = "attempt"
  /\ rec' = [rec EXCEPT ![mine[p]] = job[p]]
  /\ Goto(p, "produce")
  /\ UNCHANGED <<completion, home, loc, art, failure, job, mine, scan, notes, result>>
  /\ NoFault

\* The producer returns.
Produce(p, c) ==
  /\ pc[p] = "produce"
  /\ art' = [art EXCEPT ![mine[p]] = c]
  /\ made' = [made EXCEPT ![mine[p]] = c]
  /\ Goto(p, "inventory")
  /\ UNCHANGED <<completion, home, loc, rec, failure, job, mine, scan, notes, result>>
  /\ UNCHANGED <<early, unnoted, erased, faults>>

\* It raises, or leaves no regular file, with whatever is in the directory by then.
ProducerFails(p, c) ==
  /\ pc[p] = "produce"
  /\ art' = [art EXCEPT ![mine[p]] = c]
  /\ Goto(p, "preserve")
  /\ Fault
  /\ UNCHANGED <<completion, home, loc, rec, failure, job, mine, scan, notes, result, history>>

\* What is in the directory by now is hashed.  (Without a regular file there,
\* run_stage raises: that is among the cases of ProducerFails.)
Inventory(p) ==
  /\ pc[p] = "inventory"
  /\ inv' = [inv EXCEPT ![p] = art[mine[p]]]
  /\ Goto(p, "vacant")
  /\ UNCHANGED <<disk, job, mine, scan, kept, result>> /\ NoFault

\* Look for a competitor's completion.
FindVacant(p) ==
  /\ pc[p] = "vacant"
  /\ Goto(p, IF completion[job[p].stage] # None THEN "preserve" ELSE "promote")
  /\ UNCHANGED <<disk, job, mine, scan, notes, result>> /\ NoFault

\* Mutant: the manifest is published over an attempt still in progress.
PromoteInPlace(p) ==
  /\ pc[p] = "promote"
  /\ Goto(p, "moved")
  /\ UNCHANGED <<disk, job, mine, scan, notes, result>> /\ NoFault

\* Rename the attempt's directory.
Promote(p) ==
  /\ pc[p] = "promote"
  /\ loc' = [loc EXCEPT ![mine[p]] = "completed-attempts"]
  /\ Goto(p, "moved")
  /\ UNCHANGED <<completion, home, rec, art, failure, job, mine, scan, notes, result>>
  /\ NoFault

\* Sync the parent directory and assign preserved_path.
NoteMove(p) ==
  /\ pc[p] = "moved"
  /\ kept' = [kept EXCEPT ![p] = "completed-attempts"]
  /\ Goto(p, "publish")
  /\ UNCHANGED <<disk, job, mine, scan, inv, result>> /\ NoFault

\* Mutant: the artifacts are inventoried after the attempt has moved.
PublishLateInventory(p) ==
  LET s == job[p].stage IN
  /\ pc[p] = "publish"
  /\ IF completion[s] # None
       THEN Goto(p, "preserve") /\ UNCHANGED completion
       ELSE /\ completion' = [completion EXCEPT ![s] =
                 [attempt |-> mine[p], request |-> job[p].request,
                  deps |-> job[p].deps, inventory |-> art[mine[p]]]]
            /\ Goto(p, "tidy")
  /\ UNCHANGED <<home, loc, rec, art, failure, job, mine, scan, notes, result>>
  /\ NoFault

\* Mutant: the manifest is renamed over whatever is there.
PublishReplacing(p) ==
  /\ pc[p] = "publish"
  /\ completion' = [completion EXCEPT ![job[p].stage] =
       [attempt |-> mine[p], request |-> job[p].request,
        deps |-> job[p].deps, inventory |-> inv[p]]]
  /\ Goto(p, "tidy")
  /\ UNCHANGED <<home, loc, rec, art, failure, job, mine, scan, notes, result>>
  /\ NoFault

\* Link the completion into place; the link fails when one is there.
Publish(p) ==
  LET s == job[p].stage IN
  /\ pc[p] = "publish"
  /\ IF completion[s] # None
       THEN Goto(p, "preserve") /\ UNCHANGED completion
       ELSE /\ completion' = [completion EXCEPT ![s] =
                 [attempt |-> mine[p], request |-> job[p].request,
                  deps |-> job[p].deps, inventory |-> inv[p]]]
            /\ Goto(p, "tidy")
  /\ UNCHANGED <<home, loc, rec, art, failure, job, mine, scan, notes, result>>
  /\ NoFault

\* Unlink the temporary file the manifest was written to.
Tidy(p) ==
  /\ pc[p] = "tidy"
  /\ Goto(p, "confirm")
  /\ UNCHANGED <<disk, job, mine, scan, notes, result>> /\ NoFault

\* Authenticate what has just been published before returning it.
Confirm(p) ==
  /\ pc[p] = "confirm"
  /\ IF Authentic(job[p].stage) /\ completion[job[p].stage].request = job[p].request
       THEN Leave(p, "ran")
       ELSE Leave(p, "raised")
  /\ UNCHANGED <<disk, job>> /\ NoFault

\* Mutant: the handler's record replaces one that is there.
PreserveReplacing(p) ==
  /\ pc[p] = "preserve"
  /\ WriteFailure(mine[p], "exception", kept[p])
  /\ Leave(p, "raised")
  /\ UNCHANGED <<completion, home, loc, rec, art, job>> /\ NoFault

\* Mutant: the record names the directory the attempt started in.
PreserveStalePath(p) ==
  /\ pc[p] = "preserve"
  /\ IF failure[mine[p]] = None
       THEN WriteFailure(mine[p], "exception", "in-progress")
       ELSE UNCHANGED failure
  /\ Leave(p, "raised")
  /\ UNCHANGED <<completion, home, loc, rec, art, job>> /\ NoFault

\* The exception handler: _preserve_failure(kind = exception) with the path
\* noted so far, then re-raise.  A record that is already there is kept.
Preserve(p) ==
  /\ pc[p] = "preserve"
  /\ IF failure[mine[p]] = None
       THEN WriteFailure(mine[p], "exception", kept[p])
       ELSE UNCHANGED failure
  /\ Leave(p, "raised")
  /\ UNCHANGED <<completion, home, loc, rec, art, job>> /\ NoFault

(***************************************************************************)
(* The environment                                                         *)
(***************************************************************************)

\* An error or an interrupt while the attempt is inventoried or moved, or its
\* manifest written, linked or tidied up, is handled like an error of the
\* producer.  Between the rename and the assignment, the handler finds the old
\* preserved_path.
HandlerFails(p) ==
  /\ pc[p] \in {"inventory", "vacant", "promote", "moved", "publish", "tidy"}
  /\ Goto(p, "preserve")
  /\ unnoted' = IF pc[p] = "moved" THEN unnoted \cup {mine[p]} ELSE unnoted
  /\ Fault /\ UNCHANGED <<disk, job, mine, scan, notes, result, made, early, erased>>

\* Anywhere else it leaves run_stage with the files as they are.
CallFails(p) ==
  /\ pc[p] \in {"list", "inspect", "record", "mkdir", "attempt", "confirm", "preserve"}
  /\ Leave(p, "raised")
  /\ Fault /\ UNCHANGED <<disk, job, history>>

\* The process dies between any two steps.
Crash(p) ==
  /\ pc[p] # "idle"
  /\ Leave(p, "none")
  /\ Fault /\ UNCHANGED <<disk, job, history>>

\* The bytes of an attempt change on disk, maybe between the return of its
\* producer and its inventory.
Damage(a, c) ==
  /\ Tampering /\ loc[a] # "absent" /\ art[a] # c
  /\ art' = [art EXCEPT ![a] = c]
  /\ early' = IF \E p \in Runner : pc[p] = "inventory" /\ mine[p] = a
                THEN early \cup {a} ELSE early
  /\ Fault
  /\ UNCHANGED <<completion, home, loc, rec, failure, memory, made, unnoted, erased>>

\* A completion file disappears.
Erase(s) ==
  /\ Tampering /\ completion[s] # None
  /\ completion' = [completion EXCEPT ![s] = None]
  /\ erased' = erased \cup {s}
  /\ Fault
  /\ UNCHANGED <<home, loc, rec, art, failure, memory, made, early, unnoted>>

-----------------------------------------------------------------------------
Init ==
  /\ completion = [s \in Stage |-> None]
  /\ home = [a \in Attempt |-> None]
  /\ loc = [a \in Attempt |-> "absent"]
  /\ rec = [a \in Attempt |-> None]
  /\ art = [a \in Attempt |-> Empty]
  /\ failure = [a \in Attempt |-> None]
  /\ pc = [p \in Runner |-> "idle"]
  /\ job = [p \in Runner |-> None]
  /\ mine = [p \in Runner |-> None]
  /\ seen = [p \in Runner |-> None]
  /\ area = [p \in Runner |-> "in-progress"]
  /\ todo = [p \in Runner |-> {}]
  /\ cur = [p \in Runner |-> None]
  /\ inv = [p \in Runner |-> None]
  /\ kept = [p \in Runner |-> "in-progress"]
  /\ result = [p \in Runner |-> "none"]
  /\ made = [a \in Attempt |-> None]
  /\ early = {}
  /\ unnoted = {}
  /\ erased = {}
  /\ faults = 0

\* The steps a call takes once it has been made.
Work(p) ==
  \/ List(p) \/ ListCompleted(p) \/ Record(p) \/ Recovered(p)
  \/ \E a \in Attempt : Inspect(p, a)
  \/ \E a \in Attempt : MakeDirectory(p, a)
  \/ WriteAttempt(p)
  \/ \E c \in Content : Produce(p, c)
  \/ Inventory(p) \/ FindVacant(p) \/ Promote(p) \/ NoteMove(p)
  \/ Publish(p) \/ Tidy(p) \/ Confirm(p) \/ Preserve(p)

Call(p) ==
  \E s \in Stage :
    \/ \E q \in Request : Reuse(p, s, q) \/ Enter(p, s, q)
    \/ RefuseDependency(p, s)

Trouble(p) ==
  \/ HandlerFails(p) \/ CallFails(p)
  \/ \E c \in Content \cup {Empty} : ProducerFails(p, c)
  \/ Crash(p)

Outside ==
  \/ \E a \in Attempt, c \in Content : Damage(a, c)
  \/ \E s \in Stage : Erase(s)

Next ==
  \/ \E p \in Runner : Call(p) \/ Work(p) \/ Trouble(p)
  \/ Outside

Spec == Init /\ [][Next]_vars

\* A call in progress keeps going, and the campaign keeps being launched until
\* every stage has been entered: the order of the stages brings each launch to
\* the first stage that is not complete.
FairSpec ==
  /\ Spec
  /\ \A p \in Runner : WF_vars(Work(p))
  /\ \A p \in Runner, s \in Stage : SF_vars(\E q \in Request : Enter(p, s, q))

-----------------------------------------------------------------------------
(***************************************************************************)
(* Properties                                                              *)
(***************************************************************************)

\* Every file of the store and every local of run_stage has the shape the
\* pydantic models and annotations of stages.py give it.
TypeOK ==
  /\ DOMAIN completion = Stage
  /\ \A s \in Stage : completion[s] \in Manifest(s) \cup {None}
  /\ home \in [Attempt -> Stage \cup {None}]
  /\ loc \in [Attempt -> Place \cup {"absent"}]
  /\ rec \in [Attempt -> Job \cup {None}]
  /\ art \in [Attempt -> Content \cup {Empty}]
  /\ failure \in [Attempt -> FailureRecord \cup {None}]
  /\ pc \in [Runner -> Step]
  /\ job \in [Runner -> Job \cup {None}]
  /\ mine \in [Runner -> Attempt \cup {None}]
  /\ seen \in [Runner -> Attempt \cup {None}]
  /\ area \in [Runner -> Place]
  /\ todo \in [Runner -> SUBSET Attempt]
  /\ cur \in [Runner -> Attempt \cup {None}]
  /\ inv \in [Runner -> Content \cup {None}]
  /\ kept \in [Runner -> Place]
  /\ result \in [Runner -> {"none", "skipped", "ran", "raised"}]
  /\ made \in [Attempt -> Content \cup {None}]
  /\ early \subseteq Attempt
  /\ unnoted \subseteq Attempt
  /\ erased \subseteq Stage
  /\ faults \in Nat

\* A completion published while other runners publish, crash and restart was
\* built from the very completions that stand upstream of it now, although
\* run_stage reads their digests long before it publishes.
ChainConsistent ==
  \A s \in Stage : completion[s] # None =>
    \A d \in Dependencies[s] : d \notin erased =>
      completion[d] # None /\ completion[s].deps[d] = completion[d].attempt

\* The attempt a completion names is kept where the manifest says, the
\* attempt.json written before its producer started states the same request
\* and dependencies as the manifest written after it, and as long as nothing
\* outside the program interferes the artifacts are those of the inventory.
PublishedIsPreserved ==
  \A s \in Stage : completion[s] # None =>
    LET a == completion[s].attempt IN
    /\ home[a] = s /\ loc[a] = "completed-attempts"
    /\ rec[a] = [stage |-> s, request |-> completion[s].request,
                 deps |-> completion[s].deps]
    /\ ~Tampering => art[a] = completion[s].inventory

\* No step of any runner replaces or removes a published completion.
CompletionWriteOnce ==
  [][\A s \in Stage : completion[s] # None =>
       completion'[s] = completion[s] \/ s \in erased' ]_vars

\* Evidence only accumulates: attempt directories, attempt records and
\* failure records are never removed or rewritten, an attempt that has left
\* in-progress never goes back, and no runner takes up an attempt that has
\* ended or changes its artifacts.
EvidenceRetained ==
  [][\A a \in Attempt :
       /\ loc[a] # "absent" => loc'[a] # "absent"
       /\ loc[a] = "completed-attempts" => loc'[a] = loc[a]
       /\ rec[a] # None => rec'[a] = rec[a]
       /\ failure[a] # None => failure'[a] = failure[a]
       /\ (loc[a] # "absent" /\ \A p \in Runner : mine[p] # a) =>
            (\A p \in Runner : mine'[p] # a) /\ (~Tampering => art'[a] = art[a])]_vars

\* Whatever is damaged or removed while runners work, a call returns a result
\* only when every stage it rests on still holds the very bytes its producer
\* left, in an attempt started from the upstream attempts published now, although
\* the inventory is taken, and the digests are read, long before publication.
\* Bytes changed between the return of the producer (stages.py:426) and the
\* inventory (427) are the exception: run_stage takes them for the output.
ResultsAreGenuine ==
  [][\A p \in Runner :
       (result'[p] # result[p] /\ result'[p] \in {"ran", "skipped"}) =>
         \A t \in Ancestors[job'[p].stage] :
           /\ completion[t] # None
           /\ LET a == completion[t].attempt IN
              /\ a \notin early => art[a] = made[a]
              /\ \A d \in Dependencies[t] :
                   completion[d] # None /\ rec[a].deps[d] = completion[d].attempt]_vars

Unpublished(a) ==
  \A s \in Stage : completion[s] # None => completion[s].attempt # a

\* A record that says "stage did not publish a completion manifest" belongs
\* to an attempt that is not the published one.
InterruptedMeansUnpublished ==
  \A a \in Attempt :
    (failure[a] # None /\ failure[a].kind = "interrupted") => Unpublished(a)

\* The preserved_path of a failure record is where the attempt is, but for an
\* attempt whose run_stage was interrupted between the rename and the
\* assignment of preserved_path (stages.py:436-438); that one is never published.
RecordsPointAtEvidence ==
  \A a \in Attempt : failure[a] # None =>
    failure[a].path = loc[a] \/ (a \in unnoted /\ Unpublished(a))

\* A runner starts an attempt only after every earlier attempt of the stage
\* has been given its failure record.
EarlierAttemptsRecorded ==
  \A p \in Runner :
    pc[p] \in {"mkdir", "attempt", "produce", "inventory", "vacant", "promote", "moved",
              "publish"} =>
      \A a \in Attempt :
        (home[a] = job[p].stage /\ a # mine[p]) => failure[a] # None

\* "Failed and interrupted attempt directories are retained with explicit
\* failure records" (stages.py:5): each attempt but the published one has its
\* record before the next one begins, and the record is about it.
RecordsAreExplicit ==
  InterruptedMeansUnpublished /\ RecordsPointAtEvidence /\ EarlierAttemptsRecorded

\* "Record every unpublished attempt as interrupted": when recovery ends, by
\* going on or by raising, no abandoned attempt is left without a record.
RecoveryIsTotal ==
  [][\A p \in Runner :
       (/\ pc[p] \in {"inspect", "record"} /\ faults' = faults
        /\ pc'[p] = "mkdir" \/ result'[p] = "raised") =>
         \A a \in Attempt :
           (home[a] = job[p].stage /\ Unpublished(a) /\ \A r \in Runner : mine[r] # a)
             => failure'[a] # None]_vars

\* An attempt directory without attempt.json and without an owner.
Torn(s) ==
  \E a \in Attempt : /\ home[a] = s /\ rec[a] = None
                     /\ \A p \in Runner : mine[p] # a

\* A stage whose completion was removed, or its published attempt changed
\* after the inventory, from outside.
Tampered(s) ==
  \/ s \in erased
  \/ completion[s] # None /\ art[completion[s].attempt] # completion[s].inventory

\* Crashes and exceptions only delay a stage: while launches are repeated it
\* is completed, unless a torn attempt directory of it or of a stage upstream
\* stops record_interrupted_attempts for good, or authentication stops what
\* rests on files changed from outside.
CompletesUnlessTorn ==
  \A s \in Stage :
    <>(completion[s] # None \/ \E t \in Ancestors[s] : Torn(t) \/ Tampered(t))

\* The store implements the write-once ledger.
Ledger == INSTANCE StageLedger WITH
  Absent <- None,
  ledger <- [s \in Stage |->
    IF completion[s] = None THEN None
    ELSE [attempt |-> completion[s].attempt, deps |-> completion[s].deps]]

ImplementsLedger == Ledger!Spec
=============================================================================
