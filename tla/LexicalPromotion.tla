-------------------------- MODULE LexicalPromotion --------------------------
(***************************************************************************)
(* The promotion of a lexical run into the canonical output directory and  *)
(* the database (src/echoes/lexical/storage.py, LexicalArtifactWriter and  *)
(* recover_interrupted_lexical_promotion; run_lexical_pipeline in          *)
(* lexical/pipeline.py; the execution manifest of manifest.py; the two     *)
(* recovery commands of cli.py).                                           *)
(*                                                                         *)
(* A run fills a staging directory, seals it with a hash manifest, writes  *)
(* a journal, moves the canonical tree aside and its own into place,       *)
(* commits the database views with a marker that names the promotion, and  *)
(* archives the journal once its execution manifest says it succeeded.     *)
(* Recovery decides from the journal, the three directories and the marker *)
(* whether a promotion took place or is to be taken back.  An exception    *)
(* ends a run with a recovery of its own; a crash ends whatever goes on.   *)
(*                                                                         *)
(* One process at a time works on the output, a run or a command of the    *)
(* operator, as cloud_start.sh and cloud_validate.sh see to.  A tree is    *)
(* named by the run that sealed it, which stands for its hash manifest,    *)
(* and a promotion by the run it belongs to.                               *)
(***************************************************************************)
EXTENDS Naturals

CONSTANTS
  Run,        \* executions of the pipeline
  None,       \* no run, no tree, no journal
  MaxFaults   \* bound on exceptions and crashes

VARIABLES
  staging,  \* Run -> what is in the staging directory that run created
  output,   \* the tree in the canonical directory
  backup,   \* Run -> the tree that run moved aside
  journal,  \* the active promotion journal
  marker,   \* lexical_promotion_commit in the database
  status,   \* Run -> execution_status of its manifest
  bound,    \* runs whose manifest has the output hashes
  sealed,   \* runs whose journal is archived as canonical-committed
  pc,       \* where the process is
  caller,   \* who called the recovery
  result,   \* what the recovery returned
  run,      \* the execution the process belongs to
  dir,      \* the run whose staging directory it uses
  force,    \* its --force
  active,   \* whether there was a journal when it started
  service,  \* whether systemd has Result=success for the worker
  faults    \* faults so far

trees == <<staging, output, backup>>
records == <<journal, marker, status, bound, sealed>>
process == <<pc, caller, result, run, dir, force, active, service>>
vars == <<trees, records, process, faults>>

\* A staging directory is absent, open to more writes, or sealed as a tree.
Absent == "absent"
Open == "open"

Journal == [run : Run, dir : Run]
Marker == [promotion : Run, tree : Run]

ASSUME PromotionAssumption ==
  /\ MaxFaults \in Nat
  /\ Absent \notin Run /\ Open \notin Run
  /\ None \notin Run /\ None \notin Journal /\ None \notin Marker

Sealing == {"seal", "sealing"}
Caller == {"launch", "handler", "command", "finalization"} \cup Sealing
Result == {"no_journal", "staging_restored", "canonical_committed", "error"}
Building == {"open", "build", "journal", "aside", "in", "bind", "expose", "succeed"}
Step == {"idle", "recover", "returned", "amend"} \cup Building

NoFault == UNCHANGED faults
Fault == faults < MaxFaults /\ faults' = faults + 1

Goto(step) == pc' = step /\ UNCHANGED <<caller, result, run, dir, force, active, service>>

\* The process is gone, and systemd has the result of the worker.
Exit(success) ==
  /\ pc' = "idle" /\ caller' = "command" /\ result' = "no_journal"
  /\ run' = None /\ dir' = None /\ force' = FALSE /\ active' = FALSE
  /\ service' = success

Recover(c) ==
  pc' = "recover" /\ caller' = c /\ UNCHANGED <<result, run, dir, force, active, service>>

Answer(answer) ==
  pc' = "returned" /\ result' = answer /\ UNCHANGED <<caller, run, dir, force, active, service>>

-----------------------------------------------------------------------------
(***************************************************************************)
(* recover_interrupted_lexical_promotion                                   *)
(***************************************************************************)
Staged == staging[journal.dir] # Absent
Aside == backup[journal.run] # None

\* Mutant: any marker is taken for the one of the journal.
CommittedByAnyone == marker # None

\* _database_has_committed_lexical_exposure
Committed == marker # None /\ marker.promotion = journal.run

\* What the recovery rejects and leaves as it is, in Restored or Keep.
Ambiguous ==
  \/ Staged /\ (staging[journal.dir] # journal.run \/ (output # None /\ Aside))
  \/ ~Staged /\ output # journal.run
  \/ ~Staged /\ Committed /\ marker.tree # journal.run

\* No journal: an archived one may witness the marker.
Unjournaled ==
  /\ pc = "recover" /\ journal = None
  /\ IF marker = None \/ marker.promotion \notin sealed
       THEN Answer("no_journal")
       ELSE IF /\ marker.tree = marker.promotion /\ output = marker.promotion
               /\ status[marker.promotion] = "succeeded"
              THEN Answer("canonical_committed")
              ELSE Answer("error")
  /\ UNCHANGED <<trees, records>> /\ NoFault

\* The promotion did not commit: its tree goes back to its staging path.
Retreat ==
  /\ pc = "recover" /\ journal # None /\ ~Ambiguous
  /\ ~Staged /\ ~Committed
  /\ staging' = [staging EXCEPT ![journal.dir] = output]
  /\ output' = None
  /\ UNCHANGED <<backup, records, process>> /\ NoFault

\* Mutant: the tree moved aside is copied back.
RestoreCopying ==
  /\ pc = "recover" /\ journal # None /\ ~Ambiguous
  /\ Staged /\ output = None /\ Aside
  /\ output' = backup[journal.run]
  /\ UNCHANGED <<staging, backup, records, process>> /\ NoFault

\* The tree it had moved aside comes back.
Restore ==
  /\ pc = "recover" /\ journal # None /\ ~Ambiguous
  /\ Staged /\ output = None /\ Aside
  /\ output' = backup[journal.run]
  /\ backup' = [backup EXCEPT ![journal.run] = None]
  /\ UNCHANGED <<staging, records, process>> /\ NoFault

\* Mutant: the journal of a promotion taken back stays active.
RestoredActive ==
  /\ pc = "recover" /\ journal # None
  /\ Staged /\ (Ambiguous \/ ~Aside)
  /\ Answer(IF Ambiguous THEN "error" ELSE "staging_restored")
  /\ UNCHANGED <<trees, records>> /\ NoFault

\* Nothing is left to take back: the journal is archived.
Restored ==
  /\ pc = "recover" /\ journal # None
  /\ Staged /\ (Ambiguous \/ ~Aside)
  /\ IF Ambiguous
       THEN Answer("error") /\ UNCHANGED journal
       ELSE Answer("staging_restored") /\ journal' = None
  /\ UNCHANGED <<trees, marker, status, bound, sealed>> /\ NoFault

\* Mutant: the journal of a committed promotion is put away on sight.
KeepForgetting ==
  /\ pc = "recover" /\ journal # None
  /\ ~Staged /\ (Ambiguous \/ (Committed /\ caller \notin Sealing))
  /\ IF Ambiguous
       THEN Answer("error") /\ UNCHANGED journal
       ELSE Answer("canonical_committed") /\ journal' = None
  /\ UNCHANGED <<trees, marker, status, bound, sealed>> /\ NoFault

\* The promotion committed; its journal stays for the sealing.
Keep ==
  /\ pc = "recover" /\ journal # None
  /\ ~Staged /\ (Ambiguous \/ (Committed /\ caller \notin Sealing))
  /\ Answer(IF Ambiguous THEN "error" ELSE "canonical_committed")
  /\ UNCHANGED <<trees, records>> /\ NoFault

\* archive_committed: only beside an execution manifest that says success.
Seal ==
  /\ pc = "recover" /\ journal # None /\ ~Ambiguous
  /\ ~Staged /\ Committed /\ caller \in Sealing
  /\ IF status[journal.run] = "succeeded" /\ journal.run \in bound
       THEN /\ journal' = None
            /\ sealed' = sealed \cup {journal.run}
            /\ Answer("canonical_committed")
       ELSE Answer("error") /\ UNCHANGED <<journal, sealed>>
  /\ UNCHANGED <<trees, marker, status, bound>> /\ NoFault

-----------------------------------------------------------------------------
(***************************************************************************)
(* run_lexical_pipeline                                                    *)
(***************************************************************************)

\* A fresh run (d = r), or one that resumes the staging directory of d.
Launch(r, d, f) ==
  /\ pc = "idle" /\ status[r] = "none"
  /\ pc' = "recover" /\ caller' = "launch" /\ UNCHANGED <<result, service>>
  /\ run' = r /\ dir' = d /\ force' = f /\ active' = (journal # None)
  /\ UNCHANGED <<trees, records>> /\ NoFault

\* It goes on from what is restored, and over a committed result when that is
\* sealed and --force given.
Proceed ==
  /\ pc = "returned" /\ caller = "launch"
  /\ IF result = "error" \/ (result = "canonical_committed" /\ (active \/ ~force))
       THEN Exit(FALSE) /\ UNCHANGED status
       ELSE /\ status' = [status EXCEPT ![run] = "running"]
            /\ Goto("open")
  /\ UNCHANGED <<trees, journal, marker, bound, sealed>> /\ NoFault

\* LexicalArtifactWriter.__init__ and _adopt_existing_state: what can be
\* filled is a directory of its own or one that is not sealed.
Fillable == dir = run \/ staging[dir] = Open

OpenWriter ==
  /\ pc = "open"
  /\ IF journal = None /\ (output = None \/ force) /\ Fillable
       THEN staging' = [staging EXCEPT ![dir] = Open] /\ Goto("build")
       ELSE Recover("handler") /\ UNCHANGED staging
  /\ UNCHANGED <<output, backup, records>> /\ NoFault

\* finalize: the hash manifest seals the tree before it is validated.
Finalize ==
  /\ pc = "build"
  /\ staging' = [staging EXCEPT ![dir] = run]
  /\ Goto("journal")
  /\ UNCHANGED <<output, backup, records>> /\ NoFault

WriteJournal ==
  /\ pc = "journal"
  /\ journal' = [run |-> run, dir |-> dir]
  /\ Goto("aside")
  /\ UNCHANGED <<trees, marker, status, bound, sealed>> /\ NoFault

\* Mutant: the canonical tree is removed.
MoveAsideRemoving ==
  /\ pc = "aside"
  /\ output' = None
  /\ Goto("in")
  /\ UNCHANGED <<staging, backup, records>> /\ NoFault

MoveAside ==
  /\ pc = "aside"
  /\ backup' = [backup EXCEPT ![run] = output]
  /\ output' = None
  /\ Goto("in")
  /\ UNCHANGED <<staging, records>> /\ NoFault

MoveIn ==
  /\ pc = "in"
  /\ output' = staging[dir]
  /\ staging' = [staging EXCEPT ![dir] = Absent]
  /\ Goto("bind")
  /\ UNCHANGED <<backup, records>> /\ NoFault

\* The rename fails: the tree moved aside is put back before the exception.
MoveInFails ==
  /\ pc = "in"
  /\ output' = backup[run]
  /\ backup' = [backup EXCEPT ![run] = None]
  /\ Recover("handler") /\ Fault
  /\ UNCHANGED <<staging, records>>

\* bind_outputs, "before any post-promotion load can fail".
BindOutputs ==
  /\ pc = "bind"
  /\ bound' = bound \cup {run}
  /\ Goto("expose")
  /\ UNCHANGED <<trees, journal, marker, status, sealed>> /\ NoFault

\* load_lexical_duckdb commits the views and the marker in one transaction.
Expose ==
  /\ pc = "expose"
  /\ marker' = [promotion |-> run, tree |-> output]
  /\ Goto("succeed")
  /\ UNCHANGED <<trees, journal, status, bound, sealed>> /\ NoFault

\* finalize_success, then the sealing of the journal.
Succeed ==
  /\ pc = "succeed"
  /\ status' = [status EXCEPT ![run] = "succeeded"]
  /\ Recover("seal")
  /\ UNCHANGED <<trees, journal, marker, bound, sealed>> /\ NoFault

SealReturns ==
  /\ pc = "returned" /\ caller = "seal"
  /\ IF result = "canonical_committed" THEN Exit(TRUE) ELSE Recover("handler")
  /\ UNCHANGED <<trees, records>> /\ NoFault

\* An exception anywhere in the run, a signal or a resource limit included.
Fail ==
  /\ \/ pc \in Building
     \/ pc \in {"recover", "returned"} /\ caller = "seal"
  /\ Recover("handler") /\ Fault
  /\ UNCHANGED <<trees, records>>

\* finalize_failure, which a manifest that is final already refuses.
Handled ==
  /\ pc = "returned" /\ caller = "handler"
  /\ status' = [status EXCEPT ![run] = IF @ = "running" THEN "failed" ELSE @]
  /\ Exit(FALSE)
  /\ UNCHANGED <<trees, journal, marker, bound, sealed>> /\ NoFault

-----------------------------------------------------------------------------
(***************************************************************************)
(* recover-lexical-promotion and finalize-lexical-promotion-recovery       *)
(***************************************************************************)
Command(c) ==
  /\ pc = "idle" /\ c \in {"command", "finalization"}
  /\ Recover(c)
  /\ UNCHANGED <<trees, records>> /\ NoFault

CommandReturns ==
  /\ pc = "returned" /\ caller \in {"command", "finalization", "sealing"}
  /\ IF caller = "finalization" /\ result = "canonical_committed"
       THEN Goto("amend")
       ELSE Exit(service)
  /\ UNCHANGED <<trees, records>> /\ NoFault

\* The journal that witnesses the committed result, active or archived.
Witness == IF journal # None THEN journal.run ELSE marker.promotion

\* Mutant: a failed execution is taken for a success.
AmendFailed ==
  /\ pc = "amend"
  /\ IF ~service \/ Witness \notin bound
       THEN Exit(service) /\ UNCHANGED status
       ELSE /\ status' = [status EXCEPT ![Witness] = "succeeded"]
            /\ Recover("sealing")
  /\ UNCHANGED <<trees, journal, marker, bound, sealed>> /\ NoFault

\* finalize_recovered_execution_success: with Result=success and after strict
\* validation what was interrupted becomes a success, what failed does not.
Amend ==
  /\ pc = "amend"
  /\ IF ~service \/ status[Witness] = "failed" \/ Witness \notin bound
       THEN Exit(service) /\ UNCHANGED status
       ELSE /\ status' = [status EXCEPT ![Witness] = "succeeded"]
            /\ Recover("sealing")
  /\ UNCHANGED <<trees, journal, marker, bound, sealed>> /\ NoFault

\* The process is killed, which systemd records when it is the worker.
Kill ==
  /\ pc # "idle"
  /\ Exit(service /\ run = None) /\ Fault
  /\ UNCHANGED <<trees, records>>

\* The machine stops and starts: the unit has not run and has no failure.
Reboot ==
  /\ Exit(TRUE) /\ Fault
  /\ UNCHANGED <<trees, records>>

-----------------------------------------------------------------------------
Init ==
  /\ staging = [r \in Run |-> Absent]
  /\ output = None
  /\ backup = [r \in Run |-> None]
  /\ journal = None /\ marker = None
  /\ status = [r \in Run |-> "none"]
  /\ bound = {} /\ sealed = {}
  /\ pc = "idle" /\ caller = "command" /\ result = "no_journal"
  /\ run = None /\ dir = None /\ force = FALSE /\ active = FALSE /\ service = TRUE
  /\ faults = 0

Recovery == Unjournaled \/ Retreat \/ Restore \/ Restored \/ Keep \/ Seal

Work ==
  \/ Recovery
  \/ Proceed \/ OpenWriter \/ Finalize \/ WriteJournal \/ MoveAside \/ MoveIn
  \/ BindOutputs \/ Expose \/ Succeed \/ SealReturns \/ Handled
  \/ CommandReturns \/ Amend

Next ==
  \/ Work
  \/ \E r, d \in Run, f \in BOOLEAN : Launch(r, d, f)
  \/ \E c \in Caller : Command(c)
  \/ MoveInFails \/ Fail \/ Kill \/ Reboot

Spec == Init /\ [][Next]_vars

\* A process goes on, and the operator finalizes what is left in doubt, how
\* often runs may be launched in between.
FairSpec ==
  /\ Spec /\ WF_vars(Work)
  /\ SF_vars(journal # None /\ Command("finalization"))

-----------------------------------------------------------------------------
(***************************************************************************)
(* Properties                                                              *)
(***************************************************************************)
Maybe(S) == S \cup {None}

\* Shapes; the process knows its run as long as it is one.
TypeOK ==
  /\ staging \in [Run -> Run \cup {Absent, Open}]
  /\ output \in Maybe(Run)
  /\ backup \in [Run -> Maybe(Run)]
  /\ journal \in Maybe(Journal)
  /\ marker \in Maybe(Marker)
  /\ status \in [Run -> {"none", "running", "failed", "succeeded"}]
  /\ bound \subseteq Run /\ sealed \subseteq Run
  /\ pc \in Step /\ caller \in Caller /\ result \in Result
  /\ run \in Maybe(Run) /\ dir \in Maybe(Run)
  /\ force \in BOOLEAN /\ active \in BOOLEAN /\ service \in BOOLEAN
  /\ faults \in Nat
  /\ pc = "idle" => run = None
  /\ pc \in Building => run # None /\ dir # None

\* Who reads the database reads the tree the views were committed for: unless
\* another promotion is in doubt, it is the canonical one, and a canonical
\* tree nobody is promoting has been committed.
ExposureMatchesTree ==
  /\ marker # None /\ (journal = None \/ Committed) => output = marker.tree
  /\ output # None /\ journal = None => marker # None /\ marker.tree = output

\* A sealed tree is kept: in its staging directory, in the canonical one, or
\* moved aside, whatever is promoted, taken back, fails or dies.
Kept(t) ==
  output = t \/ \E r \in Run : staging[r] = t \/ backup[r] = t
TreesAreKept == [][\A t \in Run : Kept(t) => Kept(t)']_vars

\* "An active interrupted journal always blocks that fresh path; only a
\* sealed prior commit is eligible": a commit is replaced after its sealing.
OnlySealedIsReplaced ==
  [][marker' # marker => marker = None \/ marker.promotion \in sealed]_vars

\* "a failed execution manifest is never reclassified as successful", and
\* what is sealed as committed is the marker's, by an execution that succeeded.
FailureStands ==
  [][/\ \A r \in Run : status[r] = "failed" => status'[r] = "failed"
     /\ \A r \in sealed' \ sealed : status'[r] = "succeeded" /\ marker.promotion = r]_vars

\* Wherever a run or a recovery is cut off, the next recovery can tell what
\* happened.
RecoveryIsUnambiguous == journal # None => ~Ambiguous

\* A promotion does not stay in doubt: its journal is archived, unless it
\* committed in a worker that failed or is known to have been killed.
JournalResolves ==
  []<>(journal = None \/ (Committed /\ (status[journal.run] = "failed" \/ ~service)))

\* The canonical tree as recovery would leave it.
Before == IF Aside THEN backup[journal.run] ELSE IF Staged THEN output ELSE None
Resolved == IF journal = None \/ Committed THEN output ELSE Before

Atomic == INSTANCE AtomicPromotion WITH
  Tree <- Run,
  canonical <- Resolved,
  exposed <- IF marker = None THEN None ELSE marker.tree,
  kept <- (({backup[r] : r \in Run} \cup {Resolved}) \ {None})

\* Files and database change as one.
ImplementsAtomic == Atomic!Spec
=============================================================================
