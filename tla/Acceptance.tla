----------------------------- MODULE Acceptance -----------------------------
(***************************************************************************)
(* From the launches of the lexical worker to the package an operator      *)
(* downloads: cloud/cloud_start.sh, cloud_validate.sh, package_results.sh. *)
(*                                                                         *)
(* A launch recovers an interrupted promotion, writes a receipt of what it *)
(* found, and starts the worker if nothing is committed.  A validation     *)
(* checks what the worker left; where the worker died after its commit it  *)
(* also makes its execution a success and seals the promotion journal.  It *)
(* leaves a receipt, without which nothing is packaged.                    *)
(*                                                                         *)
(* Validations and packagings are transient units.  A submission reads the *)
(* unit named last and writes its own name later, and a unit that systemd  *)
(* has not started yet does not count as active: they may overlap.  A      *)
(* launch looks at the worker alone, so it may come at any time beside     *)
(* them.  Everything may die; the machine may be restarted, after which    *)
(* systemd knows nothing of the worker and says Result=success.            *)
(*                                                                         *)
(* What a worker leaves is taken from LexicalPromotion, and what a launch  *)
(* verifies first, that the bytes of the database are those of the rebind  *)
(* receipt, from ServerDatabase.  The promotion is the one the journal     *)
(* names; one operator launches at a time.                                 *)
(***************************************************************************)
EXTENDS Naturals, JqAlternative

CONSTANTS
  Validation,  \* submissions of cloud_validate.sh
  Packaging,   \* submissions of package_results.sh
  Unwritten,   \* no receipt, no unit
  MaxDeaths    \* bound on deaths and restarts, and on spurious failures

Task == Validation \cup Packaging

\* The promotion: none, journaled, committed to the database as well, or
\* committed with its journal archived.
Promotion == {"none", "open", "committed", "sealed"}
Execution == {"none", "running", "failed", "succeeded"}

RecoveryReceipt ==
  [passed : BOOLEAN, state : {"no_journal", "staging_restored", "canonical_committed"},
   before : BOOLEAN, after : BOOLEAN, execution : Execution]
Finalization == [required : BOOLEAN, passed : BOOLEAN]

ASSUME AcceptanceAssumption ==
  /\ Validation \cap Packaging = {} /\ Unwritten \notin Task
  /\ Unwritten \notin RecoveryReceipt \cup Finalization \cup BOOLEAN
  /\ MaxDeaths \in Nat

VARIABLES
  promotion,     \* journal, canonical directory and marker
  execution,     \* execution_status of the last execution
  altered,       \* the database has not the bytes that a launch verifies
  unit,          \* the worker; "failed" also stands for Result # success
  tornCopy,      \* a copy of the journal in the state directory is truncated
  recovery,      \* latest-promotion-recovery.json
  finalization,  \* latest-promotion-finalization.json
  acceptance,    \* latest-validation.json: whether it says passed
  named,         \* the last validation and the last packaging submitted
  launcher,      \* the launch that goes on
  doing,         \* Task -> where it is
  notes,         \* Task -> what it has found
  hasty,         \* history, of tasks that follow each other without a pause: one was
                 \* submitted beside another that was not running yet
  deaths

output == <<promotion, execution>>
server == <<altered, unit, tornCopy>>
documents == <<recovery, finalization, acceptance>>
tasks == <<named, doing, notes, hasty>>
acceptanceVars == <<output, server, documents, tasks, launcher, deaths>>

NoDeath == UNCHANGED deaths
Death == deaths < MaxDeaths /\ deaths' = deaths + 1

JournalActive == promotion \in {"open", "committed"}

-----------------------------------------------------------------------------
(***************************************************************************)
(* cloud_start.sh and the worker                                           *)
(***************************************************************************)
NoLaunch == [step |-> "idle", before |-> FALSE, state |-> "no_journal"]

LaunchBegins ==
  /\ launcher.step = "idle" /\ unit # "active" /\ ~altered
  /\ launcher' = [NoLaunch EXCEPT !.step = IF JournalActive THEN "copy" ELSE "recover",
                                  !.before = JournalActive]
  /\ UNCHANGED <<output, server, documents, tasks>> /\ NoDeath

\* The journal is copied; one that is gone by now ends the launch.
CopyJournal ==
  /\ launcher.step = "copy"
  /\ launcher' = IF JournalActive THEN [launcher EXCEPT !.step = "recover"] ELSE NoLaunch
  /\ UNCHANGED <<output, server, documents, tasks>> /\ NoDeath

Found ==
  CASE promotion = "none" -> "no_journal"
    [] promotion = "open" -> "staging_restored"
    [] OTHER -> "canonical_committed"

RecoverPromotion ==
  /\ launcher.step = "recover"
  /\ launcher' = [launcher EXCEPT !.step = "receipt", !.state = Found]
  /\ promotion' = IF promotion = "open" THEN "none" ELSE promotion
  /\ UNCHANGED <<execution, server, documents, tasks>> /\ NoDeath

\* Mutant: only an active journal witnesses a commit.
ConsistentActiveOnly(before, after, state) ==
  \/ ~after /\ before = (state = "staging_restored") /\ state # "canonical_committed"
  \/ before /\ after /\ state = "canonical_committed"

\* What the journal was before, what it is after and what the command says; an
\* archived journal is a witness beside a successful execution only.
Consistent(before, after, state) ==
  \/ ~before /\ ~after /\ state = "no_journal"
  \/ before /\ ~after /\ state = "staging_restored"
  \/ before /\ after /\ state = "canonical_committed"
  \/ ~before /\ ~after /\ state = "canonical_committed" /\ execution = "succeeded"

\* The receipt, and the worker unless something is committed; at its entry the
\* worker reads in the receipt that no journal was left.
WriteRecovery ==
  /\ launcher.step = "receipt"
  /\ LET passed == Consistent(launcher.before, JournalActive, launcher.state)
         start == passed /\ launcher.state # "canonical_committed" /\ promotion = "none"
         enters == start /\ ~OrTrue(JournalActive)
     IN /\ recovery' = [passed |-> passed, state |-> launcher.state, execution |-> execution,
                        before |-> launcher.before, after |-> JournalActive]
        /\ unit' = IF enters THEN "active" ELSE IF start THEN "failed" ELSE unit
        /\ execution' = IF enters THEN "running" ELSE execution
  /\ launcher' = NoLaunch
  /\ UNCHANGED <<promotion, altered, tornCopy, finalization, acceptance, tasks>>
  /\ NoDeath

LaunchStep == CopyJournal \/ RecoverPromotion \/ WriteRecovery

WorkerSucceeds ==
  /\ unit = "active"
  /\ unit' = "inactive" /\ promotion' = "sealed" /\ execution' = "succeeded" /\ altered' = TRUE
  /\ UNCHANGED <<tornCopy, documents, tasks, launcher>> /\ NoDeath

\* What a worker leaves that is killed (running, succeeded) or that raises (failed):
\* the load reaches the file when the database is closed, after its commit.
Left ==
  {<<"none", "running", FALSE>>, <<"none", "failed", FALSE>>, <<"open", "running", FALSE>>,
   <<"committed", "running", FALSE>>, <<"committed", "running", TRUE>>,
   <<"committed", "failed", TRUE>>, <<"committed", "succeeded", TRUE>>,
   <<"sealed", "succeeded", TRUE>>}

WorkerFails ==
  /\ unit = "active" /\ Death
  /\ unit' = "failed"
  /\ \E left \in Left :
       promotion' = left[1] /\ execution' = left[2] /\ altered' = left[3]
  /\ UNCHANGED <<tornCopy, documents, tasks, launcher>>

-----------------------------------------------------------------------------
(***************************************************************************)
(* Submission                                                              *)
(***************************************************************************)
Asleep == {"idle", "submitted", "queued"}
NoNotes == [required |-> FALSE, lexical |-> FALSE, finalized |-> FALSE, audited |-> FALSE]

\* Its locals end with the script.
Goes(t, step, found) ==
  /\ doing' = [doing EXCEPT ![t] = step]
  /\ notes' = [notes EXCEPT ![t] = IF step = "idle" THEN NoNotes ELSE found]
  /\ hasty' = (hasty /\ \E u \in Task : doing'[u] # "idle")

To(t, step) == Goes(t, step, notes[t])

\* authenticated_committed_recovery
Authenticated ==
  /\ recovery # Unwritten /\ recovery.passed /\ recovery.state = "canonical_committed"
  /\ recovery.before /\ recovery.after /\ recovery.execution = execution

\* require_resolved_or_committed_promotion
Resolved == JournalActive => Authenticated

\* What is checked at the submission of a task and again when it begins.
Admits(t) ==
  /\ unit = "inactive"
  /\ t \in Validation => Resolved
  /\ t \in Packaging =>
       /\ ~JournalActive /\ acceptance = TRUE
       /\ ~OrTrue(FALSE)  \* journal_exists in a receipt that says passed

\* Mutant: the task of the other kind is not looked at.
SubmitByKind(t) ==
  /\ doing[t] = "idle" /\ Admits(t)
  /\ LET u == IF t \in Validation THEN named.validation ELSE named.packaging
     IN u # Unwritten => doing[u] \in Asleep
  /\ doing' = [doing EXCEPT ![t] = "submitted"]
  /\ hasty' = (hasty \/ \E u \in Task : doing[u] \in {"submitted", "queued"})
  /\ UNCHANGED <<output, server, documents, named, notes, launcher>> /\ NoDeath

Submit(t) ==
  /\ doing[t] = "idle" /\ Admits(t)
  /\ \A u \in {named.validation, named.packaging} \ {Unwritten} : doing[u] \in Asleep
  /\ doing' = [doing EXCEPT ![t] = "submitted"]
  /\ hasty' = (hasty \/ \E u \in Task : doing[u] \in {"submitted", "queued"})
  /\ UNCHANGED <<output, server, documents, named, notes, launcher>> /\ NoDeath

Enqueue(t) ==
  /\ doing[t] = "submitted"
  /\ named' = IF t \in Validation THEN [named EXCEPT !.validation = t]
                                  ELSE [named EXCEPT !.packaging = t]
  /\ To(t, "queued")
  /\ UNCHANGED <<output, server, documents, launcher>> /\ NoDeath

Begin(t) ==
  /\ doing[t] = "queued"
  /\ Goes(t, IF ~Admits(t) \/ promotion = "none" THEN "idle"
             ELSE IF t \in Validation THEN "lexical" ELSE "collect",
          [NoNotes EXCEPT !.required = t \in Validation /\ JournalActive])
  /\ UNCHANGED <<output, server, documents, named, launcher>> /\ NoDeath

-----------------------------------------------------------------------------
(***************************************************************************)
(* cloud_validate.sh                                                       *)
(***************************************************************************)

\* validate-lexical --all --strict.  A journal that is gone when it is hashed
\* ends the script, which leaves no receipt.
Lexical(t) ==
  /\ doing[t] = "lexical"
  /\ \E passed \in BOOLEAN :
       /\ IF passed THEN NoDeath ELSE Death
       /\ Goes(t, IF ~notes[t].required THEN "note"
                  ELSE IF ~JournalActive THEN "idle"
                  ELSE IF passed THEN "amend" ELSE "note",
               [notes[t] EXCEPT !.lexical = passed, !.finalized = ~notes[t].required])
  /\ UNCHANGED <<output, server, documents, named, launcher>>

\* finalize-lexical-promotion-recovery: the execution, then the journal.
Amend(t) ==
  /\ doing[t] = "amend"
  /\ IF execution = "failed"
       THEN To(t, "note") /\ UNCHANGED execution
       ELSE To(t, "seal") /\ execution' = "succeeded"
  /\ UNCHANGED <<promotion, server, documents, named, launcher>> /\ NoDeath

Seal(t) ==
  /\ doing[t] = "seal"
  /\ promotion' = "sealed"
  /\ Goes(t, "note", [notes[t] EXCEPT !.finalized = TRUE])
  /\ UNCHANGED <<execution, server, documents, named, launcher>> /\ NoDeath

Note(t) ==
  /\ doing[t] = "note"
  /\ finalization' = [required |-> notes[t].required, passed |-> notes[t].finalized]
  /\ To(t, "audit")
  /\ UNCHANGED <<output, server, recovery, acceptance, named, launcher>>
  /\ NoDeath

\* How the last recovery and the last finalization may witness the commit: the
\* journal it saw was sealed since, or was sealed before.  (One that is still
\* active fails for want of an archived one.)
Finalized == /\ recovery.before /\ recovery.after
             /\ finalization.required /\ finalization.passed
Archived == ~recovery.before /\ ~recovery.after /\ ~finalization.required

\* Every journal, and every copy of one, is read.
JournalsReadable == ~tornCopy

\* The marker in the database names one journal in the archive and its execution.
OneSealedCommit == promotion = "sealed" /\ execution = "succeeded"

\* The structural audit of receipts, journals and database.
Audit ==
  /\ recovery # Unwritten /\ recovery.passed
  /\ finalization.required => finalization.passed
  /\ IF recovery.state = "canonical_committed"
       THEN /\ Finalized \/ Archived
            /\ \/ recovery.execution = execution
               \/ Finalized /\ recovery.execution \in {"running", "succeeded"}
       ELSE ~recovery.after
  /\ JournalsReadable /\ OneSealedCommit

AuditReceipts(t) ==
  /\ doing[t] = "audit"
  /\ Goes(t, "conclude", [notes[t] EXCEPT !.audited = Audit])
  /\ UNCHANGED <<output, server, documents, named, launcher>> /\ NoDeath

Conclude(t) ==
  /\ doing[t] = "conclude"
  /\ acceptance' = (/\ notes[t].audited /\ notes[t].lexical /\ notes[t].finalized
                    /\ unit = "inactive")
  /\ To(t, "idle")
  /\ UNCHANGED <<output, server, recovery, finalization, named, launcher>>
  /\ NoDeath

-----------------------------------------------------------------------------
(***************************************************************************)
(* package_results.sh                                                      *)
(***************************************************************************)

\* The receipt is read again for the copy; every journal must be one it lists.
Collect(t) ==
  /\ doing[t] = "collect"
  /\ Goes(t, IF JournalsReadable THEN "point" ELSE "idle",
          [notes[t] EXCEPT !.audited = (acceptance = TRUE)])
  /\ UNCHANGED <<output, server, documents, named, launcher>> /\ NoDeath

\* The archive and the manifest are written, and the pointers name them.
PointAt(t) ==
  /\ doing[t] = "point"
  /\ To(t, "idle")
  /\ UNCHANGED <<output, server, documents, named, launcher>> /\ NoDeath

TaskStep(t) ==
  \/ Enqueue(t) \/ Begin(t)
  \/ Lexical(t) \/ Amend(t) \/ Seal(t) \/ Note(t) \/ AuditReceipts(t) \/ Conclude(t)
  \/ Collect(t) \/ PointAt(t)

-----------------------------------------------------------------------------
(***************************************************************************)
(* Faults                                                                  *)
(***************************************************************************)
TaskDies(t) ==
  /\ doing[t] # "idle" /\ Death
  /\ To(t, "idle")
  /\ UNCHANGED <<output, server, documents, named, launcher>>

\* A copy that is cut short stays as it is.
CopyCut == launcher.step = "copy"

LauncherDies ==
  /\ launcher.step # "idle" /\ Death
  /\ launcher' = NoLaunch
  /\ tornCopy' \in {tornCopy, tornCopy \/ CopyCut}
  /\ UNCHANGED <<output, altered, unit, documents, tasks>>

\* A worker the restart ends is one that failed before it; one that ends nothing
\* else only makes systemd forget, and is not counted.
ServerRestarts ==
  /\ unit # "active"
  /\ IF launcher = NoLaunch /\ \A t \in Task : doing[t] = "idle" THEN NoDeath ELSE Death
  /\ unit' = "inactive"
  /\ doing' = [t \in Task |-> "idle"] /\ notes' = [t \in Task |-> NoNotes]
  /\ hasty' = FALSE /\ launcher' = NoLaunch
  /\ tornCopy' \in {tornCopy, tornCopy \/ CopyCut}
  /\ UNCHANGED <<output, altered, documents, named>>

AcceptanceInit ==
  /\ promotion = "none" /\ execution = "none" /\ unit = "inactive"
  /\ altered = FALSE /\ tornCopy = FALSE
  /\ recovery = Unwritten /\ finalization = Unwritten /\ acceptance = Unwritten
  /\ named = [validation |-> Unwritten, packaging |-> Unwritten]
  /\ launcher = NoLaunch
  /\ doing = [t \in Task |-> "idle"] /\ notes = [t \in Task |-> NoNotes]
  /\ hasty = FALSE /\ deaths = 0

WorkerEnds == WorkerSucceeds \/ WorkerFails
ValidateAgain == \E t \in Validation : Submit(t)

AcceptanceNext ==
  \/ LaunchBegins \/ LaunchStep \/ WorkerEnds
  \/ \E t \in Task : Submit(t) \/ TaskStep(t) \/ TaskDies(t)
  \/ LauncherDies \/ ServerRestarts

AcceptanceSpec == AcceptanceInit /\ [][AcceptanceNext]_acceptanceVars

-----------------------------------------------------------------------------
(***************************************************************************)
(* Properties                                                              *)
(***************************************************************************)

\* The journal is sealed beside a successful execution, and no worker runs.
Sealed == OneSealedCommit /\ unit = "inactive"

\* Whatever dies, overlaps or is launched in between: a receipt says passed, and
\* a package is named, only for a sealed promotion, and no worker is started
\* after that.  The package carries a receipt that says passed, unless a task
\* was submitted beside another one that was not running yet.
AcceptanceIsEarned ==
  /\ acceptance = TRUE => Sealed
  /\ \A t \in Packaging : doing[t] = "point" => Sealed /\ (notes[t].audited \/ hasty)

\* A committed result, of a worker that ended well or that a restart made systemd
\* forget.  Where it is not sealed, a launch must still be possible.
Acceptable ==
  /\ promotion \in {"committed", "sealed"} /\ unit = "inactive" /\ ~tornCopy
  /\ promotion = "committed" => ~altered

\* It is accepted in the end, whatever validations die between the end of the
\* execution record, the sealing and the receipts, if the operator both launches
\* and validates again; but not once a copy of the journal is cut short.
AcceptedInTheEnd == Acceptable ~> (acceptance = TRUE \/ tornCopy)
=============================================================================
