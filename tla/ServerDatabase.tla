--------------------------- MODULE ServerDatabase ---------------------------
(***************************************************************************)
(* The one DuckDB file of the server that runs the lexical baseline, from  *)
(* the upload to the load of the lexical tables.  Its passage views are    *)
(* bound to the paths of another machine; cloud/bootstrap_ubuntu.sh has    *)
(* them rebound in place (segment/storage.py), which changes the hash the  *)
(* transfer manifest records.  An intent before the change, a receipt      *)
(* after it and an index over both are what lets every later script tell   *)
(* a rebound database from a damaged one.                                  *)
(*                                                                         *)
(* Bootstraps may overlap: the script takes no lock.  A shell or the       *)
(* worker may die between any two steps, and the machine may lose power,   *)
(* which also takes the files nothing has written back yet: neither the    *)
(* Python writers nor the scripts sync them.                               *)
(***************************************************************************)
EXTENDS Naturals, JqAlternative

CONSTANTS
  Shell,       \* bootstraps that may run
  Plain,       \* the receipt passage-view-rebind.json
  Stamped,     \* receipts with a time stamp in their name
  None,        \* no file, no transaction, no owner
  MaxSerial,   \* bound on the contents the database file takes
  MaxDeaths,   \* bound on deaths of shells, worker and machine, and on failed rebinds
  MaxOutages,  \* bound on power failures
  MaxLoads     \* bound on other commands that load views of theirs

Receipt == {Plain} \cup Stamped
Views == {"transferred", "rebound"}
Catalog == [views : Views, lexical : BOOLEAN]

\* The bytes of the file; nothing else has the same hash.
Bytes == [catalog : Catalog, serial : 0 .. MaxSerial]
Record == [receipt : Receipt, rebound : Bytes]
TransferDatabase == [catalog |-> [views |-> "transferred", lexical |-> FALSE], serial |-> 0]

ASSUME ServerAssumption ==
  /\ Plain \notin Stamped
  /\ None \notin Stamped \cup {Plain} \cup Shell \cup Catalog \cup Bytes \cup Record
  /\ "worker" \notin Shell \cup {None}
  /\ MaxSerial \in Nat /\ MaxDeaths \in Nat /\ MaxOutages \in Nat /\ MaxLoads \in Nat

VARIABLES
  file,       \* the database file
  wal,        \* a committed transaction not yet in the file
  writer,     \* who holds the database open for writing
  serial,     \* the last one used
  intents,    \* receipts whose intent exists
  receipts,   \* receipt -> the after-hash it records
  index,      \* database-rebind.json
  validation, \* bootstrap-validation.json
  contract,   \* /etc/project-echoes/m7.env
  unsynced,   \* files a power failure would take
  pc, chosen, seen,  \* locals of the bootstraps
  worker,     \* the service
  journal,    \* the promotion journal of the lexical output
  canonical,  \* the lexical output is in its canonical place
  launch,     \* what the last launch came to
  deaths, outages, loads,
  concurrent  \* history: a bootstrap was begun while another one was at work

database == <<file, wal, writer, serial>>
evidence == <<intents, receipts, index, validation>>
local == <<pc, chosen, seen>>
service == <<contract, worker, journal, canonical, launch>>
faults == <<deaths, outages, loads, concurrent>>
vars == <<database, evidence, unsynced, local, service, faults>>

Point == {"idle", "transfer", "choose", "check", "recover", "replace", "close", "receipt",
         "verify", "index", "validate"}

\* What a connection sees: the log is replayed over the file.
Seen == IF wal = None THEN file.catalog ELSE wal
Reach(s, step) == pc' = [pc EXCEPT ![s] = step]
Pass(s, step) == Reach(s, step) /\ UNCHANGED <<chosen, seen>>
Exit(s) ==
  /\ Reach(s, "idle")
  /\ chosen' = [chosen EXCEPT ![s] = None] /\ seen' = [seen EXCEPT ![s] = TransferDatabase]

\* Mutant: the original is restored whatever the server has recorded.
UploadAnyway ==
  /\ \A s \in Shell : pc[s] = "idle"
  /\ worker = "stopped"
  /\ file # TransferDatabase
  /\ file' = TransferDatabase
  /\ UNCHANGED <<wal, writer, serial, evidence, unsynced, local, service, faults>>

(***************************************************************************)
(* upload_to_server.ps1: not over a state that has been rebound            *)
(***************************************************************************)
Upload ==
  /\ index = None /\ intents = {}
  /\ \A s \in Shell : pc[s] = "idle"
  /\ worker = "stopped"
  /\ file # TransferDatabase
  /\ file' = TransferDatabase
  /\ UNCHANGED <<wal, writer, serial, evidence, unsynced, local, service, faults>>

\* load_benchmark_duckdb: another command writes views of its own.
OtherLoad ==
  /\ writer = None /\ worker = "stopped"
  /\ loads < MaxLoads /\ loads' = loads + 1
  /\ serial < MaxSerial /\ serial' = serial + 1
  /\ file' = [catalog |-> Seen, serial |-> serial + 1] /\ wal' = None
  /\ UNCHANGED <<writer, evidence, unsynced, local, service, deaths, outages, concurrent>>

(***************************************************************************)
(* bootstrap_ubuntu.sh                                                     *)
(***************************************************************************)

\* Intents the script may recover from: those without a receipt.
Eligible == {r \in intents : receipts[r] = None}
Whole(r) == r \in intents /\ receipts[r] # None

\* Mutant: only the index vouches for a rebound database.
SurveyIndexOnly(s) ==
  /\ pc[s] = "idle" /\ worker = "stopped"
  /\ index # None => Whole(index.receipt) /\ receipts[index.receipt] = index.rebound
  /\ \/ /\ index # None /\ file = index.rebound
        /\ chosen' = [chosen EXCEPT ![s] = index.receipt]
        /\ Reach(s, "transfer")
     \/ /\ file = TransferDatabase
        /\ Reach(s, "transfer") /\ UNCHANGED chosen
     \/ /\ index = None /\ file # TransferDatabase
        /\ \E r \in Eligible :
             /\ Eligible = {r}
             /\ chosen' = [chosen EXCEPT ![s] = r]
        /\ Reach(s, "check")
  /\ concurrent' = (concurrent \/ \E t \in Shell : pc[t] # "idle")
  /\ UNCHANGED <<database, evidence, unsynced, seen, service, deaths, outages, loads>>

\* The receipt that vouches for the database as it is, if one does.
Survey(s) ==
  /\ pc[s] = "idle" /\ worker = "stopped"
  /\ index # None => Whole(index.receipt) /\ receipts[index.receipt] = index.rebound
  /\ \/ /\ index # None /\ file = index.rebound
        /\ chosen' = [chosen EXCEPT ![s] = index.receipt]
        /\ Reach(s, "transfer")
     \/ /\ index = None /\ file = receipts[Plain]
        /\ chosen' = [chosen EXCEPT ![s] = Plain]
        /\ Reach(s, "transfer")
     \/ /\ file # (IF index = None THEN receipts[Plain] ELSE index.rebound)
        /\ file = TransferDatabase
        /\ Reach(s, "transfer") /\ UNCHANGED chosen
     \/ /\ file # (IF index = None THEN receipts[Plain] ELSE index.rebound)
        /\ file # TransferDatabase
        /\ \E r \in Eligible :
             /\ Eligible = {r}
             /\ chosen' = [chosen EXCEPT ![s] = r]
        /\ Reach(s, "check")
  /\ concurrent' = (concurrent \/ \E t \in Shell : pc[t] # "idle")
  /\ UNCHANGED <<database, evidence, unsynced, seen, service, deaths, outages, loads>>

\* verify_transfer.sh, with the receipt when there is one; the transfer holds
\* the staging tree, which a promotion moves away.
Transferred(s) ==
  /\ pc[s] = "transfer"
  /\ IF /\ ~canonical
        /\ IF chosen[s] = None THEN file = TransferDatabase
           ELSE Whole(chosen[s]) /\ file = receipts[chosen[s]]
     THEN Pass(s, IF chosen[s] = None THEN "choose" ELSE "verify")
     ELSE Exit(s)
  /\ UNCHANGED <<database, evidence, unsynced, service, faults>>

\* The plain name, or a new stamped one when the plain receipt is there.
Choose(s) ==
  /\ pc[s] = "choose"
  /\ \/ /\ file = TransferDatabase
        /\ \E r \in Receipt :
             /\ receipts[r] = None
             /\ r = Plain \/ (receipts[Plain] # None /\ r \notin intents)
             /\ chosen' = [chosen EXCEPT ![s] = r]
        /\ Reach(s, "check") /\ UNCHANGED seen
     \/ file # TransferDatabase /\ Exit(s)
  /\ UNCHANGED <<database, evidence, unsynced, service, faults>>

(***************************************************************************)
(* rebind_passage_duckdb_views                                             *)
(***************************************************************************)

\* Mutant: the intent is left to the end, with the receipt.
CheckUnrecorded(s) ==
  /\ pc[s] = "check"
  /\ LET r == chosen[s] IN
     IF receipts[r] # None \/ (r \notin intents /\ file # TransferDatabase)
     THEN Exit(s)
     ELSE /\ seen' = [seen EXCEPT ![s] = file]
          /\ Reach(s, IF file = TransferDatabase THEN "replace" ELSE "recover")
          /\ UNCHANGED chosen
  /\ UNCHANGED <<database, evidence, unsynced, service, faults>>

\* An intent is written only for the database of the transfer; one that is
\* there lets a database that has changed be recognised instead.
Check(s) ==
  /\ pc[s] = "check"
  /\ LET r == chosen[s] IN
     IF receipts[r] # None \/ (r \notin intents /\ file # TransferDatabase)
     THEN Exit(s) /\ UNCHANGED <<intents, unsynced>>
     ELSE /\ intents' = intents \cup {r}
          /\ unsynced' = IF r \in intents THEN unsynced ELSE unsynced \cup {<<"intent", r>>}
          /\ seen' = [seen EXCEPT ![s] = file]
          /\ Reach(s, IF file = TransferDatabase THEN "replace" ELSE "recover")
          /\ UNCHANGED chosen
  /\ UNCHANGED <<database, receipts, index, validation, service, faults>>

Put(r, content) ==
  /\ receipts' = [receipts EXCEPT ![r] = content]
  /\ unsynced' = unsynced \cup {<<"receipt", r>>}

\* Mutant: any database that has changed since its intent is taken for rebound.
RecoverUnread(s) ==
  /\ pc[s] = "recover"
  /\ IF writer = None /\ receipts[chosen[s]] = None
     THEN Put(chosen[s], seen[s]) /\ Pass(s, "transfer")
     ELSE Exit(s) /\ UNCHANGED <<receipts, unsynced>>
  /\ UNCHANGED <<database, intents, index, validation, service, faults>>

\* Only the views are read, and the hash taken before is what is recorded.
Recover(s) ==
  /\ pc[s] = "recover"
  /\ IF writer = None /\ Seen.views = "rebound" /\ receipts[chosen[s]] = None
     THEN Put(chosen[s], seen[s]) /\ Pass(s, "transfer")
     ELSE Exit(s) /\ UNCHANGED <<receipts, unsynced>>
  /\ UNCHANGED <<database, intents, index, validation, service, faults>>

\* One transaction drops, creates and verifies the views, then commits; the
\* database is opened by one writer only.
Replace(s) ==
  /\ pc[s] = "replace"
  /\ IF writer = None
     THEN wal' = [Seen EXCEPT !.views = "rebound"] /\ writer' = s /\ Pass(s, "close")
     ELSE Exit(s) /\ UNCHANGED <<wal, writer>>
  /\ UNCHANGED <<file, serial, evidence, unsynced, service, faults>>

\* It may also fail, and roll back.
ReplaceFails(s) ==
  /\ pc[s] = "replace"
  /\ deaths < MaxDeaths /\ deaths' = deaths + 1
  /\ Exit(s)
  /\ UNCHANGED <<database, evidence, unsynced, service, outages, loads, concurrent>>

\* Closing the last connection writes the log into the file.
Checkpoint ==
  /\ serial < MaxSerial
  /\ serial' = serial + 1
  /\ file' = [catalog |-> wal, serial |-> serial + 1]
  /\ wal' = None /\ writer' = None

Close(s) ==
  /\ pc[s] = "close" /\ Checkpoint
  /\ Pass(s, "receipt")
  /\ UNCHANGED <<evidence, unsynced, service, faults>>

WriteReceipt(s) ==
  /\ pc[s] = "receipt"
  /\ IF receipts[chosen[s]] = None
     THEN Put(chosen[s], file) /\ Pass(s, "verify")
     ELSE Exit(s) /\ UNCHANGED <<receipts, unsynced>>
  /\ UNCHANGED <<database, intents, index, validation, service, faults>>

(***************************************************************************)
(* verify_passage_view_rebind_receipt, and the records of the bootstrap    *)
(***************************************************************************)
Verifies(r) ==
  /\ Whole(r) /\ file = receipts[r]
  /\ writer = None /\ Seen.views = "rebound"

Verify(s) ==
  /\ pc[s] = "verify"
  /\ IF Verifies(chosen[s]) THEN Pass(s, "index") ELSE Exit(s)
  /\ UNCHANGED <<database, evidence, unsynced, service, faults>>

WriteIndex(s) ==
  /\ pc[s] = "index"
  /\ IF Whole(chosen[s]) /\ file = receipts[chosen[s]]
     THEN LET new == [receipt |-> chosen[s], rebound |-> file] IN
          /\ index' = new
          /\ unsynced' = IF index = new THEN unsynced ELSE unsynced \cup {<<"index", None>>}
          /\ Pass(s, "validate")
     ELSE Exit(s) /\ UNCHANGED <<index, unsynced>>
  /\ UNCHANGED <<database, intents, receipts, validation, service, faults>>

Validate(s) ==
  /\ pc[s] = "validate"
  /\ validation' = [receipt |-> chosen[s], rebound |-> receipts[chosen[s]]]
  /\ unsynced' = unsynced \cup {<<"validation", None>>}
  /\ Exit(s)
  /\ UNCHANGED <<database, intents, receipts, index, service, faults>>

(***************************************************************************)
(* install_echoes_service.sh, cloud_start.sh and the worker it installs    *)
(***************************************************************************)
Install ==
  /\ worker = "stopped" /\ validation # None /\ ~canonical
  /\ Verifies(validation.receipt) /\ file = validation.rebound
  /\ contract' = validation
  /\ UNCHANGED <<database, evidence, unsynced, local, worker, journal, canonical, launch, faults>>

\* Mutant: a journal always means that the output goes back to staging.
VerdictUnread == IF journal THEN "restored" ELSE IF canonical THEN "committed" ELSE "no_journal"

\* recover-lexical-promotion: the output stays when the database has the
\* tables, and a journaled one goes back to staging when it has not.
Verdict ==
  CASE journal -> IF canonical /\ Seen.lexical THEN "committed" ELSE "restored"
    [] OTHER   -> IF canonical THEN "committed" ELSE "no_journal"

\* The receipt is verified first, then the promotion is recovered, and only
\* an output that is not in place lets the service start.
Launch ==
  /\ contract # None /\ worker = "stopped"
  /\ IF validation = contract /\ Verifies(contract.receipt) /\ file = contract.rebound
     THEN /\ launch' = Verdict
          /\ worker' = IF Verdict = "committed" THEN "stopped" ELSE "starting"
          /\ canonical' = (canonical /\ Verdict # "restored")
          /\ journal' = (journal /\ Verdict # "restored")
     ELSE launch' = "refused" /\ UNCHANGED <<worker, canonical, journal>>
  /\ UNCHANGED <<database, evidence, unsynced, local, contract, faults>>

\* The installed worker compares the hash once more, and authenticates what the
\* last launch recovered: its receipt must say that no journal was left.
Enter ==
  /\ worker = "starting"
  /\ worker' = IF /\ Whole(contract.receipt) /\ file = contract.rebound
                  /\ ~journal /\ ~canonical
                  /\ ~OrTrue(launch = "committed")
               THEN "running" ELSE "stopped"
  /\ UNCHANGED <<database, evidence, unsynced, local, contract, journal, canonical, launch, faults>>

\* The run takes hours, so the files before it have long been written back.
Promote ==
  /\ worker = "running" /\ unsynced = {}
  /\ journal' = TRUE /\ canonical' = TRUE
  /\ worker' = "promoted"
  /\ UNCHANGED <<database, evidence, unsynced, local, contract, launch, faults>>

\* load_lexical_duckdb
Load ==
  /\ worker = "promoted"
  /\ IF writer = None
     THEN /\ wal' = [Seen EXCEPT !.lexical = TRUE] /\ writer' = "worker"
          /\ worker' = "loading"
     ELSE worker' = "stopped" /\ UNCHANGED <<wal, writer>>
  /\ UNCHANGED <<file, serial, evidence, unsynced, local, contract, journal, canonical, launch,
                 faults>>

CloseLoaded ==
  /\ worker = "loading" /\ Checkpoint
  /\ worker' = "loaded"
  /\ UNCHANGED <<evidence, unsynced, local, contract, journal, canonical, launch, faults>>

\* The journal is archived once the execution record says succeeded.
Seal ==
  /\ worker = "loaded"
  /\ journal' = FALSE /\ worker' = "stopped"
  /\ UNCHANGED <<database, evidence, unsynced, local, contract, canonical, launch, faults>>

(***************************************************************************)
(* Faults                                                                  *)
(***************************************************************************)
ShellDies(s) ==
  /\ pc[s] # "idle"
  /\ deaths < MaxDeaths /\ deaths' = deaths + 1
  /\ Exit(s)
  /\ writer' = IF writer = s THEN None ELSE writer
  /\ UNCHANGED <<file, wal, serial, evidence, unsynced, service, outages, loads, concurrent>>

WorkerDies ==
  /\ worker # "stopped"
  /\ deaths < MaxDeaths /\ deaths' = deaths + 1
  /\ worker' = "stopped"
  /\ writer' = IF writer = "worker" THEN None ELSE writer
  /\ UNCHANGED <<file, wal, serial, evidence, unsynced, local, contract, journal, canonical,
                 launch, outages, loads, concurrent>>

WriteBack ==
  /\ unsynced # {} /\ unsynced' = {}
  /\ UNCHANGED <<database, evidence, local, service, faults>>

\* DuckDB syncs its log and its file; of the rest, what nothing has written
\* back may be gone.
PowerFails ==
  /\ outages < MaxOutages /\ outages' = outages + 1
  /\ deaths < MaxDeaths /\ deaths' = deaths + 1
  /\ \E lost \in SUBSET unsynced :
       /\ intents' = {r \in intents : <<"intent", r>> \notin lost}
       /\ receipts' = [r \in Receipt |-> IF <<"receipt", r>> \in lost THEN None ELSE receipts[r]]
       /\ index' = IF <<"index", None>> \in lost THEN None ELSE index
       /\ validation' = IF <<"validation", None>> \in lost THEN None ELSE validation
  /\ unsynced' = {}
  /\ pc' = [s \in Shell |-> "idle"] /\ chosen' = [s \in Shell |-> None]
  /\ seen' = [s \in Shell |-> TransferDatabase]
  /\ worker' = "stopped" /\ writer' = None
  /\ UNCHANGED <<file, wal, serial, contract, journal, canonical, launch, loads, concurrent>>

ServerInit ==
  /\ file = TransferDatabase /\ wal = None /\ writer = None /\ serial = 0
  /\ intents = {} /\ receipts = [r \in Receipt |-> None] /\ index = None /\ validation = None
  /\ contract = None /\ unsynced = {}
  /\ pc = [s \in Shell |-> "idle"] /\ chosen = [s \in Shell |-> None]
  /\ seen = [s \in Shell |-> TransferDatabase]
  /\ worker = "stopped" /\ journal = FALSE /\ canonical = FALSE /\ launch = "none"
  /\ deaths = 0 /\ outages = 0 /\ loads = 0 /\ concurrent = FALSE

BootstrapStep(s) ==
  \/ Survey(s) \/ Transferred(s) \/ Choose(s) \/ Check(s) \/ Recover(s) \/ Replace(s)
  \/ Close(s) \/ WriteReceipt(s) \/ Verify(s) \/ WriteIndex(s) \/ Validate(s)
WorkerStep == Enter \/ Promote \/ Load \/ CloseLoaded \/ Seal
ServerNext ==
  \/ \E s \in Shell : BootstrapStep(s) \/ ReplaceFails(s) \/ ShellDies(s)
  \/ Upload \/ OtherLoad \/ Install \/ Launch \/ WorkerStep \/ WorkerDies \/ WriteBack \/ PowerFails

ServerSpec == ServerInit /\ [][ServerNext]_vars

FairSpec == ServerSpec /\ \A s \in Shell : WF_vars(BootstrapStep(s))

(***************************************************************************)
(* Properties                                                              *)
(***************************************************************************)
ServerTypeOK ==
  /\ file \in Bytes /\ wal \in Catalog \cup {None}
  /\ writer \in Shell \cup {None, "worker"} /\ serial \in 0 .. MaxSerial
  /\ intents \subseteq Receipt /\ receipts \in [Receipt -> Bytes \cup {None}]
  /\ index \in Record \cup {None} /\ validation \in Record \cup {None}
  /\ contract \in Record \cup {None}
  /\ pc \in [Shell -> Point] /\ chosen \in [Shell -> Receipt \cup {None}]
  /\ seen \in [Shell -> Bytes]
  /\ worker \in {"stopped", "starting", "running", "promoted", "loading", "loaded"}
  /\ journal \in BOOLEAN /\ canonical \in BOOLEAN /\ concurrent \in BOOLEAN
  /\ launch \in {"none", "refused", "no_journal", "restored", "committed"}

\* The installed worker compares hashes and reads no view.  That is enough: a
\* database that has the hash of a receipt, or of a record made from one, has
\* rebound views, although a recovery records the hash it took before it read
\* them, other bootstraps and commands write meanwhile, and a log may still
\* have to be replayed.
HashIsEnough ==
  /\ \A r \in Receipt : receipts[r] # None /\ file = receipts[r] => Seen.views = "rebound"
  /\ \A record \in {index, validation, contract} :
       record # None /\ file = record.rebound => Seen.views = "rebound"

\* A worker is started, and begins, only on a database with rebound views and
\* without the lexical tables, also when an earlier worker died with its load
\* committed to the log only, which leaves the hash as it was.
WorkerFindsItsDatabase ==
  worker \in {"starting", "running"} => Seen.views = "rebound" /\ ~Seen.lexical

\* Bootstraps came one after the other, and no other command wrote.
Alone == ~concurrent /\ loads = 0 /\ outages = 0

\* Once a service is installed, nothing but its worker changes the database:
\* no bootstrap that is run again, wherever the one before was cut off, and no
\* upload.
RebindIsOnce == Alone /\ contract # None /\ ~Seen.lexical => file = contract.rebound

\* "Durable proof that the original transfer hash passed before mutation"
\* (storage.py:199): a rebound database has an intent, whatever dies between
\* the records and the commits of the bootstraps, that overlap or not.  A power
\* failure may take the intent and leave what DuckDB has synced.
IntentIsDurable == outages = 0 /\ file.catalog.views = "rebound" => intents # {}

\* The two together: whatever dies in whatever bootstrap, the database is
\* rebound with a record of it, and by bootstraps that run alone only once.
RebindIsRecordedOnce == IntentIsDurable /\ RebindIsOnce

\* A bootstrap that is run again after every interruption passes, wherever it
\* was interrupted.
EventuallyValidated == []Alone => <>(validation # None)

\* "Every preflight writes an immutable recovery receipt that the worker
\* authenticates" (cloud/README.md:213): a worker that a launch has started is
\* turned away at its entry only when it dies or what it compares has changed
\* since.  It is turned away always: jq reads the journal_after_exists of its
\* receipt, which is false, as true.
Admitted == Whole(contract.receipt) /\ file = contract.rebound /\ ~journal /\ ~canonical
AdmittedWorkerEnters ==
  [][worker = "starting" /\ Admitted /\ worker' = "stopped" => deaths' # deaths]_vars
=============================================================================
