# Project Echoes: TLA+ models and proofs

Project Echoes computes a one-shot "final discovery" campaign over biblical
texts: hours of numerical work cut into eleven stages, whose results must survive
crashes, relaunches on other machines, and transfers to an object store, and
must be provably the results of the code and inputs they claim. Before it come
builds of corpora, segments, benchmarks and lexical rankings, each of which
replaces a directory of artifacts. The numerics are functions of their input.
What is hard to test is what holds them together: the stage store, the
transfers, the walk of the campaign worker, the window in which a rented machine
may run, the import of results computed by earlier code, the resumption and
promotion of the lexical run, the database its server rebinds in place, the
acceptance of its results, the replacement of directories, the rules
that keep test data out of training data, and the ranking of candidates in
several passes that never see the whole. These are what the modules here model.

Paths below are relative to the repository (`src/` in `PROJECT.json` stands for
the repository root).

## 1. Inventory

| Component | State | Operations | Modelled by |
| --- | --- | --- | --- |
| Stage store (`final_discovery/stages.py`) | per stage: `in-progress/`, `completed-attempts/`, `failures/`, `completion.json` | `run_stage`, `record_interrupted_attempts`, authentication of a completion and of all upstream ones | `StageStore`, `StageLedger` |
| Object trees (`final_discovery/inputs.py`) | the objects under one prefix | `resume_or_upload_and_verify_tree` over `LocalObjectStore` and `RcloneB2ObjectStore` | `ObjectTree` |
| Campaign worker (`final_discovery/pipeline.py`, `command.py`, `checkpoints.py`) | completions, checkpoint payloads, prefixes and receipts, campaign seal, finalization receipt | `run_final_discovery_campaign`, launch inspection, cleanup gate | `Campaign`, `DurablePipeline` |
| Recovery import (`final_discovery/recovery.py`) | the two input stages of an old and of a new work directory | authenticate, copy, add evidence, publish, check | `RecoveryImport` |
| Launch and recovery window (`cloud/launch_final_discovery*.sh`, `final_discovery_recovery_window.sh`, `scaleway_poweroff_guard.sh`) | ledger, service and timer files, launch intents, the worker unit, the provider's view of the machine | install, launch, expire, power off | `RecoveryWindow` |
| Lexical build (`lexical/pipeline.py`, the writer of `lexical/storage.py`, the Tier 3 checkpoint of `lexical/experiment.py`) | leaves of the staging tree, candidate checkpoint, evaluation batches, spill directories | write or compare a leaf, adopt a tree, rebuild or load a checkpoint, seal | `LexicalResume` |
| Lexical promotion (`lexical/storage.py`, `lexical/pipeline.py`, `manifest.py`, `cli.py`) | staging, canonical and backup directories, promotion journal, commit marker in DuckDB, execution manifest | `run_lexical_pipeline`, `LexicalArtifactWriter.finalize`, `load_lexical_duckdb`, `recover_interrupted_lexical_promotion`, the two recovery commands | `LexicalPromotion`, `AtomicPromotion` |
| Server database (`cloud/bootstrap_ubuntu.sh`, `install_echoes_service.sh`, `cloud_start.sh`, `upload_to_server.ps1`, `verify_transfer.sh`, the rebinding in `segment/storage.py`, the load of `lexical/storage.py`) | the DuckDB file and its log, intents, receipts, index, validation, the service's contract | upload, bootstrap, rebind or recover, install, launch, load | `ServerDatabase` |
| Artifact directories (`corpus/storage.py`, `corpus/greek_storage.py`, `corpus/kq_supplement.py`, `acquire/sources.py`, `lexical/sparse.py`, `segment/storage.py`, `benchmarks/storage.py`, the bundles of `final_discovery/review.py`, `reports/build_week_demo.py`) | output, hidden staging and backup directories | build, promote, roll back, abort | `DirectorySwap` |
| Benchmark leakage (`benchmarks/leakage.py`, `benchmarks/pipeline.py`) | heap of the sweep, groups, partitions | sweep, split, exclusion | `BenchmarkLeakage` |
| Acceptance of the lexical results (`cloud/cloud_start.sh`, `cloud_validate.sh`, `package_results.sh`) | receipts of recovery, finalization and validation, names of the last tasks, copies of the journal | launch, submit, validate, finalize, package | `Acceptance`, `JqAlternative` |
| Ranking of the candidates (`final_discovery/disk_ensemble.py`, the tests of `ensemble.py`, `lexical/statistics.py`, the recomputation in `disk_validation.py`) | p- and q-values, the tiers, chunk files, heap and output | three passes over the ledgers, adjust, keep the best, sort in chunks, merge, validate | `DiskEnsemble` |
| Projection cache, input download, single-file publications | a file each | build, publish, reuse | not yet (section 6) |
| Detectors, nulls, features, scoring, calibration, evaluation | none | numerical functions of frames | not planned as state machines |
| Ingestion, normalization, alignment, settings, CLI, reports | none | parsing and presentation | not planned |

`PROJECT.json` lists every component with its sources and status.

### How they interact

* The campaign calls `run_stage` for every stage; the producer it passes writes
  into the attempt directory. Between two stages only the store carries state.
* After each stage from the second on, the worker hard-links the attempt into a
  checkpoint payload and publishes it with `resume_or_upload_and_verify_tree`
  under a prefix of its own; the last stage publishes the final package the same
  way from inside its producer.
* `command.py` inspects the package prefix before a launch and the last
  checkpoint prefix before a clean-up; both compare it with local directories
  the store has left behind.
* The cloud scripts start that worker as a transient systemd unit of a fixed
  name, within a window that is recorded once; its end, or the window's, powers
  the machine off through the provider.
* The import fills the first two stages of a store with `run_stage` and a
  producer that copies, while the source is whatever is on disk at that time.
* The lexical run is an earlier milestone with the same concerns and a different
  mechanism: a staging tree that attempts resume, then a journal across three
  directories and a database transaction. What the build seals is what the
  promotion moves; neither reads other state of the other. The campaign
  later reads the canonical tree.
* The lexical server receives one database whose views point at paths of another
  machine. The bootstrap has them rebound in place; from then on the installed
  worker, the launcher and every later bootstrap know the database by the hash a
  receipt records. The worker's own load changes that hash; the launcher's
  recovery of an interrupted promotion reads the same database.
* Beside the worker, the same server runs validations and packagings as transient
  units. They know of the promotion what journal, database and execution
  say, of a launch its receipt, and of each other two files that name the last of
  each kind.
* The candidate ranking is made by the producer of one stage of the campaign and judged by
  its validation step; both read ledgers earlier stages have completed.
* The other builds know each other only by the directories they leave.

### What is hard

* **Crashes at every step.** No component has a log that is replayed: each
  decides from which files exist. All safety properties are about every cut.
* **No locks.** The store, the transfers, the imports and the directory builds
  rely on creation, link or rename without replacement. Two runners of one
  stage, two transfers to one prefix, two launches in one second, two builds of
  one directory are possible calls.
* **Decisions on old observations.** Dependency hashes are read hours before
  they are published; the transfer mode is chosen on a first listing; artifacts
  are inventoried once; the time left is measured before the worker is created;
  an import authenticates a source that may change; recovery reads journal,
  directories and marker in turn; a package carries a receipt that was checked
  before and is read again.
* **A checksummed file that is changed on purpose.** The database is verified by
  the hash of the transfer, then rewritten; a committed log may be left beside it, which the
  hash does not see. Intent, receipt and index tell a rebound file from a
  damaged one; none of them is synced, while DuckDB syncs what it writes.
* **Retries of work that is half done.** Partial uploads, records written under
  their final name, attempts that failed, recoveries that are cut off, trees
  filled by several editions of the code.
* **One result in pieces.** The ranking is made in three bounded passes and an
  external merge. A pair dropped, a q-value at the wrong place or a line out of turn
  shows only for some sizes, ties and limits.
* **Liveness under faults.** Whether a relaunch always gets further, or some
  leftover blocks it for good; whether an expired machine is really stopped.

`PROJECT.json` lists each hazard at its line with the properties that cover it,
and those nothing covers yet with the reason.

### What makes each component correct

* Store: one completion per stage, ever; chained to the completions that stand
  upstream; its evidence kept; a returned result is what the producers left,
  or what stood in its place when the inventory was taken;
  earlier attempts are dealt with before a new one; repeated launches complete.
* Transfer: objects are immutable; a receipt is true when written and stays
  true; the reported action is what happened; foreign objects block.
* Campaign: nothing is computed before the previous result is durable; seal,
  receipt and clean-up gate are sound; nothing is undone; launches finish.
* Window: every worker is under the timer and ends with the window; launches do
  not mix; the machine is powered off when due, and only then.
* Import: what is published is what the evidence beside it describes, of one
  run of the old campaign; both stages agree.
* Build: sealed tables follow from one another, whoever wrote them; what a
  checkpoint holds is not lost or mixed; attempts get to the seal.
* Promotion: files and database change as one; recovery can always decide; no
  tree is lost; only sealed results are replaced; failures stay failures.
* Server database: a recorded hash is enough to know the views; a worker finds
  rebound views and no tables of a dead one; a changed database has an intent;
  it is rebound once; an interrupted bootstrap passes when it is run again.
* Acceptance: a receipt says passed, and a package is named, only for a sealed
  promotion; a committed result is accepted in the end.
* Directories: no whole tree is lost; the output comes back; a partly removed
  tree is not shown.
* Leakage: groups are exactly the overlaps; no overlap crosses partitions.
* Ranking: what is published is what the whole population gives; ledgers that
  belong together are not refused; Tier A takes what the step-up procedure rejects.

## 2. Modules

Each module of a component has one action per step between which another
process may look or a crash may fall. `PROJECT.json` ("map") gives the lines
behind every definition. A definition commented "Mutant" is the body a plausible
bug would give to the definition after it; no specification uses it.

### StageStore

Variables: the files (`completion`, `home`/`loc` for the directory of an
attempt, `rec` for `attempt.json`, `art` for its artifacts, `failure`), the locals
of every runner in `run_stage` (`pc`, `job`, `mine`, `seen`, `area`, `todo`, `cur`,
`inv`, `kept` for `preserved_path`, `result`), and four histories (`made`, `early`,
`unnoted`, `erased`).
The stages, their graph, runners, attempt names, requests and contents are
constants; `GraphAssumption` says only that the graph has no cycle.
`Enter`/`Reuse`/`RefuseDependency` are the head of `run_stage`;
`List` to `Recovered` are `record_interrupted_attempts`, one attempt at a time;
`MakeDirectory` to `Confirm` the attempt itself. The return of the producer (`Produce`)
and the inventory (`Inventory`) are two steps, and so are the rename (`Promote`) and
the assignment of `preserved_path` (`NoteMove`), since bytes can change between the
first two and an exception can fall between the others. `HandlerFails` enters the
exception handler and `Preserve` is it; `Crash` takes a runner's memory. `Damage` and `Erase` are
changes from outside, enabled by the constant `Tampering`.
A digest is the identity of what it is taken of. The stage graph in the code
comes from a frozen table in topological order.

`StageLedger` is the promise: a ledger of write-once entries, each made over
the entries that stand upstream. `ImplementsLedger` is the refinement.

### ObjectTree

Variables: the prefix (`prefix`), and for every caller its step (`point`), the
action it will report, the paths still to copy (`queue`), the file it is
writing, what it has added (`put`, a history), its receipt. `Look` chooses
between upload, check and resumption; the adapter looks again and copies object
by object (`CreateFile` and the write of its bytes on the local adapter, one step on
B2); `Compare` and `Download` end the call. Every caller has a tree of its own.
The constant `Backend` selects the local adapter (digests, files written in place and
torn by a crash) or B2 (sizes, whole objects, a check by download), `MayOverlap`
which pairs of callers may be in a call at the same time. On B2 none are: rclone's
behaviour under concurrent writers is not in the repository.

### Campaign

One worker over stages `1..Last`. Of `run_stage` three steps are kept, the attempt
directory, its `attempt.json` and the rest, since a death between the first two is
what stops the stage for good (`bare`, `RefuseBare`); the rest of a stage other than the last is
one step, since it leaves nothing that a later launch cannot get past, as the runs of
`StageStore` show; a prefix is empty, partial or complete, since
`ObjectTree` has its. What is detailed is what happens between them: the disk
floor, skipped stages, the checkpoint payload, transfer and receipt, the upload tree
of the last stage moving with its attempt, validation, the two records written
under their final names, the launch inspection and the clean-up gate.
`DurablePipeline` is the promise: compute in order, make durable before going
on, certify last.

### RecoveryWindow

Variables: the clock, the three files of the window (`file`), whether the timer is
`armed` and has elapsed (`due`), the power-off unit (`request`), the instance as
the provider sees it (`power`), the worker's transient unit, the launch intents,
and the locals of the operators' shells. `Install` to `Enable` are
`final_discovery_recovery_window.sh install`, file by file, each created under
its final name and then filled; `Measure` is every use of `remaining`; `Launch`
to `CreateWorker` are the launcher, which asks for the time twice and names itself by the
second; `Succeed`, `WorkerFails`, `EnforceExpiry`, `EnforceFails` and `PowerOff`
are the units; `Lock`, `Unlock`, `Stop`, `Halt` and `Boot` the provider and the machine.
`Tick` may fall between any two of them.

### RecoveryImport

Variables: the completion files of the source and which of its artifacts are
whole, the completions of the target, and each import's step and what it holds
in memory: the manifests it authenticated (`held`) and the bytes it read
(`bytes`). The steps are those of `recovery.py` in order; `WorkerCompletes`,
`SourceReplaced` and `SourceDamaged` are everyone else. The target keeps what
`StageLedger` promises: an entry is made once. A content is a name: two versions
may produce the same content for a stage.

### LexicalResume

Variables: the leaves of every table (`leaf`), the candidate checkpoint with its
parts and whether it is in quarantine, the evaluation batches, a file without
manifest (`stray`), the metadata leaf, the seal (`hashed`), the spill
directories, and the attempt that runs (`worker`: its edition of the code,
step, part and aggregates). `WriteLeaf` writes a leaf or compares it with the
one that stands; `Resume` is the adoption of an interrupted tree, with the
inventory and the choice between loading the checkpoint and rebuilding it;
`Rebuild` and `Complete` make it again; `WriteBatch` and `Assemble` are the
evaluation; `SetAside` to `Hash` end the build; `Differs`, `RebuildDiffers`, `AttemptFails`
and `AttemptKilled` end an attempt. What is computed is a constant function of edition and
table, so that "the same rows" and "rows that follow from these aggregates" can be
said. `Lost` names the four ways in which no attempt can finish a tree:
it broke off before the last comparison began, within a Tier 3 batch, or after
its metadata was written, or it was overtaken: one edition wrote nulls
from the aggregates it had in memory and died before its checkpoint was
complete, another, with equal rankings but other aggregates, completed the
checkpoint, and every later attempt loads that one and differs from the nulls that stand.

### LexicalPromotion

Variables: `staging`, `output`, `backup` (which tree is where), `journal`,
`marker` (the row in the database), `status`/`bound` (the execution manifests),
`sealed` (archived committed journals), and the one process: `pc`, who called the
recovery, its result, the run and its staging directory, `--force`, and systemd's
result for the worker. A tree is named by the run that sealed it, which stands
for the digest of `table-hashes.json`.
`Launch` to `SealReturns` are `run_lexical_pipeline` with the writer and the
database load; `Unjournaled` to `Seal` are
`recover_interrupted_lexical_promotion`, shared by the launch, the exception
handler, the sealing after success and the commands, and interruptible between
its renames; `Amend` is `finalize_recovered_execution_success`. `Fail` is an
exception at any step, `Kill` ends the process, `Reboot` also makes systemd forget.

`AtomicPromotion` is the promise: canonical tree and views change in one step
and a tree that was canonical is kept. The refinement reads the canonical tree
as recovery would leave it; its `Promote` is the database commit.

### ServerDatabase

Variables: the database as file and committed log (`file`, `wal`), who has it open
for writing, the records (`intents`, `receipts`, `index`, `validation`, `contract`), which of
them nothing has written back (`unsynced`), the locals of every bootstrap, and of
the service its `worker`, the promotion `journal`, whether the output is in place (`canonical`)
and what the last `launch` came to. A content of the file is what its
catalog holds and a serial number, so that a hash is the identity of the bytes and every
write makes new ones.
`Survey` to `Validate` are `bootstrap_ubuntu.sh` with `verify_transfer.sh` and
`rebind_passage_duckdb_views`, cut where another process may look or a death
may fall; `Install`, `Launch` and `Enter` compare the hashes later; `Promote` to
`Seal` are what the worker does to journal, output and database. `Upload` and
`OtherLoad` are the other writers the scripts allow. `ShellDies` and `WorkerDies` leave the log
of a commit behind; `PowerFails` also takes any of the unsynced records.

### Acceptance

Variables: the promotion and its `execution` as `LexicalPromotion` leaves them,
whether the database has the bytes a launch verifies (`altered`), the worker's `unit`,
the receipts (`recovery`, `finalization`, `acceptance`), the names of the last tasks (`named`),
the one `launcher`, and of every task where it is (`doing`) and what it has found (`notes`).
`LaunchBegins` to `WriteRecovery` are `cloud_start.sh`, which copies the journal, recovers the
promotion and says in a receipt what it was before and after; `Submit`, `Enqueue` and
`Begin` are the `--submit` and `--execute` halves of both task scripts; `Lexical` to
`Conclude` are the validation, with the finalization command as `Amend` and `Seal` and
the structural audit as `Audit`; `Collect` and `PointAt` are the package. `Left` is what a worker may
leave that fails. Anything may die, and a restart makes systemd forget the worker.

`JqAlternative` is one operator, `OrTrue`, which both this module and
`ServerDatabase` extend. The scripts test a field that must be false with
`jq -r '.field // true'`. jq takes the right side for a field that is false as well as for
one that is missing, so every such test refuses: `FalseIsMissing = TRUE` is what
runs. The runs that ask about what is behind these tests take `FALSE`, the tests as they are
meant; the behaviours with `TRUE` are those among them in which the worker
ends at its entry and nothing is packaged. The theorems hold for both, and `GatesShutOut` says what is
true with `TRUE`.

### DirectorySwap

Nine writers replace a directory by staging, two renames and a removal; they
differ in what they do after an exception, which the variable `style` tells apart
(`corpus` for five of them, `segment`, `benchmark`, `review` and `demo`; the module's
head lists them). Variables:
the trees at the output and at every build's backup path, the state of its
staging directory, its step, and histories of what was cut by a removal that
failed. Tests and the renames they guard are separate steps, so builds of one
output race. Every system call may fail, an interrupt may arrive at any step
that is guarded, and a build may die.

### BenchmarkLeakage

Variables: the ranges of every relationship, the sweep (`pending`, `book`,
`active` for the heap, `groups`) and the split (`base`, `partition`).
`Sweep` is one pass of the loop over a start; `Split` is one frame of
`_iter_split_frames`: the hash of a book or passage may be anything, then
`Enforced` is the exclusion. `Overlap` and `Related` are the reference
definition the groups are compared with.

### DiskEnsemble

Variables: the three ledgers and the drafts, which do not change; what the pass has
`read`; the loop of `benjamini_hochberg` (`scope`, `left`, `running`, `qValue`); the tiers;
`lines`, `buffer` and `chunk` files; the merge (`opened`, `heap`, `merged`); and what the
validation reports (`findings`). `Gather`, `Tier` and `Emit` are one pair in each
of the three passes, `EndGather` and the others their ends with the tests made there;
`Adjust` is one turn of the loop, taking the p-values from the largest down;
`OpenChunk`, `Pop` and `PublishRanking` are the merge. `StreamBreaks` is a refusal while the
ledgers are read. The operators from `PlaceOf` to `ExpectedRow` are the SQL
of the validation, which sees the whole population at once, and `Findings` is its comparison:
the reference the passes are checked against is the repository's own.

A draft has a score, two p-values and the answers to the tests that concern one pair
only. Numbers are integers fine enough that every quotient is whole, so the
rounding of floating point, for which the validation has a tolerance, is left out.

### Instances

`MCStageStore`, `MCCampaign`, `MCRecoveryWindow`, `MCLexicalResume`,
 `MCServerDatabase` and `MCDirectorySwap` instantiate one module. `MCDurability`
(campaign; transfer on either adapter; acceptance; ranking), `MCLexicalRun` (build; promotion) and
`MCArtifacts` (directories; leakage; import; server database) hold several that share no state:
the variable `part` says in the first state whose behaviour this is, and the variables
of the others rest. `FaultsOnlyDelay`, `PromotionResolves`, `AttemptsReachSeal`
and `BootstrapPasses` are the liveness properties `CampaignFinishes`, `JournalResolves`,
`ResumeFinishes` and `EventuallyValidated` of such a part.

## 3. Runs

| Run | Question | Instance |
| --- | --- | --- |
| `store_concurrent` | do racing runners keep the ledger? | 2-stage chain, 2 runners, 3 attempts, 2 requests, 1 fault; 2 million states |
| `store_sole` | what do the launcher's single worker and relaunches give, also over results damaged from outside? | 1 runner, 4 attempts, 2 contents, 2 faults or acts from outside; 1.5 million states |
| `store_torn` | is every abandoned attempt recorded? **no** | 1 runner |
| `durability` | does the campaign keep order, records, gate and refinement, and finish? are transfers exact, honest and complete? is acceptance earned, and given in the end? is a ranking what the whole population gives? | campaign: 4 stages, 4 attempts of the last, 3 faults; transfer: 3 paths, two callers with one tree that overlap and a third with a similar tree, 2 failures (3 on B2); acceptance: 2 validations, a packaging and launches, of which two go on at a time, 2 deaths; ranking: 3 pairs with any of 6 drafts, 4 with any of 5, ledgers of up to 5 that differ, lists and chunks of 2; 130 thousand states |
| `campaign_records` | do reruns authenticate a seal? **no** | as `durability` |
| `campaign_stranded` | can the operator always launch again? **no** | as `durability` |
| `lexical` | does a resumed build follow from itself and reach the seal? is its promotion atomic, recoverable, kept and resolved? | build: 3 editions, 2 leaves in three tables, 2 batches, 4 interrupts; promotion: 3 runs, 3 faults; 253 thousand states |
| `resume_truncated` | is what a resumed build skips complete? **no** | build as in `lexical` |
| `window` | is every worker supervised, every launch its own, every expired machine stopped? | 2 operators, 2 starts, a window of 2 and a clock to 3, 1 fault; 1.1 million states |
| `artifacts` | do trees survive replacement? are groups and splits exact? are imports genuine? does a recorded hash say what the server's views are, is its database rebound once, and do bootstraps pass in the end? | 3 builds, 2 mishaps, all styles; 3 relationships over five ranges; 2 imports, 2 versions; 2 bootstraps that may overlap, 2 receipts, 2 deaths, one of which may be a power failure, 1 other load; 3 million states |
| `server_launch` | does a worker that is launched run? **no** | 1 bootstrap, no deaths |
| `benchmark_swap` | do benchmark artifacts survive it too? **no** | 1 build, 1 mishap |

Bounds. Two stages are the shortest chain with something upstream, and two
runners are a race; a third stage or runner repeats the relation of two. Three
attempts give a failed, an interrupted and a published one. Three paths let a
resumption be partial in two ways; two trees that differ in the metadata object and
in one path are what a wrong resumption could confuse. Four stages give a first (no checkpoint), a
last (package) and two in the middle, so "all prefixes" and "the last prefix"
differ. Three lexical runs are a sealed result, a replacement that is cut off
and a run after that. Of the three editions the second finds other aggregates behind the same
rankings and the third other rankings, so that leaves, checkpoint and batches of
different makers meet; two leaves let a table be cut off within; four
interrupts end a first attempt, two rebuilds and one more. In the window, two
starts are two operators who disagree, a window of 2 has an instant within it,
and a clock to 3 passes both deadlines. On the server, two bootstraps are a race, two
deaths cut a bootstrap and its recovery off, and three writes are a rebind, a load or a second
rebind, and the worker's. Two builds race and a third finds what they
left; two mishaps are a failure and the failure of its handling. Three
relationships are needed for an overlap through a third one, and the five
ranges touch, nest, repeat and lie in another book. The rankings have more
pairs than a list or a chunk holds, so that pairs are dropped and chunks merged, the last
one short for three; scores and p-values repeat and lie on both sides of the limits; ledgers with a
pair less or more, rows of wrong provenance and wrong counts are refused. `MaxFaults` and the like
bound faults per behaviour; two or three let a recovery be cut off and the next one as well. The
theorems below have none of these bounds.

### Findings

The six violated runs each check what a comment or document of the repository says.

* `store_torn`: a crash between creating the attempt directory and writing
  `attempt.json` leaves an attempt that `record_interrupted_attempts` rejects; the
  stage cannot be run again (`stages.py:422`).
* `campaign_records`: `campaign-seal.json` is written under its final name; torn
  by a crash it fails the byte comparison of every later worker
  (`pipeline.py:3397`).
* `campaign_stranded`: a crash between moving the last attempt and publishing
  its completion leaves the uploaded package where the launch inspection does
  not look, and the launch is refused (`command.py:127`).
* `resume_truncated`: the inventory of a resumed lexical build takes a comparison for
  complete that has a leaf; an attempt that ended within it is resumed, and the
  tree is sealed without the rest (`lexical/pipeline.py:2526`).
* `benchmark_swap`: the benchmark promotion removes the backup in a `finally`
  clause, also when an interrupt came between the renames and the backup is the only
  copy (`benchmarks/storage.py:480`).
* `server_launch`: the installed worker tests with `jq -r '.journal_after_exists // true'`
  that its launch left no journal; this prints `true` for `false` too, so the
  worker refuses every receipt, and the same expression refuses every packaging
  (`install_echoes_service.sh:382`, `package_results.sh:105`).

The liveness properties name what stops progress for good. `CompletesUnlessTorn`
excepts an attempt directory without `attempt.json` and what was changed or removed from outside;
`CampaignFinishes` the same directory (`TornAttempt`), a torn record and the
stranded package; `ResumeFinishes` the four ways of `Lost`. Within the bounds the
other faults that are modelled only delay.

More facts the models showed and that shape the properties:

* `RecordsAreExplicit` holds for a single runner only. With two, one may
  record the other's running attempt as interrupted, and the attempt may still
  be published. The launcher's one systemd unit is what excludes it. With two
  runners `store_concurrent` checks what then remains: record and publication stand.
* An exception between the rename of an attempt and the assignment of `preserved_path`
  (`stages.py:436` to 438) leaves a failure record that names `in-progress` for an attempt
  that has moved. `RecordsPointAtEvidence` excepts it (`unnoted`); it is never published.
* Bytes that change between the return of a producer and the inventory (`stages.py:426`, 427)
  are taken for its output: `ResultsAreGenuine` excepts such an attempt (`early`).
* An attempt directory without `attempt.json` stops not only its stage but the campaign:
  every launch runs the worker into it, and it raises.
* `ForeignObjectsBlock` holds for the local adapter. On B2 the test of a partial
  prefix compares sizes, so a resumption may add objects beside a foreign one of
  equal size before rclone meets it; the call then fails and certifies nothing.
* `JournalResolves` excepts a committed promotion whose worker failed or is
  known to have been killed: the documents ask that such a result stays
  unaccepted, and the journal stays active with it.
* ADR 0015 (lines 268 to 270) has incomplete physical files of the evaluation
  checkpoint ignored; `lexical/pipeline.py:1002` refuses a tree with a file that has no
  manifest. It is the second of the four ways of `Lost`.
* In the segment style, two mishaps can leave the output path empty: `abort()`
  removes the staging directory first, and when that fails it does not come to
  put the backup back. Hence `OutputComesBack` is about one mishap.
* A tree that recovery returns to staging is sealed, and the writer refuses to
  resume a sealed directory (`lexical/storage.py:526`), although `cloud/README.md:210`
  has it proceed through the staging gates: `Fillable` is false of it.
* The rebind intent is renamed into place unsynced, the change it vouches for is
  synced by DuckDB. A power failure can keep the change and take the intent, and
  every later bootstrap refuses the database (`segment/storage.py:910`); hence
  `IntentIsDurable` holds until the power fails.
* Of two bootstraps that overlap, one can change the database after the other's was
  validated and installed; the installed worker then refuses it. `HashIsEnough` covers
  them, `RebindIsOnce` is about bootstraps that come one after the other; the run checks it with
  `IntentIsDurable` as `RebindIsRecordedOnce`.
* A worker that dies with its load in the database file has changed the hash. The
  launcher verifies the rebind receipt first (`cloud_start.sh:96`) and refuses, so the
  recovery that `cloud/README.md:207` has every launch begin with is not reached, and the journal
  stays. Hence `Acceptable` asks that a launch is still possible.
* `docs/cloud-execution.md:157` calls retries of validation idempotent. One that comes after
  another has sealed the journal finds a recovery receipt that tells of an active
  one, fails (`cloud_validate.sh:884`) and says so in the receipt, until
  the operator launches again; hence the launches in the fairness of `AcceptedInTheEnd`.
  A copy of the journal that was cut short is never removed, and no validation
  passes beside it.
* A packaging and a validation that are submitted in the same moment both run, and the package can
  carry a receipt that says failed (`package_results.sh:229`): `AcceptanceIsEarned` excepts it.
* The allowance of a worker can end later than the deadline, by what passes
  between the launch naming itself and the unit being created; the timer, not
  the allowance, is what ends the machine. `WorkersAreSupervised` says both.
* A pair that fails every test of Tier A is still in the ranking; only the list of Tier B is
  cut. The limit of the list does not decide what is published, only ranks and labels.
* The merge publishes its output before the number of lines is compared
  (`disk_ensemble.py:478`): a difference would leave the file under its final name.
  `OutcomeIsRight` shows that there is none.

### Fairness

* Store (`FairSpec`): a call in progress goes on (WF), and every stage is
  entered again and again (SF on `Enter`): the worker walks the frozen order on every
  launch, and reaches each stage as often as the launches it precedes.
* Transfer: a call goes on (WF), and a caller is launched again whenever its
  call has failed (SF on `Look`; strong, because with exclusive calls it is
  disabled while another one runs).
* Campaign: the worker goes on, and the operator launches one when the
  inspection admits it (WF each). The runbook describes no automatic restart; the
  property is about operators who follow it.
* Window: systemd runs what is due and retries the power-off unit (WF on
  `EnforceExpiry`, `PowerOff`), and the provider lifts a lock and carries out what
  it accepted (WF on `Unlock`, `Stop`). No operator need do anything.
* Build: the worker goes on (WF), and the operator launches attempts again, with
  each edition if need be, and clears the spill (SF on `Resume`, `CleanSpill`: other
  attempts come between).
* Server database: a bootstrap goes on, and the operator runs it again after it was
  cut off or refused (WF on `BootstrapStep`), which is what the README of the scripts asks for.
* Acceptance: launches, tasks and workers go on (WF), and the operator both launches and
  submits validations again and again (SF, since others may be in the way), which is what the
  runbook asks for after a failure.
* Promotion: the process goes on (WF), and the finalization command is given
  while a journal is active (SF: other launches may come between).

The ranking needs none: its properties are about what it has made, and
the check for deadlock shows that it does not stop before it is validated or refused.

Faults are never fair and are bounded, so liveness says that finitely many faults only
delay. Deadlock is checked except where a cfg says otherwise: there the attempts, builds, imports or the
clock of the instance are used up, or the campaign is over.

## 4. Proofs

TLAPS checks the following for every value of the constants. All follow one
plan: an inductive invariant (`IInv`, `RInv`, `SwapInv`, `LeakageInv`, `ImportInv`,
`ServerInv`, `AcceptanceInv`, `EnsembleInv`), shown for the initial states and for every action, from which invariants, action properties
and the step refinement are read off. Every one was first checked by TLC.

| Module | Theorems | Invariant and argument |
| --- | --- | --- |
| `StageStoreProofs` | types, `ChainConsistent`, `PublishedIsPreserved`, `CompletionWriteOnce`, `EvidenceRetained`, `ResultsAreGenuine`, `RecordsAreExplicit`, `ImplementsLedger` | A runner's attempt is its own and where its step says (`Owns`, `OwnersDistinct`), and the dependency hashes it noted are still current (`NotesCurrent`), because completions are write-once. `ChainConsistent` alone is not inductive: a publication needs the note to be current. An inventory is of what the producer made unless the outside came before it (`InventoriesMade`), and an attempt whose producer may still write is not published (`Pending`); results are then genuine because authentication compares the whole ancestry at the step that returns, and published artifacts stay untouched while nothing outside interferes (`Untouched`). `RecordsAreExplicit` needs that `preserved_path` agrees with the disk but right after the rename (`Noted`), that an attempt given up there stays so (`GivenUp`), and is proved for a single runner (`Sole`): from the call to the publication its stage stays without a completion and what it has not listed or looked at is all that may lack a record (`Listed`). |
| `ObjectTreeProofs` | types, `ObjectsImmutable`, `ReceiptStaysExact`, `ForeignObjectsBlock`, `ActionsTellTheTruth` | A file being written is torn and has one writer (`Writers`). What a call has added and still has to add accounts for the difference between its first look and its end (`Honesty`). Receipts stay exact when all callers have one tree, or digests are compared and only callers of one tree overlap; foreign objects block on a local store under the second condition: the hypotheses (`SameTrees`, `Guarded`, `Discernible`) are in the theorems. |
| `CampaignProofs` | campaign: types, `CheckpointsPrecede`, `RecordsAreSound`, `CleanupIsSafe`, `NothingIsUndone`, `ImplementsDurable` | Wherever the worker is, all earlier stages are computed and durable (`Walk`), also after a relaunch that skips. The gate is safe because the last checkpoint is sent only after the seal. |
| `CampaignProofs` | acceptance: types, `AcceptanceIsEarned`, `CommitsStay`, `Shut` | A worker is started over nothing (`WorkerIsNew`), so commits and seals stay and what an audit found is still so when the receipt is written, whatever was launched in between. A validation that ends the execution of a dead worker relies on a receipt that tells of a commit (`Recovered`, `Concluding`). A submission that is not hurried finds every task idle, since the files name the one at work (`Unhurried`). `CommitsStay` and `Shut` are stated in the module: what is committed is never undone, and nothing gets past jq. |
| `RecoveryWindowProofs` | types, `DeadlineFixed`, `WorkersAreSupervised`, `IntentsAreOwn`, `PoweroffIsDue` | An operator past a file knows what it holds, and a file being filled has one writer, so a timer is armed for the deadline in the ledger; an allowance was measured under a window in force, after the launch named itself (`Allowed`). |
| `LexicalProofs` | promotion: types, `ExposureMatchesTree`, `RecoveryIsUnambiguous`, `TreesAreKept`, `OnlySealedIsReplaced`, `FailureStands`, `ImplementsAtomic` | The tree of an active journal is staged or canonical (`Located`); what recovery would leave is always what the database was committed for (`Exposed`); a commit without a journal is sealed, and only sealed trees are moved aside (`Archived`). The first makes recovery decidable, the second is the refinement, the third protects the witness. |
| `LexicalProofs` | build: types, `CandidatesFollowRankings`, `OnlyTheLastComparisonMayLack`, `CheckpointSurvives` | Which tables are full at each step (`Begun`, `Progress`); the aggregates of a worker go, part by part, with the rankings that stand, its own or equal to its own, and what is complete or loaded is of one edition (`Aggregating`, `Sound`); the leaves made from them say so (`Following`). A checkpoint is emptied only by a rebuild, and none runs beside a complete one. |
| `ArtifactProofs` | directories: types, `TreeSurvives`, `OutputComesBack`, `OutputIsWhole` | Every tree is at one path (`OnePlace`), and a build that removes its backup has put its own tree in place before (`Survivor`, `Fresh`). |
| `ArtifactProofs` | leakage: types, `GroupsAreExact`, `SplitsDoNotLeak` | An endpoint that has left the heap overlaps nothing the sweep still comes to (`HeapIsCurrent`), which takes the order of the sweep (`InOrder`); for any relationships and any ranges. |
| `ArtifactProofs` | import: types, `ImportIsGenuine`, `ImportsAgree` | No single check shows that the two source completions are of one run: `FirstIsKnown` and `PairIsKnown` follow what is known from the first authentication to the comparison of bytes. |
| `ServerDatabaseProofs` | types, `HashIsEnough`, `WorkerFindsItsDatabase`, `IntentIsDurable`, `RebindIsOnce`, `RebindIsRecordedOnce` | Every write gives the file a content that no record can name yet, and while anything runs the views only go from transferred to rebound, so that what a record says of a content stays true though its hash was taken before the views were read (`Recorded`). The log of a dead worker holds lexical tables only with the output in place (`Loaded`), which is what the recovery asks. Bootstraps that come one after the other leave one receipt, and the file is what it says (`OneReceipt`). |
| `DiskEnsembleProofs` | types, `EnsembleInv`, `OutcomeIsRight`, `DiscoveriesAreStepUp` | Neither property is inductive: each pass needs what the ones before have made. What was read belongs to every ledger and comes before the rest (`ReadInv`); the running minimum is the least quotient from the place of the loop on, so each value is final once made (`AdjustInv`, `IsAdjusted`); the list is the best of the pairs read, because a pair that is dropped stays behind `TierBSize` others (`TierInv`, `TopGrows`), and a pair's place in the list is its place in the pool (`TopIsExpected`); chunks and buffer partition what was read (`EmitInv`); what is ranked is before all that waits, and every chunk is behind its line in the heap (`MergeInv`). That a sound population is never refused follows from the same parts, since each refusal contradicts one. `DiscoveriesAreStepUp` follows from the q-values being least quotients (`AdjustedIsStepUp`). |

Assumptions are those named in the modules (`StoreAssumption` with
`GraphAssumption`, `TreeAssumption`, `CampaignAssumption`, `WindowAssumption`,
`ImportAssumption`, `PromotionAssumption`, `ResumeAssumption`, `SwapAssumption`,
`LeakageAssumption`, `ServerAssumption`, `AcceptanceAssumption`, `JqAssumption`, `EnsembleAssumption`): finite or acyclic data, ordered ranges, at least one
leaf in every table, and that "no value" differs from every value. TLC
evaluates them in the runs.

Only model-checked: all liveness properties, since fairness and ENABLED are beyond the prover
(`CompletesUnlessTorn`, `FaultsOnlyDelay`, `UploadCompletes`, `AcceptedInTheEnd`, `PromotionResolves`,
`AttemptsReachSeal`, `ExpiryStopsMachine`, `BootstrapPasses`), and that no behaviour stops in a deadlock.
Every other property of a passing run is a theorem.
The proved invariants `ChainConsistent`, `CheckpointsPrecede` and
`ExposureMatchesTree` have no place in a run of their own: TLC checks the refinements
they follow from. `OutputIsWhole`, `ImportsAgree`, `CommitsStay` and `Shut` are proved only.

## 5. Limits

* Crashes end processes, not disks: a write that returned is durable. The code
  syncs files and directories, and `_sync_directory` ignores errors of it: a publication
  lost by a power failure after that is not modelled.
* Files written to a temporary name and renamed are one step; files written
  under their final name (campaign records, objects of the local adapter, the
  window's files) are two. The test and the creation in `write_once` are one.
* Contents, digests, sizes and schemas are compared as identities.
* Campaign: a checkpoint payload is fixed once it is made; that the hard links in
  it could be written through is a listed hazard.
* Window: a provider that accepts a stop and then loses it is not modelled; a
  torn ledger means that neither timer nor launch works, which the operator has to
  resolve; the tests of host, checkout and credentials before a launch only
  refuse. Namespace inspection and clean-up gate are in `Campaign`.
* Import: the source changes from its first version to another, at most once per
  file; a source that goes back and forth could defeat the comparison. Scientific
  code closures and the git checks only refuse and are left out.
* Build: one worker at a time on a staging tree. The number of leaves of a table
  is the same for all editions. The batches of an evaluation may come from
  several editions; nothing is promised of them. Tables of one kind are one
  (module head). Validation before promotion does not change the tree.
* Promotion: one process at a time, as the cloud scripts see to; the path
  without a deferred commit is not modelled.
* Server database: one commit and one manifest; a hash is the identity of the
  bytes. What DuckDB does with its log on commit, close and open is external. The upload is
  one step and does not overlap a bootstrap; the tests, recovery and start of
  one launch are one step. The contract in `/etc` is durable. A power failure takes
  records only before the worker's promotion, which comes hours after them.
* Acceptance: one operator launches at a time, and the promotion is the one the journal
  names. Strict validation is one step that may fail, and the inventory and copies of a
  package are one; a recovery receipt is `passed` or not, without its other fields.
* Directories: a death between the renames leaves a hidden backup that nothing
  restores by itself, which is why `OutputComesBack` excludes deaths and
  `TreeSurvives` does not; overlapping builds can show a partly removed tree,
  which is why `OutputIsWhole` is about builds that take turns.
* Leakage: two of the split strategies, and groups of overlapping ranges; groups by shared
  key go through the same exclusion. The union-find of `benchmarks/splits.py` is
  not used by the production build.

* Ranking: the ledgers, drafts and configuration are given; what makes a draft of evidence
  rows, the receipts, and refusals of an existing output or work directory are left out. A
  crash leaves the attempt, which `StageStore` has. Strata are part of a row's provenance.
  `EnsembleAssumption` asks that the p-values are divisible by every place, which
  a large enough One gives for any rational p-values, and a limit below 1.

### Not modelled

The map covers a small share of the implementation's lines, because most of the
code is not of a kind that states: detectors, null models, feature extraction,
scores, calibration, statistics and out-of-core joins (floating-point and
columnar computations with no interleaving and no recovery of their own), record
classes with field checks, parsers and normalizers of texts and XML, validation
that recomputes the same numbers, and presentation. A module about them would
either copy the computation or say nothing. What they share is abstracted to
one fact: their output is a function of input and edition of the code. The
component list in `PROJECT.json` gives the reason for each.

## 6. Plan

Done: `StageStore` and `StageLedger`; `ObjectTree`; `Campaign` and
`DurablePipeline`; `LexicalPromotion` and `AtomicPromotion`; `RecoveryWindow`;
`RecoveryImport`; `DirectorySwap`; `BenchmarkLeakage`; `LexicalResume`;
`ServerDatabase`; `Acceptance`; `DiskEnsemble`; and the proofs of each.

Next, in order of importance:

1. The proof that what `Campaign` makes one step of a stage is justified by `StageStore`,
   and its atomic prefix by `ObjectTree`.
2. The download of a package (`download_from_server.ps1`) against later packagings.
3. `ProjectionCache`: build, publish and reuse under concurrent builders.
4. The download of input trees and its binding (`inputs.py`), and the single-file
   publications by link (`write_json_atomic_new`).
5. A second process in `LexicalPromotion`, for a recovery command beside a
   running worker.
6. The monotone envelope and the strata of the null ledgers (`disk_calibration.py`), which
   `DiskEnsemble` takes as given, and the window overlap of passages.
