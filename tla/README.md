# Verification of 청년알리미 (cheongnyeon-alimi)

청년알리미 collects youth-policy announcements from public sources, normalizes
and validates them, stores them in PostgreSQL, serves them through an API and a
web frontend, and distributes a reviewed part of them as a public dataset.
This directory holds TLA+ models of the parts of it that decide something or
meet each other, TLC runs over small instances of them, and TLAPS proofs of the
properties that matter most, for every size.

Paths are relative to the root of the repository; `app/` is short for
`backend/app/`. `PROJECT.json` names, for every definition of the models, the
lines it was translated from.

## 1. Inventory

### 1.1 Components, state, operations

| Component | State it keeps | Operations | Module |
|---|---|---|---|
| Run table and writer (`app/models/collection_run.py`, `app/services/collection_runs.py`, `app/repositories/collection_run_admin.py`) | `collection_runs`, one row per run; CHECK `terminal_finished_at`; partial unique index on the active runs of a source | `start`, `enqueue`, `mark_running`, `finish` | `RunTable`, `RunLifecycle` |
| Queue, worker, lock, triggers (`app/services/collection_queue.py`, `app/worker/*`, `app/services/source_collection_lock.py`, `manual_collection.py`, `collection_run_admin.py`; `run_complete_collection.py`, `import_runtime_data.py`) | messages in Redis, an advisory lock per source, deliveries not yet acknowledged | request, publish, deliver, lock, claim, collect, import, finish, retry, exhaust, acknowledge, replace as stale | `CollectionQueue` |
| Policy store and installer (`app/services/runtime_importer.py`, `seed_importer.py`, `public_dataset_installer.py`, `app/repositories/policy_lifecycle.py`) | `policies`, installations (one active), memberships | upsert a batch, inactivate what a complete snapshot misses; install a release in one transaction | `PolicyStore` |
| Administrator access (`app/services/admin_access.py`, its endpoint, `app/api/deps.py`, the reset command) | singleton PIN row with a session generation; login failures per address in memory | log in, create the row, change or reset the PIN, authorize | `AdminAccess` |
| HTTP client (`collectors/http.py`) | time of the last slot, the pacing lock | pace, send, retry, back off | `HttpClient` |
| Snapshot collection and replay (`collectors/snapshot.py`, the API collectors, `collectors/runtime.py`) | Raw documents and manifests, each written once | page through a list, save, publish a manifest, replay one | `SnapshotCollection` |
| Supplemental official sources (`collectors/supplemental_official.py`) | Raw documents, several pages per policy | plan, fetch, verify together, save, merge, decide | `SupplementalBundle` |
| Regional expansion (`collectors/regional_expansion.py`, capture server and script, HTTP script, redecision audit) | a checkpoint file per source, Raw documents | discover, capture, recapture, recover, audit, import, inactivate | `BatchCheckpoint`, `RegionalCheckpoint`, `HttpTraversal`, `RegionalCollection` |
| Program contract, normalizer (`collectors/normalized.py`, `validation.py`, `normalizer.py`, `regions.py`) | none | validate, classify, normalize | `ProgramContract`, `Normalization` |
| Regional gate (`collectors/regional_policy_gate.py`) | none | decide region, youth target and period of an item | `RegionalGate` |
| Duplicates across sources (`collectors/cross_source_duplicate.py`, `app/services/aggregator_baseline.py`) | decision manifests | compare a candidate with a baseline | `DuplicateGate` |
| Runtime gate (`collectors/runtime.py`, `app/services/runtime_importer.py`) | decision manifests, stored policies | replay, load a baseline, decide, save, import | `RuntimeGate` |
| Review admission (`scripts/audit_review_admission.py`, `apply_review_admission.py`) | a manifest, admitted policies, records of runs | audit, rebuild and compare, import source by source | `ReviewAdmission` |
| Promotion and distribution (`scripts/promote_public_dataset.py`, build, pointer and download scripts, two workflows, `app/cli/import_public_dataset.py`) | a directory, release assets, the latest pointer, a user's files | check runs, export, verify, try, upload, advance, roll back, download, install | `PublicRelease` |
| Acceptance snapshot (`deployment/postgres`: `create_snapshot.py`, `restore.ps1`, `restore.sh`, `verify_*.py`) | a dump and its manifest, a database volume | inspect, dump, describe; verify, prepare, load, prove, start | `AcceptanceSnapshot` |
| Search and recommendation (`app/services/recommendation.py`, `policy_search_parser.py`, `app/repositories/policy_search.py`) | none | interpret a query, decide conditions on a policy | `PolicySearch` |
| Region reference, logs, collector status, other collectors, frontend, deployment | various | import, reads, parsers of external pages, pages, shell | not modelled, see 7 |

### 1.2 How they interact

A run starts with a request: an administrator's POST, the beat schedule, or a
script. The requester commits a `queued` row and only then publishes a message
that carries the row's identifier. A worker that receives the message tries the
advisory lock of the source, claims the row (`running`), collects through the
HTTP client, imports into the policy store, closes the row, gives the lock
back, and acknowledges the message last. The row is the only thing these parts
share.

A collection leaves Raw documents, and a manifest if it saw a whole list. A
replay selects a batch of them, merges and extracts, asks the regional gate and
the comparison with the aggregators, normalizes and validates; what it accepts
is upserted, and what a complete snapshot no longer lists becomes inactive. A
regional source keeps a checkpoint beside its Raw, which captures, the HTTP
script, an audit and the importer each read and replace. Policies left for
review may be admitted later by an audit and its application.

The promotion script reads the run table and the policies, writes a release,
and a workflow uploads it and moves the latest pointer; users download what the
pointer names and install it into the same tables their own imports write.

### 1.3 What is hard

* Nobody locks rows of the run table. Each service loads a row in one
  statement, tests it, and commits an UPDATE of the columns that differ from
  what it *loaded*. Whatever happens in between is decided by the CHECK
  constraint and the unique index alone.
* The commit of a row and the publication of its message are two steps;
  delivery is at least once; a worker killed at the hard limit does not give its
  message back; the lock belongs to a database session and ends with it while
  the worker goes on.
* An import is two transactions, an installation is one with many statements,
  at READ COMMITTED, beside each other, with deadlocks.
* Files are the state of many parts: Raw, manifests, checkpoints, datasets,
  dumps. Each is replaced whole, but two processes that read and replace one do
  not see each other, and a process dies between two files that belong together.
* Two pieces of code state one rule: the constructor of a program and its
  validator, the gate and the normalizer on a period, a search and a
  recommendation, the check before and after an upload.
* Lists change while they are paged through, answers are torn between two
  statements, downloads deliver something else.

`PROJECT.json` lists every one of these at the line where it bites
("hazards"), with the properties that would notice.

### 1.4 What makes each component correct

| Component | Property | Meaning |
|---|---|---|
| Run table, queue | `TypeOK`, `ClosedStaysClosed`, `LifecycleSpec` | the constraints hold after racing closes; rows behave as `RunLifecycle`, which asks for one open run per source |
| | `OneCollectorPerSource` | the lock excludes, also when sessions break |
| | `SuccessWasImported`, `PromotableIsUndisputed` | what a row says of an import is true, whoever wrote it last |
| | `OpenRunIsAttended`, `EveryCarefulRunCloses`, `LockIsReleased`, `LostRunIsReplacedInTime` | nothing is forgotten, everything ends |
| Policy store | `ActivationIsWhole`, `RowsNeverRegress`, `OnlyProvenAbsence`, `GoneBecomesInactive` | a release becomes visible as a whole; rows do not go back; only a proven absence ends a policy, none that was published when the UPDATE began, and in the end it does |
| Administrator access | `LiveTokensProveThePin`, `LockoutsAreEarned`, `RequestsEnd` | an accepted token proves the PIN of now; no failure is counted twice and a lockout is the one its count earns; requests are answered |
| HTTP client | `SlotsApart`, `CallsEnd` | the interval holds across threads and retries; requests end |
| Collections | `ManifestIsWhole`, `ReplayIsWhole`, `SnapshotDecidesOnTheBundle`, `LatestIsOfOneCollection`, `AcceptedIsOpenByAPage` | what is called complete is; batches do not mix; merged pages open nothing that no page opens |
| Regional expansion | `TypesOK`, `CapturedHasRaw`, `CompleteImportIsWhole`, `NothingIsForgotten`, `OnlyUnseenPoliciesEnd`, `CompletionIsEarned` | no operation builds a checkpoint it refuses to load; what it calls captured is in Raw; an import that inactivates as the whole source has what it calls accepted in the store; nothing recorded is lost |
| Pure parts | `ContractIsKept`, `GateIsCautious`, `EntryIsEarned`, `RegionVerdictIsSound`, `SearchAndRecommendationAgree` | two statements of a rule agree, as far as the code's do; entry, by the gate or by a review, needs evidence of one's own; verdicts agree with the districts they stand for |
| Runtime gate, review | `ImportIsJudged`, `ApplyIsWhole` | what is stored was decided, on columns no newer than the snapshots on record and, but for the window between two statements, regions of the same imports; what is admitted was audited, and all of it or no success |
| Promotion | `LatestIsWhole`, `InstalledWasReleased` | the pointer names a whole release that covers its sources; users activate nothing else |
| Acceptance snapshot | `RestoreIsWhole` | one whole dump, services over the baseline only, and no guard against a good restore |

The life-cycle guarantees of runs have an abstract specification of their own,
`RunLifecycle`; `LifecycleSpec` is the refinement.

## 2. Modules

Each component is a module whose actions are the operations of the code; a
method that reads something and acts on it later is two actions, with
everything else free to happen in between. The `MC...` modules instantiate
them for TLC, and the `...Proofs` modules hold theorems about them;
`SequenceFacts` has the facts about numbers, sequences and folds that several
of these need.

### 2.1 Collection queue

`RunTable` has the rows, the constraints under which a commit is accepted
(`Accepts`), the statements (`Insert`, `Claimed`, `Finished`, `ClosedByApi`),
and `Flush`, the ORM's UPDATE of the dirty columns. `CollectionQueue` adds
clients, broker, lock, workers, time and faults. `table` is `collection_runs`;
`queue` counts the copies of each message; `holder` and `connected` are the
advisory lock and its session; `pc`, `task`, `target`, `loaded` and `result`
are where each process is, what it works on, and what it has read and not yet
written; `stale` holds the runs that are two hours old; `imported` and
`closings` are history, which no action reads.

| Code | Actions |
|---|---|
| `trigger_manual_collection_run_service` | `AdminRead`, `AdminReplace`, `InsertRun` |
| the endpoint after it | `Publish`, `CloseRead`, `CloseWrite` |
| `enqueue_scheduled_source_task` | `SchedulerRead`, `InsertRun`, `Publish`, `CloseRead`, `CloseWrite` |
| `queue_and_wait` | `InsertUnseen`, `InsertRun`, `Publish`, `CloseRead`, `CloseWrite`; the gate is `Promotable` |
| `import_runtime_data.main` | `InsertUnseen`, `InsertRun`, `ImportPolicies`, `FinishRead`, ... |
| `collect_source_task`, `source_collection_lock` | `Deliver`, `Unlock`, `Retry`, `Ack` |
| `mark_running` | `ClaimRead`, `ClaimWrite` |
| `execute_manual_collection_run`, `execute_complete_collection_run` | `Collect`, `ImportPolicies`, `FinishRead`, `FinishWrite`, `FailRead`, `FailWrite` |
| `_mark_lock_exhausted` | `ExhaustRead`, `ExhaustWrite` |
| `check_is_stale` | `GrowStale` |
| Celery and the operating system | `WorkerLost`, `HardTimeLimit`, `Raise`, `LockLost`, `ClientLost` |

Three choices need a word.

* *A claim of a running row writes nothing.* `mark_running` assigns `running`;
  when the row was loaded as running, no column is dirty and the flush is empty.
  When it was loaded as queued, the UPDATE sets only `status`, and if somebody
  closed the row meanwhile the CHECK constraint refuses it (`ClaimWrite`).
* *A close is always accepted.* It sets `status` and `finished_at` of a row
  that was loaded open, so both are dirty. `TypeOK` includes the constraints, so
  the model commits without asking, and TLC and the proof confirm that the table
  would not have refused.
* *The endpoint reads afresh.* When publication fails the endpoint gets the run
  by its key. The object of the insert is unreachable by then, so the identity
  map has dropped it and the row is read from the database.

`RunLifecycle` is the abstract specification of a run: requested for an idle
source, claimed, closed; one open run per source.

### 2.2 Policy store

`PolicyStore` has imports (`BeginImport`, `ImportRow`, `CommitImport`, then
`BeginMark`, `MarkRow`, `CommitMark`: two transactions) and installations
(`BeginInstall`, `InstallRow`, `Record`, `Insert`, `Activate`,
`CommitInstall`: one). A process writes to `pending`, its own copy of rows, and
so locks them; `table` is what is committed. `Seen`, `LockedFor`, `KeyLocked`
and `SwitchLocked` are PostgreSQL at READ COMMITTED: a statement sees what was
committed before it, a writer waits for a row or a key, and looks again at the
row (not at other tables) when it gets it. `DeadlockVictim` ends one of those
that wait in a circle, `Fail` is a crash or a database error. A batch that the
preflight refuses writes nothing (`seed_importer.py:542`); one whose replay
left invalid records out is written, and only its life cycle is refused
(`runtime_importer.py:159-173`).

### 2.3 Administrator access and HTTP client

`AdminAccess`: requests are threads; `GetState`, `InsertState`,
`RefreshState`, `Verify` are `create_admin_session`, `CountRead` and
`CountStore` the limiter's read of a client's count and lockout and the write
of both, `ChangeLocked`, `InsertReset`,
`CommitWrite`, `LoseWrite` the change and the recovery. A token stands for its
generation and, as history, for the PIN that was proved.

`HttpClient`: `Acquire` and `TakeSlot` are the pacing lock and the sleep under
it, `Receive` and `Retry` the answer and the backoff. Time is `Tick`; a sleep
counts down.

### 2.4 Collections of Raw documents

`SnapshotCollection`: `Publish` and `Withdraw` change the list of the source
between the requests of a collection (`RequestPage`, `SaveList`, `SaveItem`,
`SaveDetail`, `AcceptPage`, `SaveManifest`), and a replay reads the directory
(`LoadDocuments`), then the manifest (`LoadManifest`), and selects
(`SelectSnapshot`, `SelectLatest`). Nothing prevents a replay beside a
collection, so the model has it.

`SupplementalBundle`: a collection plans (`GatherList`), fetches
(`GatherDetail`), verifies all pages together (`Verify`) and saves them one by
one (`SaveRaw`, `EndGather`); `GatherFails` ends it anywhere. `SnapshotBatch`
and `LatestBatch` are the two ways a replay selects, `Merge` what the pages of
a policy say together, `Extract` what is decided.

`BatchCheckpoint` has the checkpoint's operations, the constructor's contract
(`Valid`) and the state both ways share: the `file`, the documents (`raw`) and
what a process has in hand (`made`). `RegionalCheckpoint` has the processes
that read and replace the file: the capture endpoint and the script (`Receive`,
`ReadFile`, `SaveItems`, `SaveDetails`, `SaveCheckpoint`, `Undo`), the audit
(`AuditRedecision`) and the importer (`ReadDocuments` to `InactivateMissing`);
`HttpTraversal` the script that walks a list from page 1 in every run, over
pages that name no identity twice, as `validate_page` demands.
`RegionalCollection` is a source collected in either way. `CommitPrograms` may
store any part of what was accepted: programs may be invalid, and a batch that
is refused or rolled back raises nothing, so the import decides the checkpoint
all the same; whether it was `clean` is what the life cycle asks. The file has
no lock, so nothing keeps processes apart; two properties are about what one
process at a time keeps, and `crowded`, which no action reads, remembers
whether two have ever been at work at once (`StartsWork`).

### 2.5 From documents to stored programs

`ProgramContract` states the contract of a program twice, as the code does:
`SchemaIssues`, `SemanticIssues` and `Classify` are the validator,
`RuleIsSound`, `RegionContract` and `IsProgram` the constructors.
`Normalization` makes a program of what was read in texts, with warnings.
`RegionalGate` decides whether an item is regional, for the young and open;
`DuplicateGate` whether it repeats an aggregator's policy. `RuntimeGate`
composes them: a batch is replayed alone (`ReplayAlone`), a baseline is loaded
in three reads (`LoadManifests`, `LoadPolicies`, `LoadRules`) while aggregators
are collected and imported, the batch is replayed again, decisions are saved
and programs written (`SaveDecisions`, `ImportPrograms`). Only the age of the
columns is checked against the manifests; the rules are read by a later
statement, and `since` remembers which aggregators were imported between the
two. `ReviewAdmission` audits and applies (`AuditReads`, `AuditWrites`,
`ApplyReads` to `ApplyVerifies`) beside everything that may change in between.
`PolicySearch` has conditions and verdicts, once as the search states them and
once as the recommendation does. Rules of which the first that fits decides are
chains of IF: the branches of a CASE have no order.

`Judgement` puts one question to one of the pure parts (`Judge`) and keeps its
answer. What may be asked is a constant operator, `Questions`: a run puts every
question of a bounded set, a proof puts any that the part can meet
(`IsQuestion`).

`SearchAndRecommendationAgree` says where the three ways to look for policies
agree, which is less than that they find the same. The parser of a query keeps
the word it knows a category by as a keyword (`policy_search_parser.py:329-338`),
so the words miss policies whose texts lack it (`NamesCategories`). And a name
of a region is decided by the parser's own map and by the aliases
(`ByParser`, `ByAlias`): of "서울" only the first knows a region; "전북" both
take for one that is retired; "광주시" is a retired metropolitan city to the
parser and the city in Gyeonggi to the aliases, so that there the words refuse
less than a form does. Where the two ways decide a name alike, the words find
what a form finds but for that keyword; where one way decides nothing, the other
is the narrower one.

What is read of a period are the dates each pattern matches: the gate's takes
년, 월 and 일 between the numbers (`regional_policy_gate.py:27-32`), the
normalizer's does not (`normalizer.py:47-52`), so `Period` has both lists.
`GateAgreesOnPeriods` is about periods on which they are equal and hold more
than a lone date; the others are for `OnlyOpenGoesOn`, which fails.

### 2.6 Releases and snapshots

`PublicRelease`: collections write rows and rules; the release workflow goes
step by step from `StartRelease` to `AdvanceLatest`, and `ReleaseEnds` may end
it anywhere; the rollback workflow is `VerifyRollback` and `MoveLatest`; a user
downloads and installs. What is read of policies and of their region rules is
read in two statements (`LoadColumns`, `LoadRecords`). The trial installation
and the user's are `IsImportable`, because the first and the second validate
the same records. The installer reads the dataset to verify it and again to
import it; a user replaces no file in between (`Install` is one step).
`AcceptanceSnapshot`: a creator counts table after table, checks, dumps,
replaces and describes; an operator verifies, prepares, upgrades, checks,
loads, counts, proves, migrates and starts; everyone may die, a second operator
works beside, files are altered and volumes removed.

## 3. Runs

Twelve runs; an `MC` module may hold several parts or styles, of which a
behaviour chooses one at the start: parts that share no state are checked
in one run, not multiplied with each other. Deadlock is not checked: requests,
attempts and changes are bounded in the model, and a system that nobody asks for
anything may rest.

| Run | Instance | What it shows |
|---|---|---|
| `queue` | 2 identifiers, 2 workers, one retry; an administrator with the schedule (also the release script), without faults, or with a command-line import and one fault among a lost worker, a doubled message and a broken lock session | constraints, one open run per source, exclusion, truth of the columns, nobody forgotten, refinement of `RunLifecycle` |
| `queue_liveness` | 2 identifiers, 1 or 2 workers, an administrator; one fault | every run closes as long as workers are lost by death only; every lock is given back; a run that a hard limit, an error or a dead client leaves behind is closed by stale replacement |
| `store` | 2 policies, 4 releases of 2 versions, 2 installers beside 1 importer with batches that are whole, partial, with invalid records, refused or dry, and of 2 ages; the source stops listing a policy, or 1 fault | activation, order in time, absence |
| `progress` | parts `client` (2 threads, interval 2, 2 retries), `pin` and `limiter` (2 requests, a near and a far client, 2 PINs, 3 generations, a lockout after 2 failures; in `pin` the PIN changes and a client fails once, in `limiter` the near one fails 3 times) and `store` (2 policies, 2 faults or changes of the source) | pacing; tokens; lockouts, also what follows one; calls and requests end; a policy that is gone becomes inactive |
| `snapshot` | parts `snapshot` (4 items of which 3 are listed, pages of 2, 2 changes, 2 collections, replays with a limit of 3) and `bundle` (2 identities, sources of three kinds, up to 2 details, 2 collections on 2 days) | manifests and replays, and pages merged into one policy |
| `regional` | styles `alone` (captures, an audit, 2 imports, one process at a time, with crashes), `together` (2 captures at once and an import), `http` (5 lists, 3 runs of the script, 2 changes) | checkpoint, Raw and store agree; one process at a time loses nothing that was recorded |
| `pipeline` | styles `contract`, `normalize`, `compare`, `region`, `profile`, `regional`, `admission` (one question of a bounded set each) and `gate`, `review`, `release`, `acceptance` (all interleavings) | see 1.4 |
| `terminal_final`, `store_content`, `published_shown`, `checkpoint_lost`, `gate_scheduled` | the smallest instance that shows it | the findings of section 5 |

**Bounds and why they are enough.**

* `queue`: two identifiers are what a stale replacement needs (the replaced run
  and the new one) and what the unique index needs to refuse one; the properties
  relate at most two runs. Two workers are needed for the lock and for duplicate
  delivery; one retry separates "retry" from "exhausted". One fault at a time,
  because the recovery paths of the code assume no more. Runs and workers are
  interchangeable, so symmetry is used, in this run only where no liveness is
  asked.
* `store`: two releases of one version without a row in common meet the version
  conflict, one of another version the switch, and one of two rows the deadlock
  with an import of both. Two installers are needed for
  the switch and its lock, one importer for the race of an import with it; two
  imports of one source are kept apart by its one active run, and imports of two
  sources touch no common row. The policy that leaves the list is one that
  releases of both versions hold.
* `progress`: two requests race on creation, change and limiter; a limit of two
  is the smallest at which a count read before another's write matters, and a
  third failure comes after a lockout. The limiter knows no PIN but whether it
  was proved, and a change touches no counter, so failures and changes are
  bounded in parts of their own. Three generations let a token become two
  changes old.
* `snapshot`: three items on pages of two give a second page that a change of
  the first can shift; the fourth item is what arrives. Two collections let one
  leave documents that the other's replay must not take. For bundles, two
  identities tell an identity's pages from another's, and two days let what was
  open be closed.
* `regional`: two pages, one of which repeats an identity of the other, three
  identities and one from before; a limit of three is reached. Two processes at
  once are all that a file can lose by replacement; one process at a time takes
  every kind of request.
* `pipeline`, questions: every field that a rule reads takes each value that the
  rule tells apart, plus the absent and the unreadable one; lists of region
  rules have up to two entries, which is what "one region twice" and "contrary
  rules" need; the tree has the country above a province with a city of two
  districts and a second province, and each of these is asked for. Of a read in
  two statements the older state has one rule at most.
* `pipeline`, interleavings: two aggregators and a policy of each, two imports;
  two sources in a review, one of which is refused because a program is partial
  by warnings of the normalizer, and two changes beside it; two versions, three
  collections, two downloads and one that is damaged; two operators, two
  attempts each and one import beside the inspection.

`PROJECT.json` names for every property of a passing run a mutant: a definition
with a plausible bug, under which the same run finds the property violated.
Mutants stand next to what they change, marked `mutant:`.

## 4. Fairness

* `CollectionQueue`: a client or a worker that can go on does (a process is
  scheduled; HTTP calls have timeouts and the soft limit ends a task), and an
  idle worker takes a message while there is one. Nothing forces requests,
  faults or the two hours. `LostRunIsReplacedInTime` alone also assumes the
  clock and an administrator who keeps asking (strongly fair, because a source
  becomes replaceable again and again) and allows for the identifiers to run
  out, which is the bound of the model.
* `PolicyStore`: processes go on; PostgreSQL queues those that wait for a row,
  so that none waits for ever (strong fairness of an importer, whose row may be
  locked again and again); the schedule collects a source again and again, in
  the end completely and cleanly, which is what `GoneBecomesInactive` needs.
* `AdminAccess`, `HttpClient`: threads go on, a lock or a row is granted to who
  keeps asking (strong fairness), sleeps and lockouts end.

## 5. Findings

1. `terminal_final`: `docs/architecture/collection_run_database.md:66` says a
   terminal state cannot be completed again. `finish` and the trigger service
   test a row they read without a lock. When both read it open, the second
   commit overwrites status, error and counters of the first. The columns that
   matter for a promotion survive this: `PromotableIsUndisputed` and
   `SuccessWasImported` hold and are proved.
2. `store_content`: a test (`backend/tests/test_public_dataset_import.py:216`)
   names the title that a manual collection must not overwrite. `import_programs`
   reads the protected identities once, before its upserts; an installation that
   commits in between is not seen, and its fields are overwritten.
3. `published_shown`: `docs/architecture/policy_database_mapping.md:44` says that a
   collection makes no published policy inactive. The UPDATE of
   `mark_missing_policies_inactive` looks at the active release when it begins;
   one that then waits for a row of an installation makes the policy inactive
   after the installation has published it. What was published when it began
   is safe: `OnlyProvenAbsence`.
4. `checkpoint_lost`: `capture` records "a successfully persisted bounded detail
   batch" (`collectors/regional_expansion.py:951`). The capture endpoint is
   threaded and replaces the checkpoint file without a lock: of two captures at
   once, both answered "stored", the second takes the first out of the file.
5. `gate_scheduled`: `docs/data/normalization_rules.md:70` says only what is
   open now goes on to the normalizer. The gate takes a lone date for the last
   day, the normalizer for the first, and of "2026년 8월 1일 ~ 2026.08.31" the
   gate reads two days, the normalizer the second one only: a policy whose only
   date for the normalizer lies ahead passes as open and is stored as scheduled.

## 6. Proofs

Seven modules prove the theorems below, for every value of the constants: any
sets of runs, workers, policies, pages, releases, operators, any questions, any
number of retries, faults and attempts, and no bound of section 3; an eighth,
`SequenceFacts`, has lemmas only. Every safety invariant and every action
property of the passing runs, and the refinement, is stated by one of them. All
but `ContractIsOne`, which is about programs and not behaviours, rest on an
inductive invariant that TLC found to hold on the instances before it was
proved.

| Theorem | Property | Inductive invariant, and why the property alone is not inductive |
|---|---|---|
| `CollectionQueueProofs!TypeCorrect` | `TypeOK` | itself: beyond types it has that the table meets its constraints, messages and tasks name existing runs, and a process at a `...Write` step has loaded an open row |
| `...!ClosedIsClosed`, `...!RowsFollowLifecycle` | `ClosedStaysClosed`, `LifecycleSpec` | `TypeOK`, through `TableMoves`: each step leaves the table alone, inserts one accepted row, or moves one row forward |
| `...!MutualExclusion` | `OneCollectorPerSource` | `HoldsItsLock`: a worker inside the lock whose session lives is the holder; the property does not say that the lock is taken |
| `...!OutcomesAreTrue`, `...!EvidenceIsUndisputed` | `SuccessWasImported`, `PromotableIsUndisputed` | `RunsInv`: what is on its way to a row (`ResultsMatch`, `SessionsBlank`) is as true as what is in it, and all who may still close a run agree whether it was asked for a complete snapshot (`OneAnswer`) |
| `...!RunsAreAttended` | `OpenRunIsAttended` | `OpenRunsInHand` and `RetriesLeft`: an open run has a message, or a process at a step from which it still closes, publishes or retries |
| `PolicyStoreProofs!SeenNeverRegresses`, `...!AbsenceIsProven`, `...!ActivationsAreWhole` | `RowsNeverRegress`, `OnlyProvenAbsence`, `ActivationIsWhole` | `StoreInv`: what is pending is not older than what is committed and nobody else's; an import that marks had a complete batch without invalid records, and marks nothing that was published when it began to; an installation has written, or has still to write, all of its artifact; one installer at a time switches |
| `AdminAccessProofs!SessionsProveThePin` | `LiveTokensProveThePin` | `SessionInv`: what a token or a request carries is no newer than the row, and of the same generation has its PIN |
| `...!LimiterIsFair` | `LockoutsAreEarned` | `LimiterInv`: a count and the failures still to be counted or stored are no more than the failed logins, and as many unless requests overlapped; what a request has read it stores with the lockout of that count |
| `HttpClientProofs!PacingHolds` | `SlotsApart` | `SleepCoversInterval`: who sleeps holds the lock, and sleeps out what is left of the interval |
| `RawCollectionProofs!ManifestsAreWhole`, `...!ReplaysAreWhole` | `ManifestIsWhole`, `ReplayIsWhole` | `SnapshotInv`: an accepted page has one document of each item seen on it and the details it wants; as long as the list is quiet, nothing that was taken is gone; what a manifest names is stored, and of each identity a newest document exists; a known manifest can be read from what a replay has read |
| `...!LatestIsOfOne`, `...!SnapshotDecides` | `LatestIsOfOneCollection`, `SnapshotDecidesOnTheBundle` | `BundleInv`: the list of a collection is stored before its other documents; what is saved, or still to save, is what was verified |
| `...!AcceptedAreOpen` | `AcceptedIsOpenByAPage` | with `BundleInv`, `NumbersInv`: collection and number tell details apart, what is stored of the collection at work is what it gathered, and statuses and periods are such as parsers find |
| `RegionalCollectionProofs!CapturesAreBacked`, `...!CompleteImportsAreWhole` | `CapturedHasRaw`, `CompleteImportIsWhole` | `CheckpointInv`: a checkpoint in the file or on its way to it is backed by documents that nobody takes back, or that its own task holds; captures held by two tasks are apart. For the second `WholeInv`, with `TypesInv`: after a clean import what the replay accepted is active until the next inactivation, and the final decisions of captures it has read are the replay's |
| `...!CheckpointsLoad`, `...!WalksLoad`, `...!CollectionsLoad` | `TypesOK`: of the processes, of the walk, of either way | `TypesInv` and `WalkInv`: every checkpoint and decision on its way to the file has its type, and what is to be written is what the constructor accepts |
| `...!CheckpointKeepsItsWord`, `...!InactivatedWereUnseen` | `NothingIsForgotten`, `OnlyUnseenPoliciesEnd` | `AloneInv`: while not `crowded`, one process at most is at work, what it will write goes on from what the file says, and what an import ends policies by is what it has just written |
| `...!CompletionsAreEarned` | `CompletionIsEarned` | `WalkDocsInv`: until the list ends, the checkpoint holds whole pages, in the order the walk saw them, and each identity before the walk's place has a detail in Raw that no failing batch takes back |
| `...!CollectionsAreBacked`, `...!CollectionsForgetNothing` | `CapturedHasRaw`, `NothingIsForgotten`, of a source collected in either way | `CollectionInv`: the invariant of the way that is taken |
| `ReleaseProofs!PointersAreWhole`, `...!InstallationsAreReleases` | `LatestIsWhole`, `InstalledWasReleased` | `PublicInv`: see below |
| `...!RestoresAreWhole` | `RestoreIsWhole` | `AcceptanceInv`: a manifest names a dump, a volume without a schema has no rows, what an operator has reached stands, and an undisturbed one finds what it will check next |
| `...!ImportsAreJudged` | `ImportIsJudged` | `RulesInv`: stored rules are as old as their columns, and so are those of columns in hand unless their aggregator was imported since. `ImportInv`: policies are read after the manifests of their snapshots, and are no newer; a replay's programs are classified as the normalizer classifies them; from the saving on, the manifest of the replay is on disk |
| `...!AppliesAreWhole` | `ApplyIsWhole` | `ReviewInv`: as long as nothing else has changed since the audit began, what it wrote, and what an apply has read of that, is what it would write now; what an apply has done of its manifest is stored and recorded |
| `...!ContractsAreKept`, `...!GatesAreCautious`, `...!RegionVerdictsAreSound`, `...!SearchesAndRecommendationsAgree`, `...!EntriesAreEarned` | `ContractIsKept`, `GateIsCautious`, `RegionVerdictIsSound`, `SearchAndRecommendationAgree`, `EntryIsEarned` | `JudgeInv`: an answer is the part's own answer to the question asked. The rest is about the part, for any question: see below |
| `...!ContractIsOne` | none: for every program, the constructors accept it exactly when the validator finds no issue; contracts and installations rest on it | none |

**How the arguments go.**

* *Races of closers.* A flush from a row loaded open makes `status` and
  `finished_at` dirty, so the result is closed whatever the row holds by then
  (lemmas `ClosingRow`, `Closing`). Columns that are not dirty keep what an
  earlier closer wrote. If the run was asked for a complete snapshot, whoever
  closes it as failed leaves his count in the row; if it was not, nobody claims
  one. `OneAnswer` says so, and that makes the promotion gate sound after a race.
* *Attendance* assumes `LosesNoRun`: no hard time limit, no exception out of the
  task and no lost client, because each of these does leave a run that nobody
  works on (it is closed as stale later, see `LostRunIsReplacedInTime`). Lost
  workers, doubled messages and broken lock sessions are included.
* *Store.* The unique index on the active installation makes one installer wait
  for the other, so what it deactivates is what is active when it commits
  (`SwitchInv`, `After`).
* *Checkpoints.* A task numbers its captures when it starts, so two tasks never
  hold the same (`WritersOK`), and a task that fails takes back its own only
  (`Undo`): documents outside all held captures stay (`StableIn`). A task earns
  its checkpoint when its last document is stored, and puts the file in place
  in the step that ends its hold. Nothing here needs the processes to take
  turns; that the file loses nothing does (`RecordedCapturesStay` is violated
  without), and then an operation's own guard carries it: a discovery needs an
  open list, a capture new identities, a recovery failed ones.
* *The walk over a list.* Every run of the HTTP script starts at page 1 and
  compares what it sees with the checkpoint. While the list has not ended, the
  checkpoint's identities are those of whole pages (`HasWholePages`), and the
  pages seen so far in this run begin them (`Starts`); between two requests the
  file says what the script believes (`FileIsCurrent`). A page that is new is
  added whole and in order: an arrangement of distinct identities that keeps
  their order is the identity (`WholeInOrder`, `GrowingIsIdentity`). A batch
  that fails takes back documents with its own number only, and the file relies
  on none of those (`Kept`).
* *Reviews.* A manifest is a function of the evidence, the baseline and the
  number of policies, and that number leaves out the policies the manifest
  promotes. As long as nothing else has changed since the audit began, what is
  stored beyond what the audit saw is promoted by this manifest (`Backed`), so
  both counts agree (`BaselineStays`): an apply that died can be repeated, and
  drift means that something else changed. A source counts as done only when
  its policies are in and its record says so.
* *Releases.* Assets are uploaded one by one, a job may end after each, and the
  next job must use another version; so the assets of a version are files of one
  directory (`Uploads`), and a manifest that is there covers every source and
  names an importable dataset (`Good`). Hence what is whole stays whole
  (`WholeStays`), and pointer, rollback, download and installation only ever
  carry whole releases. That nothing exported is refused by an installation
  rests on `ExportedIsImportable`: what the constructor of a program accepts has
  no semantic issue for the validator (`ProgramHasNoIssue`, the two forms of the
  contract), and the export classifies without warnings, as an installation does.
* *Merged pages.* A fold over a sequence is built up prefix by prefix
  (`FoldExists`: for any steps there is a sequence of partial results;
  `FirstNumbers`: a prefix is one element more than the one before), and a
  property of the partial results is carried along by `StepByStep`, which is
  induction over a set of numbers and so needs no operator for a parameter.
  Merged in the order of their numbers (`DetailsInOrder`, `MergedInSteps`), the
  pages of a policy never say a status or a period that no page says
  (`SaidByAPage`), and a detail that opens by its period is dated.
* *The normalizer.* Region rules are a fold over the evidence
  (`RulesStepByStep`): at every prefix the rules are those of the evidence so
  far, each once (`RulesAreOfEvidence`). Ages and periods come out in order
  (`AgesAreOrdered`, `PeriodsAreOrdered`), so what can break the contract is
  evidence alone, and it does exactly when it contradicts itself
  (`RulesKeepContract`, `InvalidContradicts`).
* *Verdicts on regions.* The tree is any finite one without circles. What a
  region lies in is a chain upward (`UpwardIs`); regions that share a district lie
  one in the other (`DistrictsMeet`), and every region has a district
  (`EveryRegionHasADistrict`). Hence what the code decides by walking up from
  the query is what the districts say (`VerdictOnDistricts`).
* *Entry.* A gate that accepts has confirmed its reasons on texts of the item
  (`ConfirmedByItem`, `GateDecision`, `YouthDecision`); every region those texts
  name is in the province (`NamedRegions`), so the rules include the province
  and nothing outside (`RulesOfNamed`) and a search finds the item there and
  nowhere else (`FoundThere`). Where both patterns match the same dates, gate
  and normalizer take the ends of a period from one list (`PeriodsAgree`).
  A review's answer is taken apart reason by reason (`AdmissionOnCandidate`).
* *Restores.* A dump is never empty because the accepted data has collection
  runs, so a volume with rows is not loaded twice; the guards of a second
  operator fail on what the first one did.

**Assumptions** are those the modules name, and TLC evaluates them in the runs:
process sets do not overlap and `None` is none of the values it is told apart
from (`RolesAssumption`, `NoneAssumption`, `AccessAssumption`,
`ConfigAssumption`, `StoreAssumption`); bounds are numbers; artifacts have rows
and their rows have content (`StoreAssumption`); a stored program has the fields
of `NormalizedProgram` (`ContentsAssumption`); the accepted database has
collection runs (`AcceptanceAssumption`); identities are numbers
(`BundleAssumption`, `SnapshotAssumption`, which also has the limits that the
code checks on its arguments); sizes of pages and batches are numbers and lists
are sequences of pages (`TraversalAssumption`); pages of a regional list
name no identity twice, which the checkpoint requires of a page, and what a detail shows is not
"failed", which is the outcome of having none (`CheckpointAssumption`); items
under review have been normalized before, and their admitted forms can be
(`ReviewAssumption`); a page says a status of its own or a period of days, as
the parsers leave it (`PagesAssumption`); regions form a finite forest in which
no province lies in another (`TreeAssumption`); a source stands for an active
region and what lies in it, each named by its full name alone
(`SourceAssumption`); evidence names regions, stored coverages fulfil their
contract, only active regions have aliases, and an item can be made a program
(`IsQuestion`, `JudgementAssumption`). None restricts how many there are.

**Only model-checked.**

* Everything under fairness (`EveryCarefulRunCloses`, `LockIsReleased`,
  `LostRunIsReplacedInTime`, `RequestsEnd`, `GoneBecomesInactive`): outside the
  reach of this prover.
* What the five runs that expect a violation ask: each is refuted, and stays so.

## 7. Not modelled

* *Whole components*, with the reason in `PROJECT.json`: pages of logs and
  collector status, the web frontend, parsers of external pages, deployment
  scripts and the interactive browser runtime. They read, lay out, or depend on
  formats of others.
* *Queue*: the import is one step with its possible outcomes, because its
  transactions are in `PolicyStore`; counters other than failures; trigger and
  run types, which no step reads; a soft limit that strikes inside the release of
  the lock; several outages of the broker in a row; the acceptance probe and the
  rate limit. Two hours pass whenever `GrowStale` says so.
* *Store*: search documents and region rules, which the same transaction writes.
* *Access*: hashing, signatures and expiry; a token is its generation.
  `docs/api/admin_access.md:131` counts every failure and knows no lockout that
  is shortened; without a lock, failures that overlap count as one, and a stale
  writer stores a shorter lockout over a longer one. The model has both, and
  `LockoutsAreEarned` says what is left: exact counts when none overlap, never
  an early lockout.
* *Collections*: fields of documents, formats, redaction; a page is what a
  parser finds on it. A source is collected by one process at a time, as its
  lock says.
* *Regional expansion*: fields and URLs of captures, checked before anything is
  read; the profiles of the sources. A discovery may amend whatever
  `_store_discovery` distinguishes, and an audit is not held to
  `counts_reconciled`: both do a little more than the code.
* *Texts*: dates, words, titles and names are what the patterns of the code find
  in them; compared texts are equal, contained or neither. Money, links and
  wording are left out.
* *Search*: tokens, ranking, sorting and pages; of the words of a query, those
  that name a region, an age, a status or a category.
* *Promotion*: figures of the reports; hashes are equal only for equal files.
  The pointer is replaced in one step, though `gh release upload --clobber`
  deletes the old asset first: who dies between leaves no pointer. That
  what is exported is what the checked runs imported is no property: a run that
  ends in between changes the export.
  Collections go on during a promotion, because nothing keeps the script from a
  database in use.
* *Known, without a property*: without a manifest a replay keeps one page of
  each policy although several were verified (`SupplementalBundle!LatestBatch`);
  a name in a query that several regions share is resolved to the first of them
  (`PolicySearch!Interpret`), although `docs/product/features/search_and_discovery.md:49` calls it
  undecided. The models show both.

## 8. Plan

Every safety property the runs check is proved. What would come next:

1. A property for the two known cases of section 7, once it is settled what the
   code should do: the pages of a replay without a manifest, and a name in a
   query that several regions share.
2. The interactive browser capture and the parsers of the remaining sources,
   whose order of requests resembles `SnapshotCollection` but has no manifest.
3. Search documents and region rules inside the transactions of `PolicyStore`,
   so that `RuntimeGate` can read them from there.
