# Project RAG and Docs RAG: a verification project

The repository is a personal retrieval system in Bun and TypeScript: *Project RAG* indexes source
trees, *Docs RAG* indexes documentation corpora, both over Postgres; an MCP server and the command
line `ragctl` are the ways in. This directory holds TLA+ modules of the parts of it where
concurrency, failure and ordering decide correctness, the TLC runs that check them on small
instances, and TLAPS proofs of their safety properties for every instance.

Paths below are relative to `src/`; `ST` is `scripts/project-rag/store.ts`, `IG` is
`scripts/project-rag/ingest-postgres.ts`.

## 1. The system

| part | state it keeps | operations | what makes it hard | what must hold |
|---|---|---|---|---|
| Durable jobs (ST 5640-6330, `transaction.ts`, migrations 008 and 012) | `project_jobs`: status, attempts, fence token, lease, availability, cancellation request, bound snapshot | enqueue, two claims, renew, checkpoint, bind, block, finish, fail, cancel, resume, dead-letter, recover, fenced units | several processes, lapsing leases, rows locked or skipped, stale holders | one owner per row; stale holders write nothing; one active job per key; attempts bounded; settled is final; cancellation sticks |
| Job worker (`job-worker.ts`) | in memory: claim, `leaseLost`, heartbeat timer, deadline | claim loop, heartbeat, run, settle | timer beside the main path; errors swallowed; crashes anywhere | only table operations have effect; no row is stuck |
| Preparations (`prepare.ts`, `verify-postgres.ts`) | `activePreparations`: one promise per preparation and process; batch, progress | verify, enqueue-or-join, claim or poll, verify again, ingest a batch, answer | several processes share one row; the tree changes under them; attempts fail with the row or the snapshot left behind | "ready" is true; asking again gets there |
| Snapshot gate (ST 4880-5640, migrations 003, 013) | `project_ingest_snapshots`: plan hashes, status, expiry, lease | prepare, claim, renew, consume, fail, sweep | concurrent claims, leases, expiry | one consumer; deletions without evidence need a review; ended stays ended |
| Snapshot review (ST 5078-5290, migration 005) | reviews, decisions | approve, defer, reject | statements of two operators overlap | decisions are terminal |
| Gated ingest (IG 900-1500 and 480-890, `snapshot-policy.ts`) | in memory: plan, todo sets; `project_files`, `sync_runs`, builds | preflight, prepare or resume, claim, second scan, delete, write, promote, complete, partial, abort | the tree changes; leases lapse during slow calls; parallel tasks; two processes; death half-way | published is what was planned; only a live claim writes; outcomes agree |
| File versions, index builds (ST 900-1310 and 2200-3350, migrations 007, 010, 011) | versions, chunks, symbols, edges, embeddings; builds and a pointer | upsert, recover, promote, resolve edges, build, publish, retire, collect | collection against readers and writers; ingests that stop half-way | what a reader can reach is complete and stays |
| Project reads (`mcp/project-handlers.ts`, `project-read-overlay.ts`) | the build a request has bound | bind, check the overlay, search, navigate, fetch | the build is swapped or collected between two statements | an answer is of one build; a covered answer is of the tree |
| Docs source generations (`scripts/docs-rag/store.ts` 1223-2253, migration docs-rag 004) | generations, documents, pointer per source | create, upsert, finalize, publish, collect; corpus ingest | slow embedding between two transactions; two runs of one source, retries and deaths half-way | searches see one complete generation; a published one is immutable |
| External documentation sync (`scripts/sync-external-docs.ts`) | clone directory, processed tree | fetch, hash, process each file, publish | files are read twice; runs share the directory | a generation is one snapshot of its source |
| Migration runner and write fence (`scripts/db-migrations/`) | ledgers, advisory lock, maintenance marker, plans, receipts, audit | plan, back up, drain, apply, recover; isolated apply and adopt; shared lock of writers | crash between script and ledger; lost session lock; scripts edited between plan and run | no write during maintenance; the ledger tells the truth; reopened is whole |
| MCP server, rate limiters, deadlines | rate logs, timers | dispatch, check, race | nothing: check and extension are one synchronous step, a deadline races two promises of one call | tests cover them |
| Embedding, search, chunking, registry, CLI, eval | none that outlives a call, or one statement | | numeric or textual | tests cover them |

The parts meet in Postgres. A command (or a job's run) starts an ingest; the ingest prepares a
snapshot at the gate, claims it, and writes only in transactions that lock and check the snapshot
row (`withProjectRagSnapshotFence`), and, when it runs for a durable job, the job row as well
(`beginProjectRagFencedWrite`). The completing transaction publishes the build, consumes the
snapshot and settles the job together. Operators step in by single statements: reviews,
cancellations, resumptions. Every write transaction also takes the shared migration lock.

`PROJECT.json` lists every component with its status, and under `hazards` what can go wrong in the
code and a test would hardly reach, each at its line with the properties that watch it.

## 2. The modules

```
ProjectJobs  <--extends--  JobWorker          SnapshotGate  <--extends--  GatedIngest
     |                         |                   |                          |
ProjectJobsProofs  <--  JobWorkerProofs       SnapshotGateProofs  <--  GatedIngestProofs

DocsGenerations  <--  DocsGenerationsProofs     Preparations  <--  PreparationsProofs

MaintenanceFence  <--implements--  Migrations         PublishedBuilds  <--implements--  IndexVersions
                                       |                                                     |
                                MigrationsProofs                                     IndexVersionsProofs
```

`ProjectJobs` and `SnapshotGate` are the abstract specifications: a table and everything anybody may
do to it, in any order. `JobWorker` and `GatedIngest` are the programs that use the tables, with
their own control flow; each is shown to implement its table (properties `RefinesJobTable` and
`RefinesGate`: the variables of the table are the program's own, so the refinement mapping is the
identity and the property is the table's specification itself). `MaintenanceFence` and
`PublishedBuilds` are abstract specifications with variables of their own, a database that is open or
closed and a sequence of builds that each show something fixed; `Migrations` and `IndexVersions` are
shown to implement them under a refinement mapping (`RefinesFence`, `RefinesBuilds`). `MC*` modules
only add symmetry, where actors are interchangeable, and values that a .cfg cannot write.

### ProjectJobs: the job table

| TLA+ | code |
|---|---|
| `job[j]` | a row of `project_jobs`; `ready` is `available_at <= now`, `lease` is what the guards can tell of `lease_expires_at` (none, fresh, due, expired) |
| `held[w]` | the claim object a process keeps in memory; nothing tells it that the row has moved on |
| `unit[w]` | a transaction of `transaction.ts` is open and holds the row lock |
| `wrote[j]` | history: the fence token of the last protected write |
| `ClaimOldest`, `ClaimById` | `claimNextProjectRagJob`, `claimProjectRagJobById`: `FOR UPDATE SKIP LOCKED`, `attempts < max_attempts`, fence + 1 |
| `OpenUnit`, `CommitUnit`, `SucceedUnit`, `FailUnit`, `RollBackUnit` | `beginProjectRagFencedWrite`: lock and check, operate, check again, commit |
| the other actions | one per exported function of the same name in ST |

### JobWorker: the processes

`stage[w]` is the program counter of `runProjectRagJobWorker` or of `coordinateIngestDefault`;
`lost` is `leaseLost`; `todo` counts the protected units the ingest has left. `Heartbeat` is the
timer: it runs from the claim until the `finally` (`Leave`), while the row is being settled and after it
too. `Finalize` may end in `threw`: the unit has settled the row, the ingest throws all the same and the
handler reports the failure again. `Crash` forgets all memory; the rows stay. A statement that
settles a row may fail, and the code ignores that (`SettleThrown`, third disjunct). `Clear` is what a
round starts and ends with: nothing lost, nothing to do, no target.

### SnapshotGate: snapshots, reviews, decisions

One action per operation. An operator's `INSERT ... SELECT` is two steps: `Look` evaluates the
conditions in the MVCC snapshot of the statement's start; `Approve`, `Defer` or `Reject` is its
effect, after it got the advisory lock. The lock is taken by the statement itself, while it runs,
so it does not order the reads of two overlapping statements. The unique indexes
are the only other thing the effect still obeys.

### GatedIngest: the ingest

`at[p]` is an ingest in a process: stage, snapshot, plan, and the sets of files still to delete
(`drop`), to write (`todo`) and to promote (`done`). `plan[s]` is what the hash columns of the
snapshot row bind. `disk`, `scan` are the world; `index` is `project_files` with latest and active
version; `published` is the published build. `stray` is an ingest that has aborted and whose
parallel file tasks still run. Every unit after the claim is fenced (`Fence`). `Refuse` is what the second
scan answers, `Throws` what is thrown around it: `failClaimedOnError` and the abort of a sync run that did
not start fail the snapshot and leave (`ThrowAtScan`); a file that goes while the candidates are listed
fails it when the sync run is already on record (`ThrowAtStart`).

### DocsGenerations: documentation corpora

`gen[g]` is a row of `docs_source_generations` with its documents, `pointer` the row of
`docs_source_generation_pointers` that searches join through, `clone` and `processed` the two
directories. `at[w]` is a run of either program: its stage, key, generation, what it has read (`got`)
and the documents left (`todo`). `ScanClone` takes the manifest and `ReadAgain` reads a file later;
`ScanCorpus` reads everything once. `JoinStaging` is the branch of
`ensureDocsRagSourceGenerationWithSql` that finds a staging row, `FindPublished` the one that finds a
published row. The status is checked before and after the embedding; only the second check, in the
transaction of the upsert, has effect (`Upsert`). `Publishable` is the check of
`publishDocsRagSourceGenerationWithSql` and of the triggers behind it; `Publish` moves status and
pointer together. `Leave` is a death or an exception at any point, `DocumentFails` one the loop catches.
`Replaces` is what a sync does to the shared clone; the history variable `raced` remembers that one did
it while another was still to read, and nothing in the model reads it but `ServesOneSnapshot`.

### Migrations: the migration runner, the official operation, the write fence

| TLA+ | code |
|---|---|
| `db[l]` | a lane's database: `done`, the scripts whose changes are in the schema, and `ledger`, its ledger table |
| `files` | the scripts of the working tree; a manifest is what they were when somebody read them |
| `lock`, `marker` | the exclusive session lock of `runner.ts`, the row of the durable maintenance marker |
| `plan[o]`, `receipts[o]`, `audit[o]` | an official plan with manifest and status per lane, its backup and drain receipts, the records appended for the operation |
| `run[o]` | the process of an operation: stage, mode, the operation it recovers, the lanes left, the next script |
| `writer[w]` | a write transaction: connected, holding the shared lock, past the marker |

`Classify` and `Adoptable` are `classifyLane` and `buildAdoptionChallenge`. `RunScript` and
`RecordScript` are two steps: a script is sent as a batch of its own (`db.unsafe(item.sqlText)`,
runner.ts:2605) and its ledger row is a later statement (runner.ts:2620). `Establish`, `DeclareTakeover` and `TakeOver` are the two ways to the marker: an
empty marker is taken, a foreign one only by a recovery that names it and writes that down first.
`Close` is every end of a connection, whatever the cause: it releases the lock and leaves marker and
schema. `TakeFence` and `PassMarker` are the two statements of `write-fence.ts`.

### IndexVersions: file rows, versions, builds, readers

| TLA+ | code |
|---|---|
| `file[f]`, `version[v]` | `project_files` with latest and active version; `project_file_versions`, a content standing for text, hash, chunks and symbols, `target` for the resolved edge |
| `build[b]` | `project_index_builds` with its file rows and the identity (`revision_id`) it was published under |
| `run` | the ingest that holds the gate; `GatedIngest!WriterAlone` is why there is one |
| `reader` | one MCP read: the build it bound, the file it asked for, what it got |

`Scan` decides what is current, what is recoverable and what has vanished, under the file budget of
the batch; `Delete`, `Write`, `Block` and `FileError` are the tasks of the write phase, `Link` the
resolution of edges, `Promote(S)` the promotion of the versions whose embeddings (`S`) are there,
`Publish` and `Abandon` the ends of the run, `Collect` the collector of builds and versions. `Bind`,
`Check`, `Search`, `Locate` and `Fetch` are the statements of a read. `PublishedBuilds` forgets files
and versions: `Publish` numbers a build and fixes what it shows, `Collect` spares the build published
just before the serving one. The system starts empty, or from an older index that migration 007 takes
over: `LegacyBuild` enters every file that has an active version, blocked and deleted ones too, and its
identity is not one that a read could verify. `Baselines` are the older indexes considered.

### Preparations: preparing a project

`JobWorker` follows one claimed row through every statement. `Preparations` looks at the same programs
from the caller's side: what `prepareProject` does from a call to its answer, over many batches and
rows.

| TLA+ | code |
|---|---|
| `prep[p]` | the entry of `activePreparations` in a server process: where it is, its batch, what the verification read, what the last batch brought and left |
| `job` | the row that holds the project's dedupe key; a row that settles gives the key back and is remembered only by those who poll it (`ended`) |
| `gate` | the process whose ingest has claimed the project's snapshot |
| `served`, `stale` | the identity of the serving build; the files whose present text the index lacks |
| `seen[p]` | history: the index has had the whole tree at some moment of the preparation |

`ReadServing` and what follows it are the two halves of `verifyProjectRagPostgres`: the serving state is
one statement, the tree is looked at later. `Enqueue` joins the row that has the key, whatever it waits
for; `Claim`, `Wait`, `Learn`, `GiveUp` are the poll. `AlreadyReady` and `GoOn` are the verification under
the row; `GoOn` also resolves the identity under which the ingest will publish, the first scan comes
later. `Review`, `Refuse`, `ClaimSnapshot`, `BindThrows` are the ways into the gate, `Rescan`, `Write`,
`Publish`, `EndPartial` the ingest with its budget, `AnswerReady`, `NextBatch`, `AnswerUnready` the
decision after each batch. `Abort` is everything that throws and a death: the unit that fails the
snapshot and the unit that reports the row's failure each take effect or do not.

## 3. The runs

| run | instance | shows |
|---|---|---|
| `jobs` | 2 rows, 2 processes, 2 keys, 2 attempts, 1 snapshot | fences, units, keys, settled rows, cancellations |
| `worker` | 1 row, a worker and a coordinator, 2 attempts, 1 write | the processes implement the table; rows move, claims end |
| `gate` | 2 snapshots, 2 operators | one consumer, a current review at the claim, endings and consumptions final, with operators racing |
| `ingest` | 2 processes, 2 snapshots, 1 file with 2 contents, 1 change | fenced writers, agreeing outcomes, the plan is what is published, refinement of the gate |
| `reviewed_ingest` | 1 process, 1 operator, 2 files, full and single-file scopes, 2 changes | no removal without evidence |
| `docs` | 2 external syncs and a corpus ingest, 2 of them at a time, 1 path with 2 contents, 2 generations, none kept | what serves is whole and immutable while runs of both programs share keys and clone, stage, fail, die, join, publish and collect; it is of one snapshot unless the clone was replaced under a run |
| `migrations` | 2 operations, 2 lanes of 2 scripts, 1 edit of a script, 1 writer | the ledger is true, what runs is what was planned, the database reopens whole, takeovers are on record, refinement of the fence, with deaths anywhere |
| `index` | 2 files, one of them blocked, 2 contents, 3 versions, 3 builds, 1 edit, a reader; empty or any older index of one text | builds are whole and fixed, a full ingest publishes its tree, a reader survives a swap, refinement of the builds |
| `preparations` | 2 processes, 2 files, 1 operation a batch, 2 batches, 2 attempts, 2 edits, 2 failures | "ready" was true; callers who ask again get the tree indexed |
| `approved` | 1 process, 1 operator | the code does not do what its texts say, section 5 |
| `index_covered`, `index_graph` | as `index`, both files readable | likewise |

**Bounds.** `NumJobs`, `NumSnaps`: rows ever inserted. Two rows make two holders of
one key, an older row in front of another, and two claims of one project; the properties speak of
pairs of rows at most. `MaxAttempts` = 2 gives a first, a last and an exhausted attempt.
Two processes per row are a stale and a live owner; the proofs cover any number. `MaxWrites` = 1
gives an ingest that refuses or throws before, between and after its units. `Versions`, `MaxEdits`
bound contents and changes of the tree: one change between any two steps of an
ingest is what the second scan, the fence and the plan must survive; two make a file vanish and the
scan's verdict change. In the runs of the ingest the second process, the second
file and the operator each have their run: all three together are beyond five minutes, and
the properties they could break jointly are proved for any number of each (section 4). `ingest` has no
operator, and loses nothing by it for `OutcomesAgree`: operators decide only about snapshots that need a
review, and those never start a sync run (`ApprovalsConsumeNothing`). What operators can do to a
consumption is therefore asked of the gate, where a claim needs nothing but the approval: `ConsumedIsFinal`
in `gate`.

For documents, 2 external syncs of one source have equal keys when the upstream has not changed: one may
still stage a generation that the other has published or collected, and one may replace the clone under
the other. The corpus ingest has keys of its own kind and moves the pointer between them. At most
`MaxRuns` = 2 runs are under way at a time, of any programs; a third comes when one has ended or died. 1 path
with 2 contents gives generations of different content, and one not yet staged; 2 generations with
none kept are a serving one and a collected one. A run that dies leaves a staging generation for the next
to join. The upstream has a document whenever a sync fetches it (`Upstream`); a copy in progress may be anything.
`ServesOneSnapshot` is asked of the states before a clone race (`raced`). With 1 path a
generation is either empty or whole; that no half-staged one serves, for any number of paths, is the
theorem `SearchesSeeWhole`.

For migrations, 2 operations are a dead one and the one that recovers it, or two that race for the
lock; 2 scripts give an empty, a partial and a full ledger, with a crash between script and row at
either; 2 lanes give a database that is half migrated; 1 edit is a manifest that is no longer the
planned one. No script is taken to be rerunnable (`Rerunnable` = {}): the ones that are could only
help. For the index, every older index of the files with one text is a beginning (`Legacy`), so a blocked or
deleted file can be in the first build, and only there; 3 versions and 3 builds are a collected, a retired
and a serving build and versions that are superseded, pending and active; 2 files are one that changes and
one that must not be touched by it. Each of `docs`, `index` and `preparations` passes a million
states; the theorems below cover every other size.

For preparations, 2 processes are an owner and one that joins, polls and takes over; 2 files at 1
operation a batch make every batch but the last partial; the tree is edited twice, and what the second
edit leaves deletes without evidence, so that a review is due (`Reviewed`); 2 failures lose both
attempts of a row, leave a snapshot claimed or fail a file twice. The code allows 3 attempts and more
batches; one more of either repeats a middle one.

**Deadlock** is checked in `index`, `index_covered`, `index_graph` and `preparations`, whose systems never
stop. In the others it is not: their rows and operations are bounded, and with every row settled, every
snapshot ended or every operation run the system has nothing to do. That it does not stop earlier is
what the liveness properties say.

**Fairness** in `JobWorker` is for four things: each process goes on with its code (weak fairness of
`ProcessStep`: loops and timeouts of the code end, a worker polls for ever, a crashed process is
restarted by its supervisor); the lease of a row nobody renews runs out; the delay of a retry passes.
No fairness for `Heartbeat`, operators, crashes or errors: the timer may be starved, and nothing obliges
an operator. `RecoverStale` has none because no code under `src/` calls it outside tests. In
`Preparations` it is for three: a process with a preparation goes on, and a client that was answered
asks again (weak fairness of the disjunction `Step(p)`; which alternative is taken is the code's, and a
poll may always give up); `BecomesDue`; `GateLapses`. Failures and edits have none, and both are
bounded: the property is about what happens when they stop. The other modules state safety only.

**Mutants.** Each property of a passing run has a mutant: an operator next to the original it
replaces, marked `Mutant:`, with the change a plausible bug would make (a dropped guard, a
`<=` for `<`, an unfenced write). TLC finds each of them.

## 4. The proofs

All are checked by TLAPS from nothing, for any sets of processes, keys, files and operators and any
bounds; assumptions are the named `ASSUME`s of the modules (naturals for the bounds, null values
outside the sets, at least one attempt), which TLC evaluates in the runs.

- **ProjectJobsProofs.** `JobsInvariant`: `Spec => []JobsInv`. The properties are not inductive by
  themselves: that two processes never own a row (`OneOwnerPerJob`) needs that claims of one row
  have different fences (`ClaimsAreDistinct`), which needs that no claim carries a fence from the
  future (`ClaimsArePast`), since a claim takes fence + 1. That an open unit keeps its row needs the
  row locks (`UnitsAreOwned`): every action but the owner's passes or waits for a locked row. The
  proof has a lemma per conjunct group and a case per action; `TypeCorrect`, `FencingExcludes`,
  `UnitsExclude`, `KeysAreUnique`, `BudgetHolds` (`RetryBudget`, which is in no run) follow.
  `SettledRowsAreFinal`,
  `CancellationSticks`, `WritesAreFenced` are the action properties, from the same invariant.
  `SpentRowsAreStuck` proves the eternal running row of section 5, for behaviours without the
  recovery of stale rows, which are those of the code.
- **JobWorkerProofs.** `WorkersRefineJobTable`: every step of a process is a step of the table or
  leaves it alone, so every theorem above holds of the processes (`WorkersExclude`, `WorkersKeepBudget`).
  `WorkersTyped` is not only about types: claims change in the table and stages in the processes, and
  `Matched` says of each process that it holds a claim exactly when its stage has one and has a unit open
  exactly while it writes. It is inductive together with the table's `TypeOK` and with `WaitersOK`.
- **SnapshotGateProofs.** `GateInvariant`: types, `OneConsumer`, that every plan in the gate has a verdict
  (`PlansKnown`), that a claimed or consumed plan that deletes without evidence has been reviewed
  (`GatedAreReviewed`), and that a statement in flight is about a snapshot that needed a review
  (`FlightsGated`). From it the action properties, for any number of operators: `ReviewsGate` (the review is
  there and current at the claim), `AbandonedFails` (`AbandonedOnlyFails`, which is in no run), `EndingsStay`,
  and `ConsumedStaysConsumed`: of all steps only a rejection rewrites a consumption, and only one of a
  snapshot that was approved. Nothing is supposed of the operators; the race of two reviews (section 5)
  is in the statement.
- **GatedIngestProofs.** `IngestsTyped`; `IngestsRefineGate`, from which the ingests keep what the gate
  promises (`IngestsKeepTheGate`); and `WritersAlone`, the main one. Its
  invariant adds to `WriterAlone` that the ingests under a live claim are one (`OneConsumer` of the
  gate, and no two processes hold one snapshot), that the sets `drop`, `todo`, `done` are disjoint
  and belong to the plan, and that a stray task that passes the fence would need a
  live claim its abort has ended. On it rest three more:
  - `OutcomesStayOne`: a sync run changes only under a live claim and closes together with its snapshot
    (`SyncSteps`), a snapshot is consumed by `Complete` alone (`ConsumptionCompletes`), and neither ending is
    overwritten: a statement of an operator is about a plan that needs a review, and no such plan starts a
    sync run or is consumed. For the same reason `IngestsKeepConsumed` holds without any exception: the
    race of two reviews is a fact of the gate that no running ingest can meet.
  - `RemovalsEvidenced`: the build that leaves a file out may come long after the step that dropped its row,
    from another ingest. `EvidenceInv` carries the evidence from the drop on: a writer drops only what its plan
    deletes (`Planned`), the plan of a snapshot in use is frozen (`PlansKept`), and a published file is indexed
    with an active version or was missed by a complete scan (`DropsEvidenced`). `ApprovalsConsumeNothing`, the
    finding of `approved` for every instance, follows from the same invariant.
  - `PlansArePublished`: `TrackInv` adds that every file of the scope is done, still before the writer, or as
    planned (`OnTrack`), and that a ready version is the active one (`ReadyIsActive`). That nobody else moves a
    file in the meantime is `WriterAlone`.
- **DocsGenerationsProofs.** `DocsInvariant`; `SearchesSeeWhole`, `PublishedStays`, `DocsTypes`.
  Publication compares two counts, so wholeness needs that documents are of the manifest: a run stages
  only paths of the manifest it took its key from (`RunGood`), rows never change their key (`Kept`), and
  a subset of a finite set as large as the set is the set. `CorpusPublishesSnapshots` says what the corpus
  ingest gains by reading once. `OnlyCloneRacesMixSnapshots` is for any number of processes of both programs and says
  what the external sync lacks: until a sync replaces the clone under another (`raced`), what serves has the
  contents its key was made of, because from its scan on a run has the clone it scanned: `Faithful` is
  inductive as long as `raced` is false. After such a step it may not (section 5). `ReplacedNeverReturns`: a generation that was replaced never serves again.

- **MigrationsProofs.** The exclusive lock carries the argument (`Fenced`): a process past `AcquireLock`
  owns it, and while it is owned no writer is behind the shared one. So one process at a time changes a
  lane (`OneAtATime`), and its position in the lane is an invariant (`Position`): the ledger is the
  prefix of the manifest that the schema has, but for the script between run and record. From it
  `LedgerIsTrue`, `PlannedIsMigrated`, `ReopenedIsWhole` and `TakeoversRecorded`; `FenceImplemented`
  maps the lock, the marker and the writers to `MaintenanceFence` and shows each step to be one of its
  steps or a stutter. `MigrationTypes` is the type invariant.
- **IndexVersionsProofs.** `IndexInv` is `IndexTypeOK`, `BuildsAreWhole` and what they rest on: how a
  file row and its versions agree (`Rows`), that builds are numbered without gaps (`BuildOrder`), what a
  run still has to do and has done (`RunPlan`, `RunProgress`), what the reader's build is worth
  (`ReaderBound`). The key is how one version may change in a step (`VersionsEvolve`): its text and its
  file are fixed from its insertion, and it goes only when neither a file row nor a kept build refers to
  it. `BuildsStayWhole`, `AnswersSurvive`, `FullIngestIsComplete`, `IndexTypesHold` follow;
  `IndexRefinesBuilds` maps the rows to `PublishedBuilds`.
- **PreparationsProofs.** `PreparationTypes`, `ReadyIsTrue`. That "ready" was true is not inductive: a
  verification compares what it read before with the tree now. It needs that identities do not come back
  (`served <= tree`), that what is served under the tree's own identity has left no file stale, and that an
  ingest which publishes under it planned that tree and left nothing over (`Sound`): the identity is resolved
  before the tree is planned, so it is no later than the plan (`Placed`). All of it holds only
  because the row and the snapshot have one holder, which is why `PrepTypeOK` says so.

Only model-checked: the liveness properties `WaitingRowsMove`, `ClaimsEnd`, `PreparationsConverge`
(liveness under fairness is beyond the prover). Every invariant, action property and refinement that a
passing run checks is proved without hypotheses. The
recursion the code has (retries, batches, lanes) is in the steps, so no recursive operator is needed.

## 5. Findings

Three are runs TLC must fail, each with one property that quotes the repository.

- **`approved`** (`RefusalMeansDrift`, migration 003:144-145). The second scan's plan is put to
  `refreshRequiresReview` even when it was approved, so an approved snapshot is never consumed
  (`ApprovalsConsumeNothing` proves it).
- **`index_covered`** (`CoveredMeansCurrent`, `lib/shared/project-invariants.ts:226`). A single-file ingest
  publishes its build under the identity of the whole work tree (IG 1830); another file edited before it
  is then served with its old text, and the read reports that the index covers the workspace.
- **`index_graph`** (`PublishedGraphIsFixed`, migration 007:3-5). Edge targets are resolved over the whole
  project before anything is promoted (ST 3264), so navigation in the published build changes while an
  ingest runs and stays changed when it is abandoned.

Others the models show, without a run of their own:

- *Eternal running row* (migration 012:4-5). Both claims require `attempts < max_attempts`. A process
  that dies on the last attempt leaves a running row no claim takes; `recoverStaleProjectRagJobs` would
  dead-letter it and nothing calls it. The dedupe key stays taken (`SpentRowsAreStuck`). `ClaimsEnd` and
  `PreparationsConverge` exempt it.
- *Reclaiming attempt cannot bind* (`finalizer.postgres.integration.test.ts:11-13`, ST 5914). Each attempt
  prepares its own snapshot, the row stays bound to the first one's, nothing unbinds it: once an attempt
  got as far as binding, each later one throws there, leaves its snapshot CONSUMING until the lease
  lapses, and the row ends dead-lettered (`BindThrows`). A fresh row then gets further.
- *Race of two reviews* (migration 005:58-59). An approval and a deferral whose statements overlap are
  both recorded, and the deferred snapshot is claimed; a rejection in the place of the deferral rewrites a
  snapshot the gate has consumed. `ConsumedIsFinal` says that nothing else does. At this commit no ingest
  consumes an approved snapshot (`approved` above), so it is the gate's race and not yet an ingest's.
- *Clone race* (docs-rag migration 004:3-4). The sync hashes the clone and reads each file again when its
  turn comes; a second run replaces the clone in between, and the generation is published with contents
  of another revision than its key names. Nothing in the code keeps two syncs of one source apart.
  `ServesOneSnapshot` and `OnlyCloneRacesMixSnapshots` say that this is the only way to it.
- *A review nobody can end*. A row blocked for review keeps its dedupe key, and resume, cancel, recover
  and dead-letter have no callers outside tests; every later preparation of the project joins it and is
  told to obtain a review, although prepare.ts:1299 also offers to "refresh the complete inventory
  evidence". `PreparationsConverge` exempts it.
- *A joiner in another process* of a preparation with several batches is told INGESTION_FAILED: a
  budgeted partial batch settles its row as `failed` (ST 6706) under those who poll it (prepare.ts:798).
- *An edit during a preparation* ends it with `blocked: PROJECT_NOT_READY` after an ingest that completed
  (prepare.ts:1261), where another batch would have indexed the edit.
- *A call that joins a preparation of its own process* may get a `ready` whose verification was made
  before the call began (prepare.ts:1396). `ReadyWasTrue` speaks of the preparation, not of the joiner.

Smaller things met on the way: recovery dead-letters a row and leaves
`completed_at` null; a claim that collides inside the fenced transaction
throws where the comment at ST 5296 says it returns undefined; IG 1286-1303 handles a
renewal that returns undefined, which the fence around it makes unreachable; resuming a job
keeps its attempts; a documentation source that returns to content already published finds its
superseded generation (`FindPublished`, `ReplacedNeverReturns`), publication answers `published: false`, which nobody reads
(`PublishAgain`), and the newer generation keeps serving while sync-external-docs.ts:1695 reports
the old one as published; a migration script whose runner dies before the ledger row runs again in the
next operation (runner.ts:2605, 2620), which is sound only for scripts that may; a file of white space
has no chunks, the repair passes over versions without chunks, and every ingest with such a file ends
partial; `garbageCollectProjectRagPostgresIndexBuilds` has no callers outside tests; an edge that was
resolved is never resolved again.

## 6. Abstractions

- Time is what a guard can see of it. `now()` is the transaction's start and `clock_timestamp()`
  the moment; guards on both read the same abstract state, which can change before any step.
- `PreflightFromSource` and the second scan are single steps: they read the tree file by file, but
  the plan they make is compared by hash, and a change during the scan is a change before or after
  it for each file. `Upsert` writes the content the scan saw: the code reads the file again and
  throws if it differs, and it may differ right after, which is why no guard compares it at the write.
- A unit after the claim is one action. It locks the snapshot row first, and the second check before
  the commit can only turn it into nothing.
- `GatedIngest` leaves out blocked files, `--force`, the project configuration's drift checks and
  the job fence; `maxFiles` ends a run like a file error. It keeps failing statements as `Abort` or
  `Leave`, which may happen at any point.
- In `DocsGenerations` a hash is what it hashes and a revision the tree it names; a document is its
  content, chunks and embeddings go with it. Which superseded generations collection keeps goes
  by `published_at`, the start of the publishing transaction; the model keeps any of them.
- `Migrations`: a check that fails, an error of the server and a death are all `Close`; the expiry of a
  plan or a receipt can only refuse a start, so it is one; the two drain observations are one step, and
  so are a restored dump and its verification; grants and connection limits are constant; migration
  008, which checks its own part, looks not run when it is partly run; lanes may be taken in any order;
  the audit records of starts and failures and redaction are left out; the probes' queries are too, and
  `Proven` takes each to tell exactly whether the script's changes are in the catalog, so what
  `LedgerTellsTruth` says of adopted lanes is relative to that.
- `IndexVersions`: one ingest at a time (`WriterAlone`); a content stands for text, hash, chunks and
  symbols; the embeddings that arrived are the set `Promote` takes; the scan is atomic, as above; symbol
  ids are ordered as version ids; whether a file is blocked depends on its path; one call and one symbol, no
  imports; the triggers that keep versions immutable are left out,
  because no statement of the code meets them. Of an older index, versions are numbered in the order they
  were written and the latest version of a file is its active one. The collector has no caller outside the
  tests; the properties it could break speak of an operation that is there and not yet scheduled.
- `Preparations`: actors are processes, and callers that join a preparation of their own process get its
  answer and change nothing. The lease of a row outlives the deadline of the call that took it
  (prepare.ts:629), so only a holder that has gone loses it; a live ingest whose snapshot lapses fails at
  its next unit, which is an `Abort`. `JobWorker` and `GatedIngest` let live holders lapse. No identity of the tree comes back. A deletion counts as an operation that gained
  something. Left out: single-file and command-line ingests of the same project, whose interplay is
  in `GatedIngest` and `IndexVersions`; an unregistered project; cancellations by operators; the branch
  for a concurrent publication with an empty index (prepare.ts:1249); findings of the verification other
  than the identity. A request that names the project or its scope
  differently has another operation id and the same row: it acts as another process does.
- Refinement is by identity where a program owns the variables of its table (`RefinesJobTable`,
  `RefinesGate`) and by a mapping where it does not (`RefinesFence`, `RefinesBuilds`).

## 7. Not modelled, and the plan

Most of the repository's lines are not control that a model checker could say anything about. Ranking,
chunking, parsing, redaction, the registry, the command line, the vault and the evaluation harness are
numeric, textual or single statements; the tool handlers validate arguments, call the services
modelled here and lay out what they return (`PROJECT.json` says so for each). The rate limiters
decide in one synchronous step and keep nothing a step of another actor could change; a deadline races
two promises of one call and forgets them. `lib/rate-limiter.ts` and `scripts/lib/ingest-lock-guard.ts` are imported
by no code outside tests.

What remains, in order:

1. Proofs about what the components promise each other: that a row that settled as succeeded has a
   consumed snapshot needs the job fence in `GatedIngest`.
2. Content exclusions, refinement budgets and legacy rows in `DocsGenerations`.
3. The force flag and the configuration's drift checks in `GatedIngest`.
