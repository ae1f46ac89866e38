# Verification of the product-observation platform

TLA+ models, model-checking runs and machine-checked proofs for this repository:
the event pipeline from the source adapters through Kafka, the processor and the
data lake to the PostgreSQL warehouse, the tables and answers that are derived
from the warehouse, and the scripts that drive the repository's own development
tasks.

The code promises at-least-once delivery with idempotent sinks. Each part keeps
its promise by the order of a few calls (handle, then commit; write, validate,
then delete; read, compare, then insert), and a test can hardly reach what
happens when a crash, a lost answer or a second process falls between two of
them. That is what the models are about. The derived tables repeat the pattern
with replay keys, and the task workflow with a state file.

## 1. The system

```
 source adapters -> ingestion runner -> KafkaProducer
                                            |
                                     products.raw.v1
                              ______________|______________
                             |                             |
                        processor                     raw-writer -> Bronze (MinIO)
                  ___________|___________                                |
                 |                       |                               |
     products.validated.v1      products.invalid.v1                 compaction (Airflow)
                 |                (also dead letters)                    |
            lake-writer -> Silver (MinIO) -------------------------------+
                                |                                        |
                         warehouse-loader <--------- LakeReader / LakeScanner
                                |
                           PostgreSQL -> API, agent, daily metrics, quality, health
```

### 1.1 Inventory

Modelled parts. *Hard* names the behaviour that tests reach badly.

| Part | Code | State | Operations | Hard | Correct when |
|---|---|---|---|---|---|
| Kafka consumer loop | `libs/common/kafka_consumer.py`, `kafka_errors.py`; the loops of `raw-writer`, `lake-writer`, `processor` | client position, commit, shutdown flag, the locals of `process_next` | poll, attempt with retries, dead-letter, commit, close, signal | crash or rebalance between handling and commit, lost acknowledgements, a shutdown at any call | nothing committed is unhandled; records resolve in order; a stop is obeyed; the log is drained |
| Processor pipeline | `services/processor/pipeline.py`, `deduplication.py`, `data_validation.py` | the batch, its rows, `DeduplicationState`, `PipelineResult` | split a batch, publish each kind, return or raise | a sink fails half way and the batch comes again; several payloads under one id; null hashes | every record reaches a topic, what is skipped was published, conflicts surface |
| Lake writers, compaction | `libs/raw_writer`, `libs/lake_writer`, `libs/compaction`, `libs/partitioning`, `airflow/dags/parquet_compaction_dag.py` | objects of a partition, locals of `compact_partition` | put, list, read, put compacted, validate, delete | crash between put and delete, overlapping compactions, replay after compaction | an acknowledged record stays stored |
| Lake reader | `libs/parquet_reader` | the list of files of a query | scan, read | objects vanish between listing and reading | a query that returns rows misses none |
| Warehouse loader | `warehouse/loader/batch_loader.py`, `services/warehouse-loader` | tables and their unique keys, the cycle | scan, compare, insert, commit | lost commit answers, racing loaders, rounding, conflicts inside one batch | loaded rows are in the tables, links resolve, conflicts surface, everything is loaded |
| Source adapters | `libs/adapters` | the fetch in hand, the eBay token, `SourceMetrics`, the health tracker | request, authenticate, retry, next page, return or raise | refusals and broken links in any order, a token that expires between two requests, partial results | requests are bounded; every fetch and record is counted once |
| Source health | `libs/observability/health_assessment.py`, `health_persistence.py`, `airflow/dags/ingestion_health_dag.py` | outcome history, empty streak, freshness age; `ingestion_health_results` | record, assess, evaluate, persist | a history that is cut, an age that is stale itself, a rerun | the state follows what the source did; a green run has rows |
| Daily metrics | `libs/metrics`, `airflow/dags/build_daily_metrics_dag.py` | `daily_metrics` with replay keys | query, calculate, insert | late observations, reruns, an attempt that dies after its commit | a green date is complete, its counts claim no more than there is |
| Quality checks | `libs/quality`, `airflow/dags/daily_data_quality_dag.py` | `data_quality_results` with replay keys | query, check, insert, fail the task | as above, and a red run that must be told from a failed one | a green date has every check |
| Analytics queries | `warehouse/analytics` | none | read the observations | nulls, ties, late rows | what the queries say of the same rows fits together |
| API | `services/api` | a session per request, the pages a client has seen | list, count, read a page | loads between two statements or two pages | a client that reads all pages misses nothing |
| Agent | `services/agent` | none | classify, one tool, answer | answers over cut lists | what is told is what the tables hold |
| Task workflow | `scripts/task_workflow.py`, `scripts/qoder_task_workflow.py` | `state.json`, `run.lock`, branch, worktree, remote branch, pull requests | prepare, build, review, publish, merge, clean up | a kill at any step, a builder that outlives its run, pushes and merges by somebody else | only approved commits are merged, nothing unmerged is deleted, no builder is relaunched blindly |
| Ingestion runner, producer | `services/ingestion/runner.py`, `libs/common/kafka_producer.py` | `_running`, the cycle, statistics, the client's queue | fetch with retries, publish and wait for the report, stop, close | late delivery reports, unconfirmed events, cancellation, kill | no event twice, receipts are real, every source has its turn |

Parts that are not modelled, with what would make them correct:

| Part | Code | State and operations | Correct when | Why not |
|---|---|---|---|---|
| Contracts, schemas, identity | `libs/event_contracts`, `libs/schema`, `libs/marketplace` | none | pure validation of one record | only which payloads fail and what an event id is matters to the models |
| Object storage client | `libs/common/minio_storage.py` | open or closed | each method is one call | its calls are the steps of `LakeCompaction` |
| Validated-topic producer | `libs/common/kafka_validated_producer.py` | the client's queue | as the raw producer | the sink of `ProcessorPipeline`: stores, raises, or both |
| Configuration | `libs/common/config.py`, settings classes | none | read once at start | values, not behaviour |
| Metrics, tracing, logging | rest of `libs/observability` | counters behind locks | never disturb the pipeline | they change nothing the pipeline reads |
| Schema, migrations | `warehouse/migrations` | the schema | run once in order | the keys they create are in `WarehouseLoader` |
| Load-test harness | `libs/load_test` | producer threads, collectors | measures from outside | measures the modelled system, is no part of it |
| Workflow wrapper, notifier | `scripts/run_task.py`, `.qoder/notify`, shell helpers | chat offsets | - | they start the workflow, show its state and send messages |
| Deployment | compose, Helm, Kubernetes, Terraform, CI | - | - | only the restart policy matters: a stopped pod is started again |

### 1.2 How the parts interact

- *Messages.* The runner publishes an event and waits for its delivery report;
  consumers poll, and their offset is the only thing that says a record is done.
  A record that is not committed comes again, to the same or another process.
- *Shared objects.* Writers, compactions and readers meet in a partition of the
  lake without a lock; keys made from event ids make a repeated write harmless.
- *Shared tables.* Loaders meet in the unique keys of the tables. The DAGs, the API
  and the agent read the observations while loaders go on inserting; each DAG
  writes rows of its own under replay keys.
- *Files.* Runs of the task workflow meet in `run.lock` and `state.json`; the branch,
  the worktree and GitHub change behind their back.
- *Callbacks.* Delivery reports run in `flush`; the signal handler sets a flag.

## 2. Modules

| Module | Models |
|---|---|
| `AtLeastOnce` | what the consumer promises: an offset passes a record only when that record is resolved |
| `KafkaConsumer` | the managed loop of every consumer, for a group of processes |
| `KafkaConsumerProofs` | its inductive invariant, its safety and the refinement of `AtLeastOnce` |
| `ProcessorPipeline` | one `process_batch` call after another, with redelivery and restart |
| `ProcessorPipelineProofs` | its inductive invariant and five properties |
| `LakeTable` | what a partition promises: what is stored stays readable, and answers are complete |
| `LakeCompaction` | writer, overlapping compactions and a reader on one partition |
| `LakeCompactionProofs` | its inductive invariant and the refinement of `LakeTable` |
| `WarehouseLoader` | loaders that race over a growing Silver layer |
| `WarehouseLoaderProofs` | its inductive invariant and four properties |
| `IngestionRunner` | the cycle over the sources and the Kafka client behind `publish` |
| `IngestionRunnerProofs` | its inductive invariant and four properties |
| `SourceHealth` | the assessor: how a history of outcomes and an age are classified |
| `SourceFetch` | one fetch after another of an HTTP adapter, with counters and tracker |
| `SourceFetchProofs` | its inductive invariant and four properties |
| `WarehouseQueries` | the analytical queries as functions of a set of observations |
| `ApiQueries` | the repositories' queries of the API, and what the agent makes of them |
| `DerivedTables` | the three DAGs and a client of the API over a growing warehouse |
| `DerivedTablesProofs` | lemmas on sums, extremes and averages over sets; completeness of green runs and of paged reads, what the stored counts cover, how the queries and the answers fit together |
| `TaskWorkflow` | one run after another on a task, from preparation to cleanup |
| `TaskWorkflowProofs` | its inductive invariant and five properties |
| `MC...` | the instances the runs use: sets, symmetry, small lakes, pages |

`SourceFetch` and `DerivedTables` each hold an `INSTANCE` of `SourceHealth`, as the
adapters and the health DAG call the same assessor. `DerivedTables` extends
`ApiQueries`, which extends `WarehouseQueries`.

An operator whose name ends in `_Slip` stands before the definition it is a
plausible mistake of. No behaviour uses it: it is there to show that the
properties notice the mistake.

### 2.1 KafkaConsumer

`status[c]` says where `process_next` (`kafka_consumer.py`, `process_next`)
stands in process `c`; `delivery`, `failure` and `attempts` are its locals.
`position` is the fetch position the client keeps for an assigned partition and
`committed` the offset the broker keeps for the group. `handled` and
`deadLettered` are what the outside world got.

| Code | Action |
|---|---|
| `poll` returns a record, or a `DeserializationError` wrapped in one | `PollRecord` |
| `poll` raises | `PollFails` |
| the attempt loop: shutdown check, `process(message)`, `TransientProcessingError`, `ProcessingError`, anything else | `StartAttempt`, `HandlerReturns`, `HandlerFailsTransiently`, `HandlerFailsPermanently`, `HandlerRaises`, `StopForShutdown` |
| dead-letter or commit | `Decide`, `DeadLetterAcked`, `DeadLetterFails` |
| `commit_offsets` returns, or raises with the offset stored or not | `CommitSucceeds`, `CommitFails` |
| `while not is_shutdown_requested()` and `finally: close()` | `LeaveLoop`, `Close` |
| SIGTERM/SIGINT, death, pod restart | `Signal`, `Crash`, `Restart` |
| group coordinator | `Assign`, `Revoke` |

`DlqFailsClosed` chooses the dead-letter sink: `KafkaDeadLetterProducer` of the
processor, or the sink of `raw-writer` and `lake-writer`, which always raises.

A commit carries the offset of the record just resolved. A member that lost its
partition may still have its commit accepted, so with two members the committed
offset can move back; records are then handled again, never skipped.

### 2.2 ProcessorPipeline

`stage` is the place in `process_batch`: rejected rows go out first, then
deduplication splits the rest, then conflicts, then the unique rows. `todo` are
the rows the stage has still to publish. `seen` is the `DeduplicationState` when
the caller passes one (`KeepState`); `services/processor/__main__.py` passes none.
The topics are sets of what the sinks stored. `settled` and `skipped` remember
what calls that returned have done, and `emitted` what this process handed to the
valid sink; the code has no such variables.

The deployed processor calls `process_batch` with one message; the model takes
batches of every length up to `MaxBatch`, as the API does.

Two details are kept because they matter: the event index keeps the *last*
message of an id while deduplication keeps the *first* row (`Indexed` and
`FirstRow`), and the hash of a row without a price is null, so all such payloads
hash alike (`HashOf`).

### 2.3 LakeCompaction

An object is its set of rows, `{}` when there is none. `Key` are the keys
`build_partition_key` makes from event ids, `Compacted` the `compacted-<uuid>`
objects. `compact_partition` runs in a `Worker` (an Airflow task; a retried task
may overlap its first try): `List`, `ReadSource`, `Combine`, `Put`, `Validate`,
`Discard` or `DeleteSource`, `Finish`; `Fail` after any of them. A query is
`Scan`, `ReadObject` and `ReadEnds` or `ReadFails`, as `LakeReader.read` turns a
missing object into an empty frame.

### 2.4 WarehouseLoader

`silver` is what each object of the layer will hold, in key order, and `present`
which of them exist by now. A cycle is `Scan`, then per batch `Check` (read the
observations that exist, compare) and `Commit` (insert with
`ON CONFLICT DO NOTHING` and commit), or `Reject`, or `Fail`, which may have
committed. `links` is `source_products`, `observations` is
`product_observations`. Prices are integers in mills; the column keeps two
decimals (`Rounded`) and overflows at `MaxMills`.

### 2.5 IngestionRunner

`pc` is the place in `run_continuous`, `run_once`, `_fetch_and_publish` and
`publish`. `sent` is the client's queue of undelivered events, `receipt` whether
the report on the event being published was good. `Deliver` and `Expire` are the
client's background thread. `topic` counts how often the broker stored an event,
`confirmed` collects the receipts.

### 2.6 SourceFetch and SourceHealth

A behaviour follows one `adapter`, since adapters share no state. `fetch` is the
fetch in hand: the request it waits for (`step`), its page and attempt, the requests
it has sent (`gets`, `posts`) and what it has collected. `metrics` is
`SourceMetrics`, `tracker` the `SourceHealthTracker` of the difficult retailer;
`run`, which the code does not have, counts clean fetches and failures in a row.

| Code | Action |
|---|---|
| `fetch()` begins: attempt counted, clock read | `Start` |
| one GET to Best Buy or Fake Store | `BestBuyAnswers`, `BestBuyFails`, `BestBuyLimits`, `FakeStoreAnswers`, `FakeStoreFails` |
| eBay: token request; time-outs that are retried; refusals; a 401 that renews the token once; an answer of an unexpected shape | `Authenticate`, `EbayRetries`, `EbayFails`, `EbayRefuses`, `EbayPuzzles`, `EbayAnswers` |
| difficult retailer: 429, 5xx and time-outs retried, other refusals, a page without the expected structure | `RetailerRetries`, `RetailerRefuses`, `StructureChanged`, `RetailerAnswers` |
| web retailer: retries, a refusal in the first or a later page, an empty body, the next link | `WebRetries`, `WebRefuses`, `Blank`, `NextPage` |
| time passes; `health_assessment()` refreshes the age | `Tick`, `AskHealth` |

`Return` and `Raise` are the two ends of a fetch with everything they record. A page
is a sequence of articles that differ in what the parser can make of them
(`ParsedCard`, `ValidatedItem`).

`SourceHealth!Assess` is `SourceHealthAssessor.assess` with its priorities; ratios
are compared in hundredths.

### 2.7 WarehouseQueries and ApiQueries

Pure operators over sets of observations: what each SQL statement returns. A row has
an id, a source, a product, a day, a price or `Missing`, a currency and a stock flag.
A stored price is not negative, which the schema checks (`001_initial_schema.py:112`), and
an event names a currency (`product_observation.py:56`): `RowAssumption` says both.
Where `ORDER BY` leaves a choice the operator is the set of the possible answers
(`Orders`, `ObservationPages`, `Newest`). The agent's part is `Classify`, `Tool`, the
verdicts of the three status tools and `Reply`.

### 2.8 DerivedTables

A behaviour follows one of the three DAGs or a client of the API (`dag`). `Load` is
any loader that commits an observation of today or of an earlier day; `NextDay` ends
an interval. `Schedule` and `Rerun` start a run for a date, the second one after an
operator has cleared it. A run is `ComputeMetrics`, `RunChecks` or `EvaluateHealth`
(read and compute), then `WriteMetrics`, `WriteQuality` or `WriteHealth` (insert what
is not there yet, commit), then `Finish`. `AttemptFails` ends an attempt at any of
these, after the commit too, and Airflow tries again up to `Attempts`. `AskPage` and
`ReadPage` are the two statements of a request for a page.

### 2.9 TaskWorkflow

`state` is `state.json`, `lock` the lock file, `run` the process that holds it with
the locals of its method. A branch is the sequence of the kinds of its commits
(specification, work, report), and a commit is its position in it; `Foreign` is a
commit that only the remote has. `launched`, `unreviewed`, `approvals`, `merges` and
`again` remember the past for the properties; the code has no such variables.

| Code | Action |
|---|---|
| a run is started, with `--review-again` | `Begin`, `ReviewAgain` |
| a gate, a tool or a budget raises; the process is killed | `Stop`, `Kill` |
| preparation | `Reserve`, `AddWorktree`, `WriteSpecification`, `CommitSpecification`, `Prepared` |
| the builder, a process of its own | `SaveAttempt`, `Launch`, `Edit`, `CommitWork`, `EndSession`, `BuilderDone` |
| the reviewer and its report | `StartReview`, `ReviewerAnswers`, `CommitReport`, `SaveVerdict`, `Block` |
| publication and merge | `StartPublish`, `Push`, `CreatePull`, `SavePull`, `StartChecks`, `ChecksFail`, `ChecksPass`, `Merge`, `Confirm` |
| cleanup | `StartCleanup`, `RemoveWorktree`, `DeleteBranch`, `DeleteRemote`, `Finish` |
| the owner removes a stale lock, or commits what a stopped run left | `RemoveStaleLock`, `Repair` |
| others on GitHub | `PushElsewhere`, `MergeElsewhere` |

Every save is one step because `state.json` is replaced as a whole; a kill can fall
between any two saves, or between a call and the save that records it.

## 3. Runs

Every run ends in at most a few minutes on two workers.

| Run | Instance | Checks | States |
|---|---|---|---|
| `consumer_group` | 2 members, 1 partition, 2 records (1 malformed), 2 attempts, under fairness | `TypeOK`, `NoLoss`, `OutcomeSound`, `ImplementsAtLeastOnce`, `Drained`, `ShutdownObeyed` | 52 305 |
| `writer_malformed` | the fail-closed sink of the writers | refutes `MalformedIsPassed` | |
| `processor_batches` | 2 batches of up to 3 messages, 2 ids, priced, unpriced and rejected payloads, no state | `TypeOK`, `EveryRecordRouted`, `SkippedWasPublished`, `ConflictsSurfaced` | 483 902 |
| `processor_unpriced` | two payloads without a price | refutes `ConflictsSurfaced` | |
| `lake_faults` | 2 records, 2 overlapping compactions, failing calls, replays, a reader | `TypeOK`, `NoRecordLost`, `ReadsComplete`, `ImplementsLakeTable` | 2 325 027 |
| `lake_retry` | 3 records, one worker that fails and runs again | refutes `OneCopyWhenCompacted` | |
| `warehouse_loads` | every lake of 3 objects over 4 rows, 2 loaders, batches of 2 | `TypeOK`, `LoadedIsStored`, `ObservationsLinked`, `EverythingLoaded`, `ConflictSurfaces` | 135 480 |
| `warehouse_rounding` | one loader, a price with three decimals | refutes `ConflictsAreReal` | |
| `ingestion_cycles` | 2 sources, up to 2 events a fetch, 2 cycles, 1 retry, every failure | `TypeOK`, `NothingTwice`, `TotalIsHonest`, `EverySourceTried`, `StopObeyed` | 954 482 |
| `source_fetches` | 5 adapters, 2 tries a page, 3 pages, 4 kinds of page, 4 fetches | `TypeOK`, `RequestsBounded`, `LedgerAddsUp`, `HealthFollows` | 655 401 |
| `derived_tables` | 3 days, 4 observations of 2 sources, 2 reruns, pages of 1 | `TypeOK`, `GreenIsComplete`, `CountsCover`, `QueriesAgree`, `PagesComplete`, `AnswersAgree` | 1 036 488 |
| `workflow_task` | 1 task, 2 builder rounds, one second review, 4 commits, 2 pull requests | `TypeOK`, `OnlyApprovedMerged`, `BudgetHolds`, `NoBlindRelaunch`, `NothingDeletedUnmerged`, `CleanupResumes` | 390 414 |

### 3.1 Why the bounds are enough

- *Consumer.* Two members are enough for every race over a partition (an old
  owner and a new one). Partitions share nothing but their consumers, and an idle
  consumer has no state. Two records give a malformed one and a neighbour. Two
  attempts have a first that is retried and a last that is not.
- *Processor.* A batch of three has a first, a middle and a last message of an
  id; two ids keep groups apart. A second batch meets whatever the first left.
- *Lake.* Two workers, each of which can fail and run again while the other is in
  any place, with two compacted objects in all (`MaxRuns`). Two records let a
  compaction see a part of what is there.
- *Warehouse.* Three objects in batches of two give a cycle of two batches, with
  two payloads of one event in the same batch, in different batches and in
  different loaders. Object positions are written in every order.
- *Ingestion.* Two sources have a successor and a last one; with two events a late
  delivery falls into the next `publish`; with two cycles into the next cycle.
- *Sources.* Two tries a page have a first and a last one; three pages have a first,
  a middle and a last; the four pages serve an empty listing, a good article with a
  good link, a price that fails validation, and cards that cannot be parsed with a
  link that cannot be joined. A history of two overflows in four fetches.
- *Derived tables.* Three days give a date, its successor and the late arrival of
  either; two reruns let a second run meet what the first and its dead attempts left.
  Three priced observations of one listing, two on one day, have a previous and a
  next, a tie of the day and a change of currency, and the fourth has no price. Pages
  of one put a boundary between any two observations.
- *Workflow.* Two rounds have one after changes were required and one after which the
  budget is spent. One second review reopens an approved task. Four commits are a
  specification, work and reports; two pull requests are the one of the task and one
  opened after the first was merged elsewhere. Tasks share only the lock and the two
  lanes, so one task meets all its own races.

`MaxBatches`, `MaxRuns`, `MaxCycles`, `MaxFetches`, `MaxTime`, `Days0`, `MaxReruns`,
`MaxCommits`, `MaxPulls` and `MaxAgain` cap what the environment or the loop may do;
the rest are parameters of the code. `ingestion_cycles`, `source_fetches`,
`derived_tables` and `workflow_task` do not check deadlock: the runner stops, a task
is done in the end, and a bounded number of days or fetches runs out.

### 3.2 Fairness

- `consumer_group`: `WF` on each process's loop step, since the broker calls and
  sinks have timeouts and handlers return; `WF` on the restart, since a pod that
  ends is started again; `WF` on assigning a free partition, which is the
  coordinator's job. `Drained` also assumes `Calm`: from some point on nothing
  fails and no signal arrives. Without it a crash loop is a legal behaviour.
- `warehouse_loads`: `WF` on each loader's step: the service loop sleeps and calls
  `load_from_lake` again whatever happened. `Calm` says that from some point on no
  cycle ends in a database error.
- `ingestion_cycles`: `WF` on the runner's step, since fetches, sleeps and `flush`
  have timeouts, and on the client's, since it reports on every message within the
  delivery timeout. No calm is needed.
- `workflow_task`: `WF` on the steps of a run, since its tools have time-outs; on the
  end of a builder session; on `Begin` and `RemoveStaleLock`, since the document tells
  the owner to repeat the command and to remove the lock of a dead run. Without the
  owner nothing resumes. `CleanupResumes` assumes `Calm`: from some point on no tool
  fails and no run is killed.

`processor_*`, `lake_*`, `source_fetches` and `derived_tables` state safety only, so
their specifications have no fairness.

### 3.3 What the code does otherwise than the repository says

Each of the four refuted properties quotes a line of the repository:

1. `writer_malformed`. `services/raw-writer/README.md:59` says that a record that
   fails to deserialize is "Routed to DLQ sink; offset committed". The sink of the
   writers always raises, so the consumer closes, restarts and meets the record
   again for ever.
2. `processor_unpriced`. Two different payloads without a price under one event id
   both hash to null, so the second counts as an exact duplicate and the conflict
   is never surfaced.
3. `lake_retry`. A compaction that fails between the upload and the last deletion
   leaves its rows in two objects, and running it again does not remove the copy:
   compacted objects are never a source.
4. `warehouse_rounding`. A price with three decimals is rounded by the column and
   differs from the lake ever after: every later cycle reports a conflict that is
   none, and stops there.

Met while modelling, without a run of their own.

The pipeline:

- A processor with a `DeduplicationState` records an event before it is published
  (`deduplication.py:100`), so a retry after a failed publication skips it. The
  theorems about routing assume that there is no state, as deployed.
- `PipelineResult` says that "the sum of all counts equals the input batch size"
  (`pipeline.py:69`), but a conflict is counted in `published_invalid` and in
  `conflicts` (`:293`), so `total` is too high by the conflicts.
- An event whose delivery fails is logged and dropped (`runner.py:401`);
  `docs/kafka-producer.md:68` says "Do not discard the event. Retain it and retry
  using the same `event_id`".
- A valid row that shares its id with a later rejected message is published with
  that message's payload (`pipeline.py:214`).
- An event replayed after compaction is stored a second time
  (`services/raw-writer/README.md:47` promises an overwrite).
- `LakeReader.read` answers with an empty frame when a listed object was compacted
  away (`reader.py:163`), which a caller cannot tell from an empty partition.
- Two event ids can be sanitized to one key (`partition_key.py:82`), and then one
  overwrites the other. The lake theorems assume `DistinctKeys`.
- `products` has no unique key, so every cycle inserts every product again
  (`batch_loader.py:430`; `docs/architecture/platform-inventory-m13.md:799`).
- `observations_created` is a difference of two table counts, which another loader's
  commit may fall between (`batch_loader.py:635`).
- `flush_batch` clears the batch although some of its events failed
  (`bronze_writer.py:186`).
- An event without a price makes a frame with a column of type Null, which does not
  concatenate with the others (`compactor.py:151`).
- `ingestion_events_total` advances twice for an event (`runner.py:270`,
  `kafka_producer.py:174`).
- `stop()` before `run_continuous` is forgotten (`runner.py:192`).
- `services/raw-writer/README.md:100` says transient storage errors are retried;
  `StorageError` is none of the two processing errors, so the consumer closes at once.

The sources:

- The difficult retailer's `_parse_availability` looks for "available" before
  "unavailable", so "Unavailable" is in stock (`parser.py:275`).
- Invariant 6 of the adapter protocol (`protocol.py:144`) excludes partial results,
  which the web retailer returns when a later page is refused (`adapter.py:103`).
- A card whose address cannot be joined is skipped and missing from `total_records`; a
  next link that cannot be joined ends the fetch with an untyped exception and loses
  the pages already collected.
- eBay: a token answer that is not JSON, a total that is no number or items that are
  no list escape as untyped exceptions; a comment says 429 and 5xx are retried, but
  only time-outs and broken connections are; the headers are built before the retry
  loop (`client.py:175`).
- The sleep that a 429 asks of the web retailer's client has no cap.
- A `max_empty_fetches` of 0 is accepted (`health_assessment.py:83`), and then every
  source that is not worse is assessed as returning empty results (`:373`); with a
  `min_success_ratio` of 0 (`:81`, `:299`) a source that never answers is not.
- The tracker's age is refreshed only by `health_assessment()`, and an empty history is
  healthy whatever the age (`health_assessment.py:236`, `:262`), so
  `degraded_sources()` (`health_persistence.py:276`) never reports a source that is
  only stale.

The derived tables, the API and the agent:

- "Rerunning the same logical interval is a no-op" (`ingestion_health_dag.py:16`) does
  not hold once a source is new; a rerun of metrics mixes two snapshots of the day,
  and a rerun of an old quality date checks today's window.
- When its query fails the health DAG records collected sources as never collected and
  healthy. A red quality run may have stored no failing row, as the row of an earlier
  attempt stays.
- `rolling_average` counts days with a price, not calendar days; price changes across a
  missing or zero price are lost; `latest_observation_per_product` breaks no ties;
  PostgreSQL refuses `products_ranked_by_price_increase`.
- "Return latest health assessment per source" (`routes/v1/pipelines.py:60`): a source
  with many rows crowds out the others (`pipeline_status.py:158`; described in
  `docs/reviews/TASK-067-review.md:91`). `AnswersAgree` assumes a history that fits.
- `list_price_changes` orders by `collected_at` alone (`analytics.py:166`), so pages may
  repeat or skip ties. Count and page are two statements: a client that stops at
  *page* * *size* >= *total* can miss a row, one that stops at a short page cannot
  (`PagesComplete`).
- Analytical queries mix currencies; the API does not.
- Nothing writes `pipeline_runs`, so the agent calls pipelines unknown or degraded and
  never healthy; one failed check keeps the quality degraded for ever.

The task workflow:

- Three tasks that are reserved before any of them has its worktree all get one
  (`task_workflow.py:150`, `:180`); `docs/AUTOMATED_TASK_WORKFLOW.md:44` says at most two.
- A blocked verdict is saved as "fix" and then as "blocked" (`task_workflow.py:315`); a
  kill in between lets the next run start a builder.
- When a merge is done but its answer lost, the phase is still "ci", `--review-again` is
  accepted and a second pull request may follow.

## 4. Proofs

TLAPS proves each theorem for every value of the constants, under the `ASSUME`s of
the component's module. Those say little more than that bounds are natural numbers,
that sentinel values are not members of the sets they stand beside, and what the
database and the event contract enforce of a row. TLC evaluates them in every run of
the module.

Each proof module has the same shape. None of the safety properties is inductive by
itself, so an invariant `IInv` adds what the steps rely on; one lemma per action
shows that it is preserved, and the theorems follow from it.

| Module | Theorems | The invariant adds |
|---|---|---|
| `KafkaConsumerProofs` | `TypeCorrect`, `NothingLost`, `DeliverySound` (`InOrder` and `OutcomeSound`), `Refinement` of `AtLeastOnce`, `Invariance` | `CallLocals`: locals exist during a call; `LoopSound`: how the attempt loop leaves counter and failure; `FetchedResolved`: everything the owner fetched is resolved but the record in hand |
| `ProcessorPipelineProofs` | `TypeCorrect`, `NothingDropped`, `DuplicatesWerePublished`, `ConflictsSurface`, `RecordedIsNotReplayed` | `Split`: the unique rows are those without conflict that repeat no other; `Progress`: which rows of each kind are out; `Recorded`: what the state has recorded of the rows still to come |
| `LakeCompactionProofs` | `TypeCorrect`, `NothingLost`, `ReadsAreComplete`, `Refinement` of `LakeTable` | `OwnKeys`, `OwnTargets`: whose object is whose; `Progress`: what a worker read of what it listed; `AllSafe`: a record is in its source or in an object nobody will discard; `Pending`: what a query has not read is still to be read, or it will fail |
| `WarehouseLoaderProofs` | `TypeCorrect`, `ObservationsStayLinked`, `LoadedRowsAreStored`, `TablesNeverShrink` | `LinksResolve`, `ObservationsAreRows`, `ScannedArePresent`, `LoadedAreObserved`; tables change by `Inserts` alone, and `InsertsKeep` carries all of them over one batch |
| `IngestionRunnerProofs` | `TypeCorrect`, `EventsAreSentOnce`, `ReceiptsHold`, `TotalHolds` | `AheadUnsent`: what is still to come was never sent; `SentOnce`: what the client holds is not stored; `ReceiptIsOwn`: the awaited report is about the event in hand; `CountInv`: total and receipts not yet counted are within what was confirmed, and the event in hand is not yet confirmed |
| `SourceFetchProofs` | `TypeCorrect`, `FewRequests`, `LedgerBalanced`, `HealthIsFair` | `InHand`: what the fetch in hand may look like for its adapter; `Spent`: how the requests sent are bounded by page, attempt and round; `Remembers`: the end of the tracker's history is how the last fetches went |
| `DerivedTablesProofs` | `TypeCorrect`, `GreenComplete`, `PagesAllRead`, `CountsAllCover`, `AnswersAllAgree`, `QueriesAllAgree`, `RowsStay` | `NamesKnown`, `OnlyOfDays`: what the rows of a table can be; `Whole`: what a run computed is complete; `Open`: a running date has no outcome; `Ahead`: what the client has not seen lies behind the page it asks for next; `Keyed`: a key has one row for each date, and its rows are numbered as they came; `CountsInv`: the stored counts against the warehouse and against each other, also while a run is about to insert; `Sourced`: rows on health are of sources |
| `TaskWorkflowProofs` | `TypeCorrect`, `ApprovedMerged`, `BudgetKept`, `RelaunchOnlyReviewed`, `DeletionOnlyMerged` | `PhaseOfStep`, `AttemptsSaved`, `WorkAwaitsReview`: what the file says at each step of a run; `PullsKnown`, `RemoteHasWork`: what GitHub can hold; `ReviewsKnown`, `MergeIsSound`, `CleanupIsSound`: what was checked before a merge or a deletion still holds when it happens |

How the arguments run:

- *Nothing lost by the consumer.* A commit of offset *o + 1* is safe if all records
  up to *o* are resolved. Record *o* is, because the loop reached the commit with
  an outcome for it; its predecessors are, because it was fetched when the owner
  had resolved all it had fetched before, and the owner started at the committed
  offset. A failed call closes the consumer, which gives up the partition, so no
  later record of it can be in hand.
- *Nothing lost by compaction.* A source is deleted only after an object with all
  rows of the listing was validated, the listing is of immutable objects (a key
  belongs to one record, hence the assumption), and a worker discards only the
  object it wrote itself.
- *Nothing dropped by the processor.* Rejected and conflicting rows are published
  before the call returns. Any other row shares its id with the first row of its
  group, which is unique and published. That a position is first or last exists by
  well-foundedness of the naturals (`Least`, `Greatest`).
- *Loaded rows are stored.* The first row of an event wins and stays; a batch either
  commits whole or not at all.
- *Sent once.* Events are sent in the order of cycle, source and place, each before
  the loop moves past it, and sources have different names.
- *Few requests.* A request is charged to its page, attempt and round: `Spent` bounds
  what was sent before by the three numbers, a retry raises the attempt below
  `MaxRetries`, and only the web retailer raises the page.
- *Green is complete.* A replay key of a date can only be in the table because a run of
  that date computed it, and a run that ends green has inserted everything it computed
  and did not find there.
- *Pages.* In the order of the pages an observation at position *i* has exactly
  *i - 1* newer ones (`BehindPage`, by counting). Loads only push an observation back,
  so what the client has not seen never slips into a page it has passed.
- *The total is honest.* The receipts of a fetch are counted once it is through. Until
  then they are on the side of the confirmed events alone (`Uncounted`), and an
  exception that loses them only makes the total smaller. The event in hand is not yet
  confirmed, by `SentOnce`, so its receipt is a new one.
- *Health follows.* The history is bounded from behind, so an outcome keeps its place
  relative to the end. As many clean (or failed) fetches in a row as the history is long
  fill it, and then the assessor's sums are a hundred percent (or the last reason is one
  of a failure).
- *Counts cover.* A run counts each observation under exactly one source, so the counts
  of its sources add up to its total (`SumOfParts`). The first sources stored for a date
  are those of one run, and a total that was there before was counted over no more rows,
  as the warehouse only grows. Later runs can add sources, never change what is there.
- *Answers agree.* By `Keyed` the newest row of a key exists and is the only one, so
  what the API lists is one row for each source, and counting rows counts sources. Within
  the limit nothing is cut off.
- *Queries agree.* This needs only that what was loaded is a finite set of observations
  with distinct ids. Changes between successive rows telescope along their order
  (`StepsLead`, by induction over the rows); an average lies between the extremes as a
  sum does (`SumBounds`); statistics add up by splitting the rows by listing and by
  currency (`SumOfParts`).
- *Approved is merged, and deleted only when merged.* Each gate compares
  heads, the merge names the head it expects, and a pull request that was merged keeps
  its head. `CleanupIsSound` carries this from the gate to the deletion.

Assumptions that a theorem adds to those of the module stand in its statement:
`DistinctKeys` for the lake, `~KeepState` for `NothingDropped` and
`DuplicatesWerePublished`, and that no two payloads hash alike for
`ConflictsSurface` (without it the property is refuted, see 3.3), and `MinSuccess > 0` and
`MaxEmpty > 0` for `HealthIsFair` (`HealthFollows` fails where either is 0, see 3.3).

The induction theorems of the library take an operator as a parameter and cannot be
used here. The lemmas about sums, extremes and telescoping are proved by induction all
the same: `Induction` and `SetInduction` state it for a *set* of naturals and a set of
subsets, from the well-foundedness of the naturals, and every use names its set. Sums
are the community modules' `SumFunction`, whose definition chooses a recursive
function; `SumUnfolds` proves that there is one, and what it is for one more element.

Only model-checked:

liveness (`Drained`, `ShutdownObeyed`, `EverythingLoaded`, `ConflictSurfaces`,
`EverySourceTried`, `StopObeyed`, `CleanupResumes`) and everything about fairness, which
is out of the prover's reach. Every other property of a run that passes is also a theorem.

Proved, but checked by no run of their own: `InOrder` of the consumer,
`NoReplayOfRecorded` of a processor with a state (`RecordedIsNotReplayed`),
`TablesOnlyGrow` (`TablesNeverShrink`), `ReceiptsAreReal` (`ReceiptsHold`) and
`RowsAreAppended` (`RowsStay`; TLC finds it true on the instance of `derived_tables`).

## 5. What the models leave out

- Wording, metrics, traces, logs and time stamps. Back-off and sleeps are only the
  freedom of other steps to happen in between.
- The columns of a record: a payload is a member of a small set, told apart by
  whether it validates, how it hashes, or its price.
- Broker and database internals. The log is fixed and ordered; a transaction
  becomes visible at once; a commit or a write may take effect although the client
  sees it fail.
- `BronzeWriter` and `SilverWriter` in batch mode (`write_batch`, `flush_batch`):
  the services call `write_event` per record.
- `sample_lag`, `commit_message` and the schema-normalisation details of the
  processor.
- Of the adapters: the mock, validation of configuration, how single fields are mapped,
  sleeps, and eBay's normalizer, which no adapter calls.
- Of the derived tables: configured quality suites and `AllowedValuesCheck`, parsing of
  dates, thresholds of a single source, and `products_ranked_by_price_increase`, which
  PostgreSQL refuses.
- Of the API and the agent: routing, validation of requests, error answers, the guard of
  `execute_sql`, which is about the text of a statement, and answers in prose.
- A payload that conflicts with one that a *state* recorded in an earlier batch
  (`deduplication.py:95`): the deployed processor keeps no state.
- The parts of the second table of 1.1.

## 6. Plan

Done, in this order: the consumer with its abstract specification; the processor;
the lake with its abstract specification; the loader; the runner; the task workflow;
the derived tables with the queries, the API and the agent; the source fetches with
the assessor; proofs for each.

Next, by what matters most:

1. `EndToEnd`: consumer, lake and loader composed: a raw event is in the warehouse
   or in the dead-letter topic in the end. The abstract specifications `AtLeastOnce`
   and `LakeTable` are what it would be built from.
2. The runner's retries composed with those of the adapters: a bound on the requests of
   one cycle.
3. Batch mode of the lake writers (`flush_batch` clears a batch whose events failed).
4. Configured quality suites.
5. The load-test harness.
