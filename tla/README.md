# Verification of the crawl framework

This directory models `src/src/crawl_framework`, the framework that crawls
financial sites into partitioned Parquet files, uploads them, registers them in
a catalog and remembers what it has stored. The question the project answers is
the one the framework is built around: *when the process stops at any point, is
everything a stored checkpoint claims really stored, and is everything else
crawled or recovered again?*

Contents: [inventory](#inventory), [modules and plan](#modules-and-plan),
[the concurrent runtime](#the-concurrent-runtime),
[batches and recovery](#batches-and-recovery), [the promise](#the-promise),
[the sequential runtime](#the-sequential-runtime),
[the warehouse](#the-warehouse), [the history scripts](#the-history-scripts),
[queries](#queries), [SeenStore's versions](#seenstores-versions),
[small machinery](#small-machinery), [transports](#transports),
[the sites](#the-sites), [the command line](#the-command-line),
[runs](#runs), [findings](#findings), [known gaps](#known-gaps),
[theorems](#theorems), [what is not modelled](#what-is-not-modelled).

## Inventory

Paths are relative to `src/src/crawl_framework`.

| component | state | operations | what makes it correct |
|---|---|---|---|
| `core/concurrent_runtime.py` | four task groups, three bounded queues, one writer lock, `_ScopeState` per scope, `failure_event` | discover, crawl, write, upload, catalog, drain, cancel, final flush | checkpoint after durable data; exact batch counts; the run drains and ends |
| `core/shutdown.py` | number of requests, two events | `request_shutdown` | first request drains, second aborts |
| `storage/buffer.py` | partition buffers with their rows and scope tokens | `add`, `flush_scope`, `flush_all`, `has_scope` | no record is dropped or popped twice |
| `core/pipeline.py` | the batch in hand, manifests | submit, prepare, upload, catalog | Parquet, manifest, upload, verification, catalog, SeenStore, in that order |
| `storage/checkpoint.py` | one JSON file per scope | `load`, `save` | a save replaces the file or leaves it |
| `storage/seen_store.py` | last version hash per record | `inspect`, `commit_many` | a version is marked seen only when it is durable |
| `storage/recovery.py`, `recovery_orchestrator.py`, `retry_policy.py` | manifests: stage, status, attempts | advance, mark failed, recover one or all | a manifest only moves forward; a crash at any stage is resumed; retries are bounded |
| `core/resume.py` | nothing; reads checkpoints and manifests | `build`, `classify` | no unfinished scope is skipped for ever, no finished one is crawled again |
| `storage/uploader.py`, `cleaner.py` | local and remote files | upload, verify, delete | the local file is deleted only when the remote one is verified and cataloged |
| `storage/postgres.py`, `record_index.py` | data file rows, record versions | upsert, mark uploaded, superseded, archived | status moves one way; the active set has each row once |
| `storage/compaction.py`, `retention.py` | groups of files | write, publish, supersede | a reader never loses a row; a crash between two steps is repaired |
| `core/runtime.py`, `core/barrier.py` | the sequential runtime's scope and tracked records | `run_scope`, `wait_until_durable` | checkpoint after the barrier |
| `core/watermark.py`, which no code calls yet | current, completed gaps | `mark_complete` | current is the longest complete prefix |
| `core/concurrency.py`, `core/platform.py` | slots per stage; a result per site | slots, run sites | no deadlock of nested slots; one site's failure stays its own |
| `core/parallel_pipeline.py`, `storage/upload_workers.py`, `catalog_workers.py` | queues and workers | run | every item once; an end also when a stage fails |
| `transports/playwright.py` | workers, leases, channel slots | lease, release, recycle, close | a released worker comes back; close ends |
| `transports/http.py`, `rate_limit.py`, `proxy.py` | failure counts, delays, cool-downs | request, retry, select | bounded retries, delay within its cap |
| `storage/query.py`, `partition.py` | the files listed, the rows yielded | normalize, list candidates, read | the answer does not depend on which files were pruned |
| `observability/progress.py` | counters | record, snapshot | counters agree with each other |
| `core/bootstrap.py`, `app_factory.py`, `config.py`, `cli/main.py` | wiring, options, exit code | parse, build, run | recovery before crawl; slices and limits as typed; an exit code that tells what was crawled |
| `sites/*` | cursors, caches, lists of what was met | discover, crawl, hooks, `is_checkpoint_durable_complete` | a cursor or a completion mark covers what the crawl saw, on a site that changes meanwhile |
| `src/scripts/*` for the forum history | the catalog, SeenStore, a local directory | rewrite hashes, compact, publish, retire, repair | in any order, and left at any step, no row and no hash without its row |

How they interact. The command line builds one runtime per site through
`app_factory`; `CrawlBootstrap` recovers pending manifests, then runs the
runtime. A crawl worker asks the plugin for a scope's raw records and puts them
in `record_queue`; a writer, holding the one `writer_lock`, normalises each
record, asks `SeenStore` whether its version is new, adds it to `StagedBuffer`
and lets the plugin move the scope's *candidate* checkpoint. Partitions leave the
buffer as batches, which upload workers turn into a manifest, a Parquet file and
a remote file; catalog workers verify, register and commit to `SeenStore`. The
last batch of a finished scope, or its flush item, saves the candidate to
`CheckpointStore`. The next run asks `ResumePlanner` which scopes are left.

What is hard: the queues and the lock order steps of many workers; a batch may
belong to several scopes; the put into a full queue suspends a writer in the
middle of a loop; threads outlive their cancelled tasks; the process may stop
between any two steps; retries may meet work that was already done. The list of
these hazards with their lines is in `PROJECT.json`.

## Modules and plan

| module | models | proofs |
|---|---|---|
| `ConcurrentRuntime` | one run of the production runtime | `ConcurrentRuntimeProofs`, `DrainProofs` |
| `BatchLifecycle` | batches, manifests, recovery and resumption over many processes | `BatchLifecycleProofs` |
| `SequentialCrawl` | the sequential runtime and its durability barrier | `SequentialProofs` |
| `DurableCrawl` | the promise of a crawl, implemented by the three above | |
| `Warehouse` | the catalog's active files under compaction and repair | `WarehouseProofs` |
| `HistoryCompaction` | the one-off scripts for the old forum posts | `WarehouseProofs` |
| `NewestRows` | what a reader is owed, implemented by the two above | |
| `WarehouseQuery` | queries over partitions, buckets and relations | `WarehouseProofs` |
| `SeenVersions` | versions of a document up to SeenStore | `MachineryProofs` |
| `PlatformSites` | several sites in one process and their stage slots | `MachineryProofs` |
| `BoundedPipeline` | the generic pipeline, upload and catalog workers | `MachineryProofs` |
| `Watermark` | the contiguous watermark | `MachineryProofs` |
| `BrowserPool` | browser leases | `MachineryProofs` |
| `HttpRequests` | HTTP attempts, limiter and proxies | `MachineryProofs` |
| `NaverPages`, `KabutanMonths`, `TossLists`, `HkexReports` | the walk of each site's plugin and its checkpoints | `SiteProofs` |
| `CrawlSettings` | the command line: slices, limits, exit codes | `MachineryProofs` |
| `MCKept`, `MCEnds` | all but the two large ones side by side, for TLC | `PartsProofs` |

Each component is a specification of its own (`Init`, `Next`, `Spec`, properties);
`MCConcurrentRuntime` and `MCBatchLifecycle` instantiate the two large ones.
`MCKept` and `MCEnds` put the others side by side: a variable, `keptPart` or `endsPart`,
chosen once, says which of them runs, and the rest keep an initial state. The components
share no variable, so a behaviour of the whole is a behaviour of each part, which
`PartsProofs` proves (`KeptByParts`, `EndsByParts`), and each property is checked of its
part under every choice the part has. `MCKept` is about what must stay (safety),
`MCEnds` about what must come to an end (liveness, with the fairness each part states,
guarded by `endsPart`).

Left for later: `SeenVersions` as an implementation of a store that knows only the last
version; a number that falls with every step for a recovery, as there is for the runtime,
the pipeline, the platform and the Naver crawl.

## The concurrent runtime

`ConcurrentRuntime.tla` models one call of `run_dataset` and the `finally`
clause of `run`. A run starts from any checkpoints and records that earlier runs
may have left (`PriorRecords`) and may stop after any step: the safety
properties hold in every reachable state, so they hold at a crash.

State. `main` is the place of the coroutine in its sequence of stages;
`discovery`, `crawlersUp`, `writersUp`, `uploadersUp`, `catalogersUp` are the
tasks that have not returned. `recordQueue`, `uploadQueue`, `catalogQueue` are
the bounded queues. `holding` is the line of items before `writer_lock`, which
asyncio serves first come, first served: its head is the item of the lock's
holder. Sentinels follow everything else in their queue and only one stage is
drained at a time, so they are counted (`pills`, `sent`), not stored.
`pendingBatches`, `crawlDone`, `candidate`, `closed` are fields of `_ScopeState`
(`closed` is `result is not None`). `durable` is what the catalog and
`SeenStore` hold.

A batch takes its identity from `BatchIds` when its partition buffer is created,
so one function, `stage`, says where each batch is. Three stages deserve a word:
`popped` is a batch out of the buffer and not yet tracked, because the loop
waits at an earlier one; `dropped` is such a batch after an exception; `lost` is
a tracked batch nobody will complete. Buffers are opened under the least free
number, so `InsertionOrder` is the order of the code's dict, in which a flush pops
and offers them. A checkpoint is a set of marks: the
records its cursor covers and `Complete`.

Steps. An action runs from one `await` that really suspends to the next, since
nothing else runs between two of them on one event loop. A put into a queue that
has room does not suspend: `OfferBatches` puts batches, in `InsertionOrder`, until
the queue is full and stays with one tracked batch in hand (`putting`); `WriterPut`
and `MainPut` go on when there is room. A writer has more than one action between two
suspensions (it gets an item, works through it, gets the next), so `running` names the
writer that has not suspended: while it is not `"none"` no other task steps
(`Unforced`, `HolderRaises`). A writer that finds the lock taken is suspended in its
line and does not look at `failure_event` again when it is woken, and one that raises
has set `failure_event` before anybody else steps. What runs in a thread (`prepare_batch`,
`catalog_uploaded_batch`) is an action of its own, apart from the step that
takes its result, and outlives its task (`OrphanCommit`); what it commits it may commit
in the middle of a writer's stretch (`ThreadCommits`).

| code | actions |
|---|---|
| `discover` | `Discover`, `DiscoverRaises` |
| `crawl_worker` | `BeginScope`, `CrawlRecord`, `EndScope`, `PutItem`, `CrawlerReturns`, `CrawlRaises` |
| `writer_worker` | `WriterGet`, `WriterSentinel`, `SkipRecord`, `UnchangedRecord`, `BufferRecord`, `FlushScope`, `WriterPut`, `WriterRaises`, `HookRaises` |
| `upload_worker` | `UploaderGet`, `UploaderSentinel`, `Upload`, `PutCatalogJob`, `UploadRaises` |
| `catalog_worker` | `CatalogerGet`, `CatalogerSentinel`, `CommitBatch`, `CompleteBatch`, `CatalogRaises`, `OrphanCommit` |
| `run_dataset` | `CrawlOver`, `PutSentinel`, `FlushAll`, `MainPut`, `UploadOver`, `CatalogOver`, `FailFast`, `MainPutRaises` |
| `run` | `FinalFlush` |
| `ShutdownController` | `RequestShutdown` |

Abstractions: a partition overflows when the model chooses; the plugin yields any
subset of a scope's records in any order; each record has one version; a
checkpoint save is atomic (the store writes a temporary file and renames it);
several records of one partition are one batch until it is popped. Tasks that are ready
go on in any order, where asyncio has a queue of them: the model has all of its
executions and some more. What is proved and checked holds of all. The runs that show
a defect use `PromptSpec`, in which whatever is ready goes on before the next answer
of the site or of a thread comes, and their bounds are such that the execution found
needs no other order than the queue's.

## Batches and recovery

`BatchLifecycle.tla` models what is durable between processes: batches with their
local file, record index, manifest, remote file and catalog row; `SeenStore`;
completed checkpoints. A process is started, recovers, plans, crawls and ends, or
crashes anywhere (`Ends` keeps durable state only). Together with
`ConcurrentRuntime`, which models the inside of one run, it covers the way of a
record from the crawl to the catalog: `BatchLifecycle` opens up the two thread
calls `prepare_batch`/`upload_prepared_batch` and `catalog_uploaded_batch` that
are single actions there, and abstracts the queues and workers around them.

State. `at[b]` is the next external effect for batch `b`. The pipeline's workers
and `recover_one` run the same calls in the same order from a given stage on, so
the actions are shared; `process` tells them apart where they differ (an
exception, the source of the records for `SeenStore`, what follows the end).
`manifest[b]` is stage, the stage it failed from (`failed_from_stage`), the retry
count and whether the policy called the failure retryable. A step is one effect
that a crash can separate from the next: each manifest save is one, and so are
the three saves between the `SeenStore` commit and the deletion.

| code | actions |
|---|---|
| `StoragePipeline.prepare_batch` | `WriteParquet`, `WriteIndex`, `CreateManifest` |
| `upload_prepared_batch`, `RsyncUploader` | `StartUpload`, `EndUpload`, `RecordUploaded`, `VerifyExisting` (recovery), `RecordVerified` |
| `catalog_uploaded_batch`, `PostgresCatalog` | `Register`, `MarkUploaded`, `RecordCataloged`, `CommitSeen`, `RecordMarker` |
| `Cleaner.clean` | `Unlink`, `UnlinkIndex`, `Close` |
| `RecoveryOrchestrator.run` | `Start`, `SkipTerminal`, `RecoverOne`, `StartupBlocked`, `StartCrawl` |
| `recover_one`'s except clause, `RetryPolicy` | `CallRaises`, `Raise`, `MarkedFailed`, `Classify`, `FailureNotSaved` |
| `ResumePlanner`, `RecoveryStoreResumeInspector` | `Status`, `ShouldCrawl` |
| crawl, `SeenStore.inspect`, scope completion | `TakeBatch`, `SkipUnchanged`, `SaveCheckpoint` |
| shutdown, end and death of the process | `RequestShutdown`, `FinishRun`, `Crash` |

`Faults` says what may go wrong: `crash` and `stop`; `transient` and `permanent`,
a call that raises something the policy knows to retry or does not; `short`, an
upload after which the remote file is not whole; `save`, a `mark_failed` that
raises itself. A failure in the pipeline stops the run and leaves the manifest
where it was; in recovery it marks the manifest.

Abstractions: each record has one version; only manifests of the staged runtime,
which have an index, are modelled; a manifest save is atomic; a batch that a
failure stopped rests at a boundary between two thread calls; a checkpoint is
complete or not. `reclassify_failed` and `advance` to `failed`, which nothing
calls, the sequential pipeline `process_batch`, dry runs and manifests without an
index are left out.

## The promise

`DurableCrawl.tla` says what a crawl promises, without buffers, queues, files or
processes: records become durable and stay so (`Store`); a saved checkpoint
covers durable records and loses no mark (`Save`). `KeepsPromise` in
`ConcurrentRuntime` is the refinement of one run (same variables), in
`BatchLifecycle` that of all processes: durable is what is seen and in a whole,
cataloged remote file, and a complete scope covers all its records.

## The sequential runtime

`SequentialCrawl.tla` models `CrawlRuntime`: scopes one after the other, each
record submitted, tracked by the barrier and shown to the plugin's hook; then the
barrier, and only behind it the checkpoint. Here the buffer lives in the same task,
so a batch is processed inside of `submit` or of the flush, and there is no queue.

State. `seqBuffer` is the staged buffer, `tracked` the barrier's records of the
scope, `seqCandidate` the candidate checkpoint, `flushing` the batches popped and
not yet processed, `afterFlush` what the flush is part of. `seenHash` is the version
SeenStore holds of each record, `stored` what is uploaded and cataloged,
`manifests` what startup recovery finishes before the next run.

| code | actions |
|---|---|
| `CrawlRuntime.run`, `run_dataset` | `SeqStart`, `SeqBeginScope`, `SeqRunOver`, `ScopeRaises` (the `finally` with `flush_all`) |
| `run_scope`, `StoragePipeline.submit` | `SeqRecord`, `SeqSkip`, `SeqRecordRaises`, `SeqScopeHook` |
| `DurabilityBarrier.wait_until_durable` | `WaitUntilDurable`, `FlushBatch`, `FlushRaises`, `FlushOver`, `Recheck` |
| `CheckpointStore.save` | `SaveCandidate` |
| startup recovery, death of the process | `SeqRecover`, `SeqCrash` |

`SequentialKeepsPromise` is the refinement of `DurableCrawl`. It is not obvious:
the barrier never looks at the catalog, it asks SeenStore whether the hash it holds
is the tracked version's. That this means *stored* is the invariant
`SeenIn` of the proofs. `RefusesTwoVersionsOnly` says what the barrier
costs: it refuses a scope only when its pages showed two versions of one record,
where SeenStore keeps the last; such a scope fails again in every run although
everything of it is stored.

## The warehouse

`Warehouse.tla` models one dataset in the catalog's `data_files`: the batch files
crawls upload and register, `compact_active_dataset`, which replaces the files of
a partition by one, and the operator's repairs. It takes over where
`BatchLifecycle` ends: a batch file is registered (`StoreBatch`), marked
(`FinishBatch`) and perhaps registered again by a recovery that comes late
(`RecoverBatch`).

State. A file is its number in the order of writing; `partition` and `content`
never change once it is written. `storage` is how far it has got: written, remote,
then the `storage_status` of its row; `lifecycle` is its `lifecycle_status`. Each
compactor has a program counter, the files it has still to replace (`plan`) and
its replacement in work (`out`). Two processes may compact the same dataset, since
nothing in the code prevents it, and `Abandon` ends a compaction at any step.

| code | actions |
|---|---|
| `register_data_file` with its upsert | `Register` in `StoreBatch`, `RecoverBatch`, `RegisterReplacement` |
| `mark_uploaded`, `mark_superseded` | `MarkUploaded`, `MarkSuperseded` in `FinishBatch`, `MarkReplacement`, `SupersedeSource` |
| `list_active_data_files`, `build_compaction_plan` | `ActiveFiles`, `CompactionPlan`, `ListActive` |
| `write_compacted_group`, `deduplicate_table` | `WriteReplacement`, `Deduplicate` |
| `publish_compaction_result` | `UploadReplacement`, `RegisterReplacement`, `MarkReplacement`, `SupersedeSource` |
| end of `compact_active_dataset`, failure or crash in it | `FinishRun`, `Abandon` |
| `apply_safe_repairs`, `mark_archived`, `mark_active` | `RepairUploaded`, `Archive`, `Rollback` |
| `evaluate_retention` | `RetentionArchives`, the files `Archive` takes |

`NewestRows.tla` is what a reader is owed: of each record of a partition the newest
version, and only crawls change it. `KeepsNewest` says that the active files,
deduplicated, are exactly that, so a compaction, two at a time, a crash of one and
every repair are stutters.

Abstractions: rows are an identity and a crawl time; ties of crawl time, which the
code breaks by position, are one row; dry runs change nothing; a `mark_superseded`
on the operator's word, which removes rows by intent, is left out. So is a
`mark_archived` of a file that retention does not name: `apply_safe_repairs` takes
whatever file the operator gives it (`storage/repair.py:147`), and one that is active
takes its rows out of the readers' sight until `mark_active`.

## The history scripts

`HistoryCompaction.tla` models the seven scripts under `src/scripts` that were
written to bring the old forum posts to one file per partition: two rewrite
version hashes in SeenStore, one compacts the active files into a local directory,
one publishes that directory, two take the old files out of the active set, one
marks uploaded what was left local. They know their files by fixed ids and check
sums of rows, and a crawler may store batches between any two of their steps.

State. `catalog` is the dataset's rows in `data_files` by id; `seen` the hash of
each record, where `Legacy` is one of the normaliser before; `uncommitted` what a
crawl has cataloged and not yet committed. `script` is the next step of the script
that runs, `work` the rows it has read, `todo` the files it has still to write or
publish; `ScriptEnds` leaves it at any step.

| script | actions |
|---|---|
| `migrate_seen_forum_post_hashes`, `..._local_history` | `ReadActiveHistory`, `ReadLocalHistory`, `WriteHashes` |
| `compact_naver_forum_post_history` | `ReadSources`, `SafetyGate`, `WriteClean` |
| `publish_naver_forum_post_compaction` | `CheckOutput`, `RegisterOutput`, `MarkOutput` |
| `retire_naver_forum_post_history` | `CheckRetirement`, `VerifyRetirement`, `CommitRetirement` |
| `migrate_data_files_lifecycle_status` | `CheckMigration`, `VerifyMigration`, `CommitMigration` |
| `repair_remote_catalog` | `RepairRemote` |
| the crawler beside them | `CrawlerStores`, `CrawlerCommits` |

`HistoryKeepsNewest` is the refinement of `NewestRows` again; `SeenIsActive` says
that a hash of the current normaliser, for which no crawl stores the record again,
has its row in an active file. Both rest on the check of the new files' ids and of
their sum of rows (`NewFilesFit`), so they hold as long as counts tell files apart:
`CountsTellApart` says so, as a condition on the posts of each partition. The
instance has partitions of different sizes for that reason, and the theorems have
the condition as their hypothesis. Of the scripts' other checks the proofs need
the gate's, that a row was read of every post with a hash; the retirement's
comparison with SeenStore (`AgreeWithSeen`), its look at the old files
(`OldFilesFit`) and the migration's at what is left local (`OnlyNewLeft`) are
precautions neither theorem rests on.

## Queries

`WarehouseQuery.tla` models a query from its arguments to its rows. Dates of a
time zone become instants (`Start`, `EndExclusive`), instants partition dates
(`FirstDate`, `LastDate`, by the granularity of the dataset), instruments buckets
of today's and of earlier counts (`BucketsOf`); `Ask` lists the active files of
those partitions once, `ReadFile` reads and filters one after the other up to
`max_rows`, while crawls add files (`StoreRow`) and compactions replace them
(`CompactFiles`). `QueryAnswers` compares the answer with what the arguments mean
of *all* rows that were active at the listing: pruning may lose none and add none.
`Answerable` excepts two kinds of query, see [known gaps](#known-gaps).

## SeenStore's versions

`SeenVersions.tla` models a document that a site changes: a version is read,
compared with the stored hash when it is buffered, batched and committed, in any
order and by recovery as well. `SeenSettles` is what `inspect` and the overwriting
`commit_many` owe: when the document no longer changes, SeenStore comes to hold its
last version and nothing more is stored. It needs `inspect` to compare versions
(not just presence), because an older batch may overwrite a newer hash and only
the next crawl puts that right.

## Small machinery

`PlatformSites.tla` models `core/platform.py` with `core/concurrency.py`: sites as
tasks, `site_workers` at a time, and three semaphores all sites share. A worker of
a crawl takes one slot (`StageWork`), a recovery two (`RecoverySlots`), the work
after a dataset three (`MaintenanceSlots`), each while it holds those before.
`EverySiteAnswers` is freedom from deadlock of these nested slots under failures
and stops, and says that the report is then honest (`PlatformHonest`): a success
leaves no site out. The crawl of a site is taken to end, by success or failure: where it
is the concurrent runtime, finding 3 is the case in which it does not.

`BoundedPipeline.tla` models `core/parallel_pipeline.py`, whose instances with one
stage are `storage/upload_workers.py` and `catalog_workers.py`: a producer, queues
of items and end markers, workers that count themselves off (`finished`), a handler
that raises, a source that raises (`SourceRaises`). `PipelineEnds`: `run` raises, also
when every worker of a stage died behind a full queue, or returns and has then lost no
item and doubled none (`Delivered`). The first works because `gather` passes on the first exception and
leaves the others where they are. An item is one item in every stage: that a handler
may return a list or a tuple, whose members become items of the next stage
(`parallel_pipeline.py:271-296`, `335-361`), is left out. Neither instance does; a unit
test does (`tests/unit/test_parallel_pipeline.py:88-104`).

`Watermark.tla` models `core/watermark.py`; `WatermarkIsPrefix` is its whole
specification. The class has no caller in the repository.

## Transports

`BrowserPool.tla` models `BrowserWorkerPool` and the leases: a slot of the channel,
a worker from the queue, a page, an operation, and on the way out recycling or
restart, cancellation at any point and `close` with leases outside.
`WorkersAreSound`: a worker is free or leased by one, and a free one has a context.
`EveryOperationEnds`: no lease waits for ever while the pool is open and has a
worker. The excepted cases are real: a restart that raises loses its worker for good
(`RestartRaises`, `transports/playwright.py:328`), and `close` wakes no waiter.

`HttpRequests.tla` models `HttpTransport` over one endpoint: attempts, backoff with
the slot in hand, the adaptive delay with its circuit, round robin over proxies that
cool down; time is a `Tick`. `RequestsAnswered` is about requests that change limiter
and pool for each other while they wait: each is answered, or raises with its last
attempt. No delay exceeds its cap, which the type invariant says.

## The sites

The plugins differ in how they walk a site and what they take for its end; what they
share is a checkpoint that the next run believes. All four modules let the site
change while it is crawled, and let a run stop or fail at any step.

`NaverPages.tla`: numbered pages of a board, `kept` by runs that saved. A forum, the
news of a stock and their relations are one list; reports and PDFs one list for each
category. Posts arrive (`PostArrives`) and vanish (`PostVanishes`), which moves the
others between pages. The stop conditions are those of the code: an empty page
(`EmptyList`), a page that was seen (`Repeated`), pages of known ids
(`StopRepeatPages`), limits of pages and of attachments. Posts are numbered as they
come, and the number of one that vanished is not given again. `ListIsCovered` and
`NothingBehindTheCheckpoint` say that stop and resumption miss no more posts than
vanished meanwhile. Behind its last page a site shows nothing or the last page again
(`pastEnd`), and any crawl may meet either. `BoardCrawlEnds` says which ends: all but one
without a limit that compares neither pages nor ids (a forum, the relations of news,
news in full) on a site that repeats its last page (`EndGoesUnnoticed`). The code never
leaves that one of itself (`forum_post.py:1317-1400`, `news.py:1281-1306`).

`KabutanMonths.tla`: `discover` probes the months backwards up to the paywall and
caches each first page; `crawl_month` walks the pages with the page limit, the
repeated page and the locked rows (`CrawlPage`); an answer without the list, which only
the probe would notice, is taken for the end (`PageWithoutList`);
`is_checkpoint_durable_complete` is `LeftOut`. `AcceptedMonthIsCovered`: an accepted
month has all free articles of the time its first page was fetched, unless a page came
without its list (`mayLack`). `FreeFullIsComplete`: a `free_full` run that
ends by itself leaves out no month with a free article.

`TossLists.tla`: a list that loads as it is scrolled (`ScrollRound`), shows bottoms
that are none, and articles of which some do not open (`OpenDetails`) and are handed
on as pending links. One client remembers how the last list ended. Whether a crawl may
stop at history is what the modes typed and the stored state make of it
(`StopsAtHistory`: `forum_mode`, `news_mode=full`, `toss_news_baseline_complete`). A site
may load for any number of rounds (`LoadingRounds` is a bound), also for longer than the
crawl waits (`LoadsTooLong`). `NextCrawlIsTold` is about the state the next run starts
from: a complete baseline means that all of the list is kept (`BaselineMeansAll`), and
no link is forgotten (`NoLinkForgotten`), a site excepted that has loaded for
`stable_bottom_rounds` with a bottom in sight.

`HkexReports.tla`: three datasets of one search, which asks for types and for the days
from and to (`AskedFor`). What is typed (`HkexCommands`) may leave either day to the
profile: the full one asks from the first day to the day of each scope, the incremental
one for the last `LookbackDays` before the process began (`StartHkex`, `Lookback`). A
typed day may be one to come. The search is cached for the process (`CacheHit`), its
request stored as the state of the scope, and a full crawl leaves out a dataset whose
stored request is its own (`SameRequest`). Releases and midnights (`Release`,
`Midnight`) come at any time. `GoesOnWithAllAsked`: a process goes on from a dataset,
crawled or left out, only with every report it was asked for kept: released before the
day asked up to or, where a last day was typed, before the process that searched
began. So a state of the incremental profile never stands for a full request.

Left out everywhere: parsing and normalising, which the properties do not look at;
what an item is, is a number.

## The command line

`CrawlSettings.tla` models what `cli/main.py` makes of the flags and the profile
(`AllInstruments`, `InstrumentSlice`, `ProfilePages`), what `app_factory.py` makes of
the options (`ContextPages`), the plugins' own limits (`PagesOf`) and the exit code
of `CrawlBootstrap.run` (`Recover`, `CrawlRaises`, `RuntimeReturns`), where building the
crawl, recovery and the runtime may each raise. An operator
walks a list slice by slice and types a command again unless it exited with 0:
`CommandDoesAsTyped` says that each instrument is then crawled in one slice
(`SweepIsExact`), what the exit code is worth (`ExitTellsWhatWasCrawled`), and that no
default of a profile or plugin exceeds a limit that was typed (`TypedLimitsHold`).

## Runs

| run | checks | shows |
|---|---|---|
| `rt_scope` | `PendingAccounting`, `KeepsPromise` | one writer, a flush per finished scope, every failure at any point, up to two stop requests |
| `rt_writers` | `CheckpointAfterDurable`, `CompleteCoversCrawl` | two writers and two crawlers, a partition of two scopes, no failures, at most one stop request |
| `rt_coalesced` | `DrainedIsDurable`, `EveryScopeCloses`, `RunEnds` | coalesced flushes, two writers and two crawlers, at most one stop request: what is left in the buffer is stored by `flush_all`, every scope is closed, and the run ends |
| `rt_coalesced_early` | `CheckpointAfterDurable` (violated) | finding 1 |
| `rt_hook_failure` | `CheckpointAfterDurable` (violated) | finding 2 |
| `rt_abort_hangs` | `AbortEnds` (violated) | finding 3 |
| `bl_crash` | `InterruptionNeverFails` | crashes and stops between any two steps, without failures, a record common to two scopes: recovery always succeeds |
| `bl_faults` | `SeenIsStored`, `NeverLost`, `StoredOnce`, `RetryBudget`, `NeverBackward`, `KeepsPromise` | every kind of failure beside the interruptions |
| `bl_settles` | `EveryManifestSettles`, `EveryScopeSettles` | every manifest is deleted or given up in the end, and every scope becomes complete unless a batch of it was given up |
| `bl_trust` | `InterruptionNeverFails` (violated) | finding 4 |
| `parts_kept` | `KeptTypeOK`; warehouse: `KeepsNewest`; history: `SeenIsActive`, `HistoryKeepsNewest`; queries: `QueryAnswers`; sequential: `SequentialKeepsPromise`, `RefusesTwoVersionsOnly`; `WatermarkIsPrefix`; Naver: `ListIsCovered`, `NothingBehindTheCheckpoint`; Kabutan: `AcceptedMonthIsCovered`, `FreeFullIsComplete`; Toss: `NextCrawlIsTold`; HKEX: `GoesOnWithAllAsked`; command line: `CommandDoesAsTyped` | ten parts, each on its own: what was stored, answered or promised stays so |
| `parts_end` | `EndsTypeOK`; warehouse: `Converges`; platform: `EverySiteAnswers`; pipeline: `PipelineEnds`; `SeenSettles`; browsers: `EveryOperationEnds`, `WorkersAreSound`; HTTP: `RequestsAnswered`; Naver: `BoardCrawlEnds` | seven parts, each on its own: what has begun comes to an end |

The properties proved for all constants whose check would only repeat another's are
not run again: `TypeOK` and the inductive invariants of the runtime, the lifecycle and
the warehouse, `DeletedIsClean`, `NoRowLost`. `KeepsPromise`
contains `CheckpointAfterDurable` where both could be asked.

Bounds of the runtime. Two scopes, where one spans two partitions and shares one with the
other: enough for a batch with two owners and a scope with two batches in
flight, the two cases the accounting is about. Queues of size one are full as
often as can be. `BatchIds` bounds the partition buffers created in one run at one
per record, which is all that a run can pop. `MaxStops` is two because later
requests change nothing. `rt_coalesced` takes one record of each scope: its liveness
properties cost more. The runs of findings 1 and 2 have five records, three of them to
fill queue and uploader with batches of another scope, and that of finding 2 room for
three records, so that the crawl is ahead of the writers. No symmetry is used, since the scopes
differ in `ScopeRecords`.

`CHECK_DEADLOCK FALSE`: a run of the program ends, and a finished run has no
step left. That it reaches its end is `RunEnds`.

Bounds of the lifecycle. Two scopes with a batch each, or three batches where
scopes are crawled again, are enough for each batch to meet the states of another
one in recovery, plan and crawl. `BatchIds` bounds the batches of all processes
together; a model that has used them up cannot crawl a scope again, which
`EveryScopeSettles` allows for. `MaxRetries` is 1 or 2: a failure that may be
tried again, and the one that may not. Crashes are not counted.

Bounds of the warehouse. In `parts_kept` two batches and two compactors with six
files let one compaction supersede what the other has read, replace a replacement,
and be abandoned halfway; two versions of one record tell the newest row from an
older one. More records behave like one, since files are compared row by row. The
two compactors are symmetric; no other part knows them, and no liveness property is
in that run. In `parts_end` one compactor works on two partitions, with crashes.

Bounds of the other parts. They end the model, not the system, hence
`CHECK_DEADLOCK FALSE`: a part at its bounds has no step left.

- History: two old files (one left local) and two partitions of two and three posts,
  one re-crawled in each, one crawled batch beside the scripts, two compactions: a
  second attempt meets the first one's files.
- Queries: four layouts (day and month partitions, an earlier bucket count, partitions
  by crawl time), three rows with and without a date, three files, every range around a
  boundary in two time zones, a limit. Half days make time zones matter; two-day
  months and four-day years keep the calendar small. Leap days are not met.
- Sequential: two scopes that share a record, one with two versions of it, two
  partitions, a buffer that fills with two rows, two runs.
- Watermark: five sequences in every order, with repetitions.
- Naver: two pages at first, one arrival and one deletion at any moment, two runs of
  a forum (resumption) and one of a list with categories; a limit of one page or none.
  `MaxPage` stops the walk that goes round two pages behind the last one there can be.
- Kabutan: a month within a page, one of two pages that is cut by the paywall, the
  present one, one to come; two runs.
- Toss: two items and one to come, two runs over three datasets, limits that cut and
  limits that do not, a site that loads for up to as many rounds as the crawl waits.
- HKEX: two reports of two types, three days, two runs of five commands: both
  profiles, all types or one, days left open or typed, one of them to come; a lookback
  of one day.
- Command line: three sites, lists and files that overlap, slices of two, three
  commands.
- Platform: three sites, two at a time, one slot for each stage: the tightest case of
  the nested slots. Pipeline: two stages of two workers with room for one item, three
  items. SeenStore: one document (documents are independent), two contents, two
  batches at a time. Browsers: two workers, two channels, a worker that wears out after
  two scopes. HTTP: two requests for one slot, two proxies, two attempts.

Fairness of the runtime (`FairSpec`). asyncio runs every task that is ready, so each worker
that can go on does, each by a condition of its own; the writers share two,
because `writer_lock` serves them in turn. A thread's call ends. Nothing forces
an exception, a stop request, or the clean-up after the end. A crawl may be
endless in the code; in the model it yields each record at most once.

Fairness of the lifecycle. The crawler is started again whenever it has ended (it
is a scheduled command), a running process goes on, and so does the thread that
carries a batch. Nothing forces a fault. The liveness properties start from
`Calm`: from some time on nothing is interrupted. They do not assume that
failures stop: the retry limit must bring a batch that fails again and again to
its end.

Fairness of the warehouse. A crawl marks what it has registered, in its own process
or in the recovery of the next; with `compact_after_dataset` each later crawl ends
with a compaction (`post_dataset_hook`), so a compaction is always started again.
`Converges` is about one compactor: two in lockstep may replace the same files at
the same time for ever and leave two replacements each time.

Fairness of the other parts. Platform, pipeline and the Naver crawl make finitely many
steps (`PlatformRunsOut`, `PipelineRunsOut` and `WalkRunsOut` prove it), so all they need
is that *some* ready task goes on (weak fairness of `PlatformGoesOn`, `PipelineGoesOn`,
`BoardGoesOn`): asyncio never idles while a task is ready, and threads end. Leases
(`BrowserFairness`) are served by a semaphore and a queue, first come, first served:
strong fairness of each, since a slot comes and goes while one waits. For HTTP, time passes and a call returns or times out. For
`SeenSettles`, crawls come back to every document, a version that is read again and
again is buffered at last unless the process is killed each time, and a batch with a
manifest is committed by its process or by recovery. No fault, stop or cancellation is
ever forced. `PlatformGoesOn` has the crawl of a site end, which finding 3 denies a site
whose upload or catalog workers have failed behind a full queue.

## Findings

1. *Coalesced flushes may save a checkpoint early*
   (`concurrent_runtime.py:724`). `flush_all` pops the buffers in the order they were
   opened; each batch is tracked just before its put. In the run, a batch of `S` that
   filled its partition is with the catalog worker, a batch of `T` is being uploaded and
   another fills `upload_queue`. The flush item of `S` pops `T`'s batch and `S`'s second
   one: the first is tracked and waits for room, the second is neither in the buffer
   nor pending. The first batch of `S` completes, and `S` is closed with a checkpoint
   over a record that is not durable. A crash then loses it.
2. *A record hook that raises drops a batch* (`concurrent_runtime.py:685`). After a put
   that blocked, two writers take turns in the lock's line. One has the last record of
   `S`, which fills its partition; the other has got the flush item of `S`, has looked
   at `failure_event` and stands behind. `checkpoint_after_record` raises with the
   popped batch in hand; the other writer finds no buffer and no pending batch of `S`
   and closes it.
3. *Sentinels are put without looking at failures*
   (`concurrent_runtime.py:952`, `970`, `980`). After the last worker of a stage
   failed with its queue full, `run_dataset` waits for ever and a second stop
   request has no effect.

4. *A crash can make recovery give up a stored batch*
   (`storage/uploader.py:1130`). With `--trust-rsync-success` no check of the
   remote file is left, and `verify_existing` refuses. A process that stops
   between the saves of `uploaded` and `verified` leaves a manifest recovery
   fails on for good, and its scope is not crawled again. The README's promise
   that recovery resumes an interrupted batch does not hold there.

With `flush_scope_on_scope_done` (the default) the first cannot happen, with one
writer the second: this is what `SafeSetting` says and what is proved.

## Known gaps

Behaviour of the code that the properties have to except, each stated as a conjunct
of the property and listed under `hazards` with its line. They are properties of the
modelled code, found while checking, and no document promises otherwise unless it is
quoted.

- `QueryAnswers`: a projection without `instrument_id` or `relations_json` leaves the
  relation filter nothing to look at (`storage/query.py:1348`); a range of `event_time`
  prunes partitions by date although some datasets are partitioned by `crawled_at`
  (`storage/query.py:809`). Both lose rows.
- `RefusesTwoVersionsOnly`: a scope whose pages show two versions of a record fails in
  every run of the sequential runtime.
- `EveryOperationEnds`: a worker whose restart raises never comes back; `close` wakes
  no lease that waits.
- `ListIsCovered`, `NothingBehindTheCheckpoint`: as many arrivals as fill a page look
  like the end of a list of reports; pages of unreadable articles like pages of known
  ones; reports resume every category at the page of the last one; posts that arrive
  before the page of the checkpoint are not met by the next run.
- `BoardCrawlEnds`: a site that repeats its last page keeps an unlimited crawl of a
  forum, of the relations of news or of news in full going until it is stopped or a
  request fails.
- `AcceptedMonthIsCovered`: articles that arrive after a month's first page was
  fetched are left to incremental runs; a page after the first that comes without its list
  (HTTP 200) is taken for the end, and the month for complete
  (`market_news.py:302-317`; only the probe looks for the list, at 230).
- `NextCrawlIsTold`: when a list does not open, the state of another dataset's list
  decides about the baseline; a site that shows a bottom for `stable_bottom_rounds` while
  it loads is taken for one at its end (`tossinvest/news.py:131`).
- `GoesOnWithAllAsked`: reports released on the day of the search, after it; when a typed
  last day is still to come, the stored request says complete for days on which
  nothing was searched (`hkexnews/plugin.py:457-464`, `cli/main.py:1514-1523`), so only
  what was released before the searching process began is promised.
- `CommandDoesAsTyped`: a Toss command without instruments means the whole market.
  Its limits are weaker than what `src/finished.md:632-638` says of
  `naver_full`: an unset page limit is not unbounded, it is one page, and for forums the
  profile's one page wins over a typed `--max-pages`.

## Theorems

The theorems hold for every value of the constants the assumptions allow; each
assumption stands in the module that declares the constants, and TLC evaluates it
on every run of that module.

- Sizes and sets: any sets of scopes, records, workers, reports, posts, browsers, any
  sizes of queues, pages, buffers and limits, any bounds on the environment's steps;
  finitely many batches, files and workers where the proofs count them.
- `WorkerAssumption`: at least one upload and one catalog worker, and finitely many
  (`concurrent_runtime.py:211-214` refuses less).
- `ItemAssumption`: `None` is no item; `BrowserAssumption`: `NoBrowser` is no browser;
  `PipelineAssumption`: no item is an end marker or the name of a worker's state.
- `HistoryAssumption`: finitely many posts and partitions, ids numbered from 1 with the
  new ones behind the old, one new file for each partition.
- `PlatformAssumption`, `HttpAssumption`, `VersionsAssumption`: slots, attempts and workers,
  at least one of each; any delays; finitely many sites, requests, proxies and documents.
- `LifecycleAssumption`: any retry limit and any kinds of faults.
- `TossAssumption`: at least one item at first; any limits of rounds and details.
- `HkexAssumption`: each report has a type, a command some types; days are numbered
  from the first.
- `KabutanAssumption`: a month to come has no article yet; when a month has locked
  articles, the months before it are locked (the paywall is a date).
- `NaverAssumption`: there is a category, and no category is listed twice.
- `QueryAssumption`, `SettingsAssumption`: what is asked and typed are records and lists
  of the kinds the code reads.
- `FiniteCrawl`, the hypothesis of `RunIsFinite` alone: plugins yield finitely many scopes
  and records, to finitely many crawl workers. The others need no bound on a crawl.

| theorem | states |
|---|---|
| `TypeCorrect` | `Spec => []TypeOK` of the runtime |
| `PendingExact` | `Spec => []PendingAccounting`: under any failures, stops, writers and flush policy |
| `CheckpointSafety` | `SafeSetting` implies `Spec => []CheckpointAfterDurable` |
| `RunKeepsPromise` | `SafeSetting` implies `Spec => KeepsPromise` |
| `LifecycleInvariant`, `LifecycleTypes` | `Spec => []LInv`, `Spec => []TypeOK` of the lifecycle |
| `SeenSafety`, `NothingLost`, `DeletionSafety` | `UploadsAreSound` implies `Spec => []SeenIsStored`, `[]NeverLost`, `[]DeletedIsClean` |
| `StagesOnlyGrow`, `RetriesBounded` | `Spec => NeverBackward`, `Spec => []RetryBudget` |
| `CrawlKeepsPromise` | `UploadsAreSound` implies `Spec => KeepsPromise` |
| `NoDuplicates` | `OnceSetting` implies `Spec => []StoredOnce` |
| `WarehouseInvariant`, `WarehouseTypes` | `Spec => []IInv`, `Spec => []TypeOK` of the warehouse |
| `CompactionLosesNothing`, `CompactionInvisible` | `Spec => []NoRowLost`, `Spec => KeepsNewest` |
| `SafetyInvariant`, `OnceInvariant` | `SafeSetting` implies `Spec => []IInv` of the runtime, `OnceSetting` implies `Spec => []OnceInv` |
| `SequentialInvariant`, `SequentialImplements` | `SequentialSpec => [](SInv /\ ScopesLeft)`, `SequentialSpec => SequentialKeepsPromise` |
| `CompleteIsWhole` | one writer or no failures implies `Spec => []CompleteCoversCrawl` of the runtime |
| `DrainIsDurable` | `Spec => []DrainedIsDurable`: any writers, flush policy and failures |
| `InterruptionsFailNothing` | `InterruptedOnly` (checked uploads, no faults but crashes and stops) implies `Spec => []InterruptionNeverFails` |
| `RefusalIsTwoVersions` | `SequentialSpec => []RefusesTwoVersionsOnly` |
| `QueriesAnswer` | `QuerySpecification => []QueryAnswers` |
| `PoolIsSound` | `BrowserSpec => [](BrowserTypeOK /\ WorkersAreSound)` |
| `SweepsAsTyped` | `SettingsSpec => []CommandDoesAsTyped` |
| `WatermarkTypes`, `WatermarkExact` | `WatermarkSpec => []WatermarkTypeOK`, `WatermarkSpec => []WatermarkIsPrefix` |
| `HkexInvariant`, `AllAskedIsKept` | `HkexSpec => []HInv`, `HkexSpec => GoesOnWithAllAsked` |
| `TossTellsNextCrawl` | `TossSpec => [](TossTypeOK /\ NextCrawlIsTold)` |
| `AcceptedMonthsAreCovered`, `FreeFullLeavesNone` | `KabutanSpec => [](KabutanTypeOK /\ AcceptedMonthIsCovered)`, `KabutanSpec => FreeFullIsComplete` |
| `ListsAreCovered`, `NothingIsLeftBehind` | `NaverSpec => []ListIsCovered`, `NaverSpec => []NothingBehindTheCheckpoint` |
| `WalkRunsOut` | `NaverSpec => []WalkIsFinite /\ WalkGoesDown /\ WalkGoesRound` |
| `SeenStaysActive`, `HistoryStaysNewest` | `CountsTellApart` implies `HistorySpec => []SeenIsActive`, `HistorySpec => HistoryKeepsNewest` |
| `SlotsKeepMoving`, `PlatformIsHonest` | `PlatformSpec => []NoCircularWait`, `PlatformSpec => [](PlatformTypeOK /\ PlatformHonest)` |
| `ReturnIsDelivery` | `PipelineSpec => [](PipelineTypeOK /\ (pipeline = "returned" => Delivered))` |
| `SlotsAreShared` | `HttpSpec => [](HttpTypeOK /\ SlotsAreFew /\ AttemptsInOrder)` |
| `VersionsAreSound`, `WhatSettledStays` | `VersionsSpec => [](VersionsTypeOK /\ NeverAhead)`, `VersionsSpec => StaysSettled` |
| `RunNeverStuck` | `Spec => []OnlyFailuresStop` of the runtime: a run that is not over has a step of its own, unless the workers of a stage failed |
| `RunIsFinite` | `FiniteCrawl` implies `Spec => []WorkIsFinite /\ WorkGoesDown` of the runtime |
| `PipelineKeepsMoving`, `PipelineRunsOut` | `PipelineSpec => []PipelineNeverStuck`, `PipelineSpec => []PipelineIsFinite /\ PipelineGoesDown` |
| `PlatformKeepsMoving`, `PlatformRunsOut` | `PlatformSpec => []PlatformNeverStuck`, `PlatformSpec => []PlatformIsFinite /\ PlatformGoesDown` |
| `LeasesKeepMoving`, `RequestsKeepMoving` | `BrowserSpec => []LeasesNeverStuck`, `HttpSpec => []RequestsNeverStuck` |
| `LimiterIsHonest` | `HttpSpec => []LimiterHonest` |
| `KeptTypes`, `EndsTypes` | `KeptSpec => []KeptTypeOK`, `EndsSpec => []EndsTypeOK` |
| `KeptRunIsSafe`, `EndsRunIsSafe` | the safety properties of all parts hold in every run of `KeptSpec`, of `EndsSpec` |

Each inductive invariant has a lemma that every step keeps it (`AccountingStep`,
`SafetyStep`, `LifecycleStep` and so on), with a case for each action, and each module
its type invariant. `UploadsAreSound` says that uploads are verified or never short:
without it a batch may be marked seen that was not stored whole. `OnceSetting`
says that scopes share no record and that a failed recovery blocks the start.

*The counts.* `PendingAccounting` is not inductive alone: `CompleteBatch` is
right only if the batch it takes off is a tracked one, which holds because the
queues carry distinct batches in the stage of their queue (`QueueInv`), and
because no worker outlives its cancellation (`WorkersInv`). `AccountingInv` is
the conjunction, and is inductive. The put loop is the only step that moves many
batches; `OfferFacts` says once what it does to any of them, and the lemmas on
counting (`SameCounts`, `TrackedCounts`, `CompletedCounts`) turn moves of
batches into changes of cardinalities.

*The checkpoint.* A checkpoint is a candidate that was saved, so a candidate's
records must be durable when its scope is ready. `CoverInv`: each such record is
durable or in a batch of the scope that is on its way. When the scope is ready,
it has no buffered batch and, by exactness of the counts, no tracked one; a
batch outside both is `popped` or `dropped`. `UntrackedInv` says that a popped
batch with a finished scope waits behind a tracked batch of that scope, and that
a dropped one means the only writer is gone. This in turn needs that no batch
with a finished scope is buffered again, hence that a scope's flush item is its
last item: `OrderInv`, from the crawl worker through the queue and the lock's
line. `IInv` joins the three.

*The mark of a scope.* A complete checkpoint covers all its crawl yielded: `CompleteInv`
follows each yielded record from the crawler's hand through the queue and the lock's
line to the candidate (`NoRecordLost`), and the mark from the end of the crawl to the
flush item that carries it (`MarkFollowsEnd`); since the flush item is the scope's last
(`OrderInv`), no record is on its way when the mark is set (`MarkedIsWhole`). A second
writer may go on after the first died with a record, hence the hypothesis.

*The drained run.* `DrainInv` says what holds until the first failure. The sentinels
empty one stage after the other (`StagesDrain`), so at the end no worker is left; a batch
is where its stage says, with a worker that has not returned (`BatchesAreHeld`); a
record is with one of them or durable (`RecordsAreKept`); and a finished scope without a
result has a batch that will look at it again (`ScopesAreOwed`). With nobody left to
hold anything, all is durable and closed. No failure is forgotten, so a run that ended
normally had none.

*Never stuck, and finite.* `RunNeverStuck` is about guards, written out, since `ENABLED` is
out of reach: while nothing has failed somebody's is true. A queue that is full has
a worker that takes from it, and an empty one a worker before it that puts, a sentinel
on its way or `run_dataset` behind its last worker; which of these it is, is what
`WorkersBusy` and `SentinelsCounted` keep. Once a failure is recorded `run_dataset` looks
at it, unless it is putting sentinels, the case of finding 3 that `OnlyFailuresStop`
names. `RunIsFinite` counts what is left (`WorkLeft`): scopes not begun, open crawls,
records not yielded and items on their way, each weighted by the steps it still causes;
tasks that have not returned; the places before each batch (`Rank`); the stages of
`run_dataset` with their sentinels; stop requests. Every step lowers the sum, one that
fails included: nothing is retried inside a run, put back or passed round. The two
together are the safety half of `RunEnds`; what they leave to TLC is that a task whose
guard is true is run.

*The batches.* `LInv` says what each stage of a manifest guarantees
(`StageInv`: files, remote file, row, `SeenStore`; a failed manifest guarantees
what the stage it failed from does), what has been done before each effect
(`PlaceInv`), which batches a process may be at (`ProcessInv`), and where the
crawled records of a scope are (`CrawlInv`). `StageInv` alone is not inductive,
since a save is right only after the effect it records. Most steps concern one
batch: `BatchStep` reduces them to that batch's part. A process that ends keeps
`StageInv` because no stage promises anything that is not on disk, which is the
point of the manifests.

*Interruptions.* With checked uploads, what a manifest's stage guarantees by `LInv` is
all that recovery asks for, so none of its calls raises: `InterruptionNeverFails` is
inductive with `LInv`. Finding 4 is the case without the check.

*No duplicates.* `OnceInv`: live batches have disjoint records, where a batch
without a manifest dies with its process; in a run, the records of a batch at
work count as crawled for their scope, and a pending manifest that was given up
keeps its scopes out of the plan. The last part is what startup recovery, its
decision to block and the planner establish together.

*The promise.* For a run, a candidate never loses a mark of its stored
checkpoint (`CandidateAhead`), and `CheckpointSafety` does the rest; for the
crawl, `NothingTakenBack` and `LInv`.

*The warehouse.* `NoRowLost` is not inductive: a file may lose its place to a
replacement that another compaction has just superseded. `HasSuccessor` says that
whatever left the active set has a later, uploaded file of its partition with all
its records in this version or a newer one; since files are numbered, the last
uploaded file that covers a row is active (`GreatestExists`), and that is the
reader's. It needs `OutInv`: a replacement covers what is left of its plan, is
younger than it, and is uploaded before the first source goes; and `OwnOut`: it is
nobody else's. For `KeepsNewest`, `SameNewest` says that two sets of rows that cover
each other have the same newest rows.

*The history scripts.* `HistoryInv`: every row there is, in a file, in a script's memory
or in its output, is no newer than a row of an active file (`RowsCovered`), and a hash no
newer than a row of some file (`HashHasRow`); what a script wrote or published is whole
and no older than the old files (`OutputAsWritten`, `FilesAsMade`). `SeenIsActive` alone
is not inductive, because the files are retired by a later script than the one that
wrote their successors, and a crawl may store between them. The step that counts is
`CommitRetirement`: the new files' ids and sum of rows make them a file of every
partition (`CountsTellApart`), hence a row of every post, which is no older than the old.

*The sequential runtime.* `SInv`: every hash in SeenStore is that of a version that is
stored (`SeenIn`), since only a processed batch and recovery write hashes, after they
have stored; the candidate holds stored and tracked versions only (`SCandidate`); what
is saved is stored (`SCovered`); and behind the barrier all that is tracked is
(`SPassed`), because `IsDurable` compares hashes. `ScopesLeft` keeps the scope in hand
out of the finished ones. For what the barrier refuses, `RInv`: each tracked row waits
in a buffer or is stored, and SeenStore has it unless another version of the scope came
later; batches of different partitions share no record, so their order is immaterial.

*The queries.* `QInv`: what has been answered is the wanted rows of the files read or
left out, as many as the limit allows; rows of a file lie in its date and bucket. The
rest is the calendar: a date of a time zone and a partition date are monotone in the
instant, so a file that is not listed has no wanted row.

*The stages of a platform.* `PlatformInv`: what an owner wants and holds is a suffix and
the prefix before it of its kind's order (`SlotsInOrder`), and no stage has more owners
than slots. A circle of waiting needs two owners that take two stages in opposite order;
whoever waits for the last stage in the order waits for one that wants nothing more
(`SomeoneGoesOn`). Whoever does not wait for a slot works without one, so until every
site has answered somebody goes on (`PlatformKeepsMoving`).

*The bounded pipeline.* `PipelineInv`, as long as nothing raised: each item is in one
place (`EachOnce`, `NoneTwice`); a stage's counter is the number of its workers that met
a marker (`EndsCounted`); the markers of a stage are put when nothing is left before it
and stay behind its items (`EndsLast`). A return finds all workers gone, so the only places
left are the results and the items whose handler had none. Without `EndsLast` a worker
could leave before an item of another worker of the stage before it is put.
`MarkedInv` adds that as many markers were put for a stage as it has workers once the
stage before is over (`MarkersCounted`), also after handlers or the source raised: a worker
that waits gets an item, a marker, or the failure of what is before it, so the pipeline is never stuck.

*What is left, place by place.* The steps of a pipeline and of a platform run are counted at
places: the source, each queue, each worker's hand, each site, each owner of slots.
`UnitsOf` makes a set of them, and `LoadMoves` says of any finite set of places that a
step which takes more from one place than it brings to another lowers the total. An item
weighs more the more stages it has before it (`PutSteps`), a site more than the slots it
may still ask for (`SiteSteps`). So a loop that hands items or slots round for ever is
excluded, whoever fails.

*The HTTP requests.* `HttpInv`: a slot is held by at most `max_concurrency` requests from
the first attempt to the last, the waits between included, and the attempt of a
request agrees with its place. `RoundRobinFinds` shows that the turn always finds a
proxy when one is at rest, so no attempt is stuck there, and a request that waits has
a holder of a slot that goes on, or a delay that the clock shortens
(`RequestsKeepMoving`). `LimiterHonest`: nothing is delayed while nothing has failed, after a
failure by the first delay at least, or by the cap; the circuit is open only at the
failure threshold and for no longer than the delay.

*The versions.* `NeverAhead`: nothing read, batched or stored is newer than what was
shown, because recovery writes the version of its batch and never another. What is
settled has nothing older on its way, and an older version can then not come back.

*The browsers.* `BInv`: a worker is in one place, in the queue or with one lease
(`BOnce`), and is without its context only while it is restarted (`BUp`). A lease that
waits for a slot waits for one that has it, and this one for no slot: what it waits
for, a worker, is free or with a lease that goes on (`LeasesKeepMoving`); the exceptions
are the two of `EveryOperationEnds`.

*Side by side.* A step of `MCKept` or `MCEnds` is a step of one part and leaves the
variables of the others alone, so each part sees its own specification, a stutter
included; the proofs use no fairness, so what is said of a part holds of the whole.

*The command line.* `CommandInv`: the sweep has crawled the list up to its offset, and a
command at each stage has its slice in hand. `Deduplicated` yields a list without
repeats, its slices are disjoint, and none before its end is empty.

*The watermark.* Between two calls, current and the gaps behind it determine the set of
completed sequences, and no gap is the next one.

*The HKEX reports.* `HInv` follows a release through a run. The day a search may date from
(`Limit`) has come (`HDays`): it is the day asked up to, or that of the process where a
last day was typed. A search that is under way has found each report of its request
released before that day, or has its type still to ask (`HSearch`); the cache (`HCache`)
and what the datasets keep (`HKept`) then miss none, each for its own request. A dataset
is left out only for an equal request, types and both days, so what its stored one has
is what was asked.

*The Toss lists.* `TInv`: while a list is open what was seen is shown, and rounds in
which nothing appeared although there is more are rounds the page was loading (`TBottom`);
so a bottom that was reached is the end of the list, or the page has loaded for
`stable_bottom_rounds`, and what was to be opened is what is
new and what the last crawl handed on (`THandedOver`).

*The Kabutan months.* `MInv`: the crawl of a month has all free articles from the newest
of its first page down to the page before this one (`MCrawl`), a checkpoint down to its
page (`MKept`), although arrivals push articles to later pages, and unless a page came
without its list; a cached first page is
page one of an earlier time (`MCache`). For `free_full`, what is left to discover is older
than what is begun (`MOrder`), and a month with free articles is ahead, in hand or
accepted (`MFull`).

*The Naver pages.* Arrivals push posts down, which a walk meets twice; a post that
vanishes pulls one to a page the walk has passed. `NaverInv`: behind the crawl are no
more unmet posts than vanished (`Covered`, `Behind`); a post that was met, and the first
post of a page that was met, is not further down than the pages walked and the
arrivals (`PlacesMet`), so with fewer arrivals than fill a page neither a repeated page
nor a page of known ids is met before the end. Numbers grow (`BoardsGrow`,
`MetAreOld`), so an arrival is never taken for a post that was met. Pages that are
asked for again at the end are those of `Shown`; the arithmetic of pages is in
`PageEdges`, `SliceIs`, `BeforeNext` and `ShownFacts`.

*A walk ends.* `WalkLeft` bounds the steps of a walk by the pages it may yet begin
(`PagesToGo`), each with its items, in the categories to go. What makes a page count
differs with the walk: a list of a report page it has not been shown, of which there are
finitely many (`PageListsAreFinite`), and between two such no more empty pages than stop
it; the page limit; where nothing follows the last page, the posts there can be
(`PagesEnd`); for news fetched incrementally, a post it does not know, and between two
such no more pages without one than stop it. `WalkGoesDown`: every step of the walk makes
it smaller, and an arrival or a deletion leaves it as it is, so a walk outruns any
changes of the site. Excepted is a walk without a limit, a signature and a known id over
a board that repeats its last page (`EndGoesUnnoticed`): of that one `WalkGoesRound`
says that no step of its own is its last, as long as there is a post.

Every invariant and every action property of the passing runs is stated by a theorem.
Only model-checked are the liveness properties: `RunEnds`, `EveryScopeCloses`,
`EveryManifestSettles`, `EveryScopeSettles`, `Converges`, `EverySiteAnswers`,
`PipelineEnds`, `SeenSettles`, `EveryOperationEnds`, `RequestsAnswered` and
`BoardCrawlEnds`. Liveness is out of the prover's reach, as is anything about `ENABLED` or
by induction over data; the theorems that a part is never stuck and takes finitely many
steps, and those on the versions, are the halves of them that can be proved.

## What is not modelled

- Normalizers and parsers: they turn a page into fields; the models take what comes
  out, a record and its version.
- Comment threads of forum posts, the instruments a Toss article names, the Toss
  screener: lists without a state that a later run reads.
- `storage/retention.py` and the attachment files: a file that is due for deletion is
  data of the catalog, and attachments are written once.
- Audit, scale and rollout scripts, progress and its renderers: they report, and no
  other part reads what they count.
- The legacy runtime's manifests without an index, dry runs, `reclassify_failed`: no
  command calls them, or they change nothing.
- The SQL of the schema and its migrations, the YAML of plans and profiles, most
  options of `app_factory.py`: wiring without steps. Transactions of PostgreSQL are
  taken as atomic, a rename within a directory as well.
- Connections: pools, timeouts of rsync and SSH; they are failures of the step they
  happen in.

`PROJECT.json` lists each of these with its files.
