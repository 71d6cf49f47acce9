--------------------------- MODULE ConcurrentRuntime ---------------------------
(***************************************************************************)
(* ConcurrentProductionRuntime.run_dataset: scope discovery, crawl         *)
(* workers, writer workers behind one FIFO lock, upload workers, catalog   *)
(* workers, the three bounded queues between them, the per-scope batch     *)
(* accounting that decides when a checkpoint is saved, the sentinels that  *)
(* drain the stages one after the other, worker failures, and the          *)
(* two-stage shutdown.  One run of one dataset is modelled; it starts from *)
(* whatever earlier runs left durable, and it may stop after any step,     *)
(* which is a crash.                                                       *)
(*                                                                         *)
(* A batch gets its number when its partition buffer is created: one       *)
(* function, stage, says where every batch is, the queues hold numbers,    *)
(* and the order of the numbers is that of the buffer's dictionary.  A     *)
(* checkpoint is the set of marks the plugin has put in it: the records it *)
(* covers, and Complete once checkpoint_after_scope ran.                   *)
(***************************************************************************)
EXTENDS Naturals, Sequences, FiniteSets, SequencesExt

CONSTANTS
  Scopes,            \* the crawl scopes the plugin can discover
  Records,           \* the canonical records (one version each)
  ScopeRecords,      \* the records each scope's crawl may yield
  PartitionOf,       \* the storage partition of each record
  PriorRecords,      \* bound: the records earlier runs may have stored
  BatchIds,          \* bound: partition buffers created in one run, numbered as they are
  Crawlers,          \* crawl workers
  WriterCount,       \* number of writer workers
  Uploaders,         \* upload workers
  Catalogers,        \* catalog workers
  RecordQueueSize,
  UploadQueueSize,
  CatalogQueueSize,
  FlushScopeOnDone,  \* flush_scope_on_scope_done; FALSE with --coalesce-scope-flushes
  CoalesceCount,     \* coalesce_flush_scope_count
  Faults,            \* the places where an exception may be raised
  MaxStops,          \* bound: shutdown requests (the first stops, the second aborts)
  Complete,          \* the mark checkpoint_after_scope adds to a checkpoint
  None               \* nobody, nothing

FaultPlaces == {"discover", "crawl", "writer", "hook", "upload", "catalog"}

ASSUME SizeAssumption ==
  /\ WriterCount \in Nat \ {0}
  /\ RecordQueueSize \in Nat \ {0}
  /\ UploadQueueSize \in Nat \ {0}
  /\ CatalogQueueSize \in Nat \ {0}
  /\ CoalesceCount \in Nat \ {0}
  /\ MaxStops \in 0..2

\* ConcurrentProductionRuntime.__init__ raises every number of workers to one.
ASSUME WorkerAssumption ==
  /\ IsFiniteSet(Uploaders) /\ IsFiniteSet(Catalogers)
  /\ Uploaders # {} /\ Catalogers # {}

ASSUME DataAssumption ==
  /\ ScopeRecords \in [Scopes -> SUBSET Records]
  /\ PriorRecords \subseteq Records
  /\ Complete \notin Records
  /\ None \notin Scopes \cup BatchIds
  /\ IsFiniteSet(BatchIds) /\ BatchIds \subseteq Nat
  /\ FlushScopeOnDone \in BOOLEAN
  /\ Faults \subseteq FaultPlaces

VARIABLES
  main,          \* where the run_dataset coroutine is
  failureEvent,  \* failure_event
  stops,         \* ShutdownController._requests, capped by MaxStops
  discovery,     \* the discover task
  scopeQueue,    \* scope_queue, without its sentinels
  crawlersUp,    \* crawl workers that have not returned
  crawling,      \* the scope each crawl worker is in
  offer,         \* the item each crawl worker is putting in record_queue
  crawled,       \* the records each scope's crawl has yielded (raw_count)
  exhausted,     \* scopes whose crawl ended by itself
  recordQueue,
  holding,       \* items taken by writers, in the order they wait for writer_lock
  running,       \* what a writer that has not suspended is about to do
  writersUp,     \* number of writer workers that have not returned
  putting,       \* the batch being put in upload_queue by the lock's holder or by main
  sinceFlush,    \* coalesced_scopes_since_flush
  stage,         \* where each batch is
  recs,          \* its records
  owners,        \* its scope_tokens
  uploadQueue,
  uploadersUp,
  uploading,     \* the batch each upload worker works on
  catalogQueue,
  catalogersUp,
  cataloging,    \* the batch each catalog worker works on
  pills,         \* sentinels in the queue of the stage main is draining
  sent,          \* sentinels main has put in that queue
  pendingBatches,\* _ScopeState.pending_batches
  crawlDone,     \* scopes with _ScopeState.crawl_done
  skipped,       \* records normalize_and_validate rejected
  candidate,     \* _ScopeState.candidate_checkpoint
  closed,        \* scopes with _ScopeState.result
  checkpoint,    \* what the CheckpointStore holds
  durable        \* records in a verified, cataloged file and committed to SeenStore

mainVars == <<main, failureEvent, stops, pills, sent>>
crawlVars == <<discovery, scopeQueue, crawlersUp, crawling, offer, crawled, exhausted>>
writerVars == <<holding, running, writersUp, putting, sinceFlush>>
batchVars == <<stage, recs, owners>>
uploadVars == <<uploadersUp, uploading>>
catalogVars == <<catalogersUp, cataloging>>
scopeVars == <<pendingBatches, crawlDone, skipped, candidate, closed, checkpoint>>
storeVars == <<batchVars, uploadQueue, uploadVars, catalogQueue, catalogVars, durable>>
vars == <<mainVars, crawlVars, recordQueue, writerVars, storeVars, scopeVars>>

RecordItem(s, r) == [kind |-> "record", scope |-> s, rec |-> r]
FlushItem(s, ok) == [kind |-> "flush", scope |-> s, checkpointScope |-> ok]

Items == [kind : {"record"}, scope : Scopes, rec : Records]
           \cup [kind : {"flush"}, scope : Scopes, checkpointScope : BOOLEAN]

ASSUME ItemAssumption == None \notin Items

Stages == {"free", "buffered", "popped", "held", "uploadQueue", "uploading", "uploaded",
           "catalogQueue", "cataloging", "committed", "done", "lost", "dropped"}

MainStages == {"crawling", "writerPills", "writing", "flushing", "uploadPills",
               "uploading", "catalogPills", "cataloging", "done", "raised", "aborted"}

Marks == Records \cup {Complete}

StopRequested == stops > 0
AbortRequested == stops > 1
Ended == main \in {"done", "raised", "aborted"}

Init ==
  /\ main = "crawling" /\ failureEvent = FALSE /\ stops = 0 /\ pills = 0 /\ sent = 0
  /\ discovery = "running" /\ scopeQueue = {} /\ crawlersUp = Crawlers
  /\ crawling = [c \in Crawlers |-> None] /\ offer = [c \in Crawlers |-> None]
  /\ crawled = [s \in Scopes |-> {}] /\ exhausted = {}
  /\ recordQueue = <<>> /\ holding = <<>> /\ running = "none" /\ writersUp = WriterCount
  /\ putting = None /\ sinceFlush = 0
  /\ stage = [b \in BatchIds |-> "free"]
  /\ recs = [b \in BatchIds |-> {}] /\ owners = [b \in BatchIds |-> {}]
  /\ uploadQueue = <<>> /\ uploadersUp = Uploaders
  /\ uploading = [u \in Uploaders |-> None]
  /\ catalogQueue = <<>> /\ catalogersUp = Catalogers
  /\ cataloging = [k \in Catalogers |-> None]
  /\ pendingBatches = [s \in Scopes |-> 0] /\ crawlDone = {}
  /\ skipped = [s \in Scopes |-> {}] /\ closed = {}
  /\ durable \in SUBSET PriorRecords
  /\ checkpoint \in [Scopes -> SUBSET durable]
  /\ candidate = checkpoint

-----------------------------------------------------------------------------
(* Discovery and crawl workers.                                            *)

(* discover: every scope is read before any is queued; the resume plan     *)
(* drops the scopes that are durable-complete or left to recovery.         *)
Discover(plan) ==
  /\ discovery = "running"
  /\ discovery' = "done"
  /\ scopeQueue' = IF failureEvent \/ StopRequested THEN {} ELSE plan
  /\ UNCHANGED <<mainVars, crawlersUp, crawling, offer, crawled, exhausted, recordQueue,
                 writerVars, storeVars, scopeVars>>

(* plugin.discover raises: an interruption when a stop was requested,      *)
(* otherwise the task fails and only main's gather sees it.                *)
DiscoverRaises ==
  /\ "discover" \in Faults
  /\ discovery = "running"
  /\ discovery' = IF StopRequested THEN "done" ELSE "failed"
  /\ UNCHANGED <<mainVars, scopeQueue, crawlersUp, crawling, offer, crawled, exhausted,
                 recordQueue, writerVars, storeVars, scopeVars>>

Idle(c) == c \in crawlersUp /\ crawling[c] = None
InCrawl(c) == c \in crawlersUp /\ crawling[c] # None /\ offer[c] = None

BeginScope(c, s) ==
  /\ Idle(c) /\ s \in scopeQueue
  /\ ~failureEvent /\ ~StopRequested
  /\ scopeQueue' = scopeQueue \ {s}
  /\ crawling' = [crawling EXCEPT ![c] = s]
  /\ candidate' = [candidate EXCEPT ![s] = checkpoint[s]]
  /\ UNCHANGED <<mainVars, discovery, crawlersUp, offer, crawled, exhausted, recordQueue,
                 writerVars, storeVars, pendingBatches, crawlDone, skipped, closed, checkpoint>>

(* plugin.crawl yields one raw record and checked_put starts.              *)
CrawlRecord(c, r) ==
  /\ InCrawl(c)
  /\ ~failureEvent /\ ~StopRequested
  /\ r \in ScopeRecords[crawling[c]] \ crawled[crawling[c]]
  /\ crawled' = [crawled EXCEPT ![crawling[c]] = @ \cup {r}]
  /\ offer' = [offer EXCEPT ![c] = RecordItem(crawling[c], r)]
  /\ UNCHANGED <<mainVars, discovery, scopeQueue, crawlersUp, crawling, exhausted,
                 recordQueue, writerVars, storeVars, scopeVars>>

(* The crawl ends, or is cut by a stop request; either way a flush item    *)
(* follows the scope's records.                                            *)
EndScope(c) ==
  /\ InCrawl(c)
  /\ ~failureEvent
  /\ offer' = [offer EXCEPT ![c] = FlushItem(crawling[c], ~StopRequested)]
  /\ exhausted' = IF StopRequested THEN exhausted ELSE exhausted \cup {crawling[c]}
  /\ UNCHANGED <<mainVars, discovery, scopeQueue, crawlersUp, crawling, crawled,
                 recordQueue, writerVars, storeVars, scopeVars>>

PutItem(c) ==
  /\ c \in crawlersUp /\ offer[c] # None
  /\ Len(recordQueue) < RecordQueueSize
  /\ recordQueue' = Append(recordQueue, offer[c])
  /\ crawling' = IF offer[c].kind = "flush" THEN [crawling EXCEPT ![c] = None] ELSE crawling
  /\ offer' = [offer EXCEPT ![c] = None]
  /\ UNCHANGED <<mainVars, discovery, scopeQueue, crawlersUp, crawled, exhausted,
                 writerVars, storeVars, scopeVars>>

(* A crawl worker returns: at its sentinel, or between two scopes or two   *)
(* records once failure_event is set, or before a scope once a stop was    *)
(* requested (that scope is taken from the queue and left uncrawled).      *)
CrawlerReturns(c) ==
  /\ \/ Idle(c) /\ discovery # "running" /\ scopeQueue = {} /\ UNCHANGED scopeQueue
     \/ /\ Idle(c) /\ (failureEvent \/ StopRequested)
        /\ \E s \in scopeQueue : scopeQueue' = scopeQueue \ {s}
     \/ InCrawl(c) /\ failureEvent /\ UNCHANGED scopeQueue
  /\ crawlersUp' = crawlersUp \ {c}
  /\ UNCHANGED <<mainVars, discovery, crawling, offer, crawled, exhausted, recordQueue,
                 writerVars, storeVars, scopeVars>>

(* plugin.crawl raises: transport teardown during shutdown is no failure.  *)
CrawlRaises(c) ==
  /\ "crawl" \in Faults
  /\ InCrawl(c)
  /\ crawlersUp' = crawlersUp \ {c}
  /\ failureEvent' = (failureEvent \/ ~StopRequested)
  /\ UNCHANGED <<main, stops, pills, sent, discovery, scopeQueue, crawling, offer, crawled,
                 exhausted, recordQueue, writerVars, storeVars, scopeVars>>

-----------------------------------------------------------------------------
(* Scope completion and batch accounting.                                  *)

(* StagedBuffer.has_scope, after the step.                                 *)
HasScope(s) == \E b \in BatchIds : stage'[b] = "buffered" /\ s \in owners'[b]

(* Mutation: the candidate is saved without waiting for pending batches.   *)
CompleteTooSoon(S) ==
  LET ready == {s \in S \ closed : s \in crawlDone' /\ ~HasScope(s)}
  IN  /\ closed' = closed \cup ready
      /\ checkpoint' = [s \in Scopes |-> IF s \in ready THEN candidate'[s] ELSE checkpoint[s]]

(* _complete_scope_if_ready for each scope of S: the candidate checkpoint  *)
(* is saved once the crawl is done, no batch of the scope is pending and   *)
(* the buffer holds none of its records.                                   *)
CompleteIfReady(S) ==
  LET ready == {s \in S \ closed : /\ s \in crawlDone'
                                   /\ pendingBatches'[s] = 0
                                   /\ ~HasScope(s)}
  IN  /\ closed' = closed \cup ready
      /\ checkpoint' = [s \in Scopes |-> IF s \in ready THEN candidate'[s] ELSE checkpoint[s]]

(* Mutation: two batches of a loop count as one.                           *)
TrackOnce(N) ==
  pendingBatches' = [s \in Scopes |->
                       pendingBatches[s] + IF \E b \in N : s \in owners'[b] THEN 1 ELSE 0]

(* _track_batch, for the batches of N.                                     *)
TrackBatches(N) ==
  pendingBatches' = [s \in Scopes |->
                       pendingBatches[s] + Cardinality({b \in N : s \in owners'[b]})]

(* The loop over popped batches, from one await that blocks to the next:   *)
(* each batch is tracked just before its checked_put; the puts go through  *)
(* until upload_queue, which holds base, is full, and the loop waits with  *)
(* one tracked batch in hand.  checked_put raises at the first batch once  *)
(* failure_event is set, and the batches behind it are never tracked.      *)
RoomAfter(base) == IF failureEvent THEN 0 ELSE UploadQueueSize - Len(base)

(* flush_scope and flush_all pop the partitions, and the loop puts them, in *)
(* the insertion order of the buffer's dictionary.                         *)
InsertionOrder(order) ==
  \A i, j \in 1..Len(order) : i < j => order[i] < order[j]

OfferBatches(B, base, st) ==
  \E order \in SetToSeqs(B) :
    LET n    == IF Len(order) <= RoomAfter(base) THEN Len(order) ELSE RoomAfter(base)
        put  == {order[i] : i \in 1..n}
        next == IF n = Len(order) THEN {} ELSE {order[n + 1]}
    IN  /\ InsertionOrder(order)
        /\ uploadQueue' = base \o SubSeq(order, 1, n)
        /\ TrackBatches(put \cup next)
        /\ putting' = IF next = {} \/ failureEvent THEN None ELSE order[n + 1]
        /\ stage' = [x \in BatchIds |->
             IF x \in put THEN "uploadQueue"
             ELSE IF x \in next THEN (IF failureEvent THEN "lost" ELSE "held")
             ELSE IF x \in B THEN (IF failureEvent THEN "dropped" ELSE "popped")
             ELSE st[x]]

-----------------------------------------------------------------------------
(* Writer workers.  The head of holding owns writer_lock, or has been      *)
(* woken for it.  asyncio suspends a writer only where it waits: for an    *)
(* item, for the lock, in a put.  A writer that finds the lock free goes   *)
(* from record_queue.get to the end of its item, or to a put that blocks,  *)
(* and on to the next item if there is one, without a step of another      *)
(* task; a writer that waited for the lock does not look at failure_event  *)
(* again.                                                                  *)

IdleWriter == Len(holding) < writersUp

(* Mutation: a lock that lets the last writer in first.                    *)
BargingWriterGet ==
  /\ IdleWriter /\ recordQueue # <<>>
  /\ recordQueue' = Tail(recordQueue)
  /\ holding' = IF putting = None THEN <<Head(recordQueue)>> \o holding
                ELSE Append(holding, Head(recordQueue))
  /\ running' = IF holding = <<>> THEN "item" ELSE "none"
  /\ UNCHANGED <<mainVars, crawlVars, writersUp, putting, sinceFlush, storeVars, scopeVars>>

WriterGet ==
  /\ IdleWriter /\ recordQueue # <<>>
  /\ recordQueue' = Tail(recordQueue)
  /\ IF failureEvent
     THEN writersUp' = writersUp - 1 /\ running' = "none" /\ UNCHANGED holding
     ELSE /\ holding' = Append(holding, Head(recordQueue))
          /\ running' = IF holding = <<>> THEN "item" ELSE "none"
          /\ UNCHANGED writersUp
  /\ UNCHANGED <<mainVars, crawlVars, putting, sinceFlush, storeVars, scopeVars>>

WriterSentinel ==
  /\ IdleWriter /\ recordQueue = <<>>
  /\ main \in {"writerPills", "writing"} /\ pills > 0
  /\ pills' = pills - 1
  /\ writersUp' = writersUp - 1
  /\ UNCHANGED <<main, failureEvent, stops, sent, crawlVars, recordQueue, holding, running,
                 putting, sinceFlush, storeVars, scopeVars>>

LockHolder(kind) == holding # <<>> /\ putting = None /\ Head(holding).kind = kind

(* The lock's holder is done with its item.  It takes the next one, or     *)
(* waits for one; if it raised, record_worker_error suspends nowhere.      *)
Release(raised) ==
  /\ holding' = Tail(holding)
  /\ running' = IF raised \/ recordQueue = <<>> THEN "none" ELSE "taking"
  /\ writersUp' = IF raised THEN writersUp - 1 ELSE writersUp

(* After the loop over the batches of B: the holder waits with one in      *)
(* hand, or checked_put raised, or the lock is released and the scope of a *)
(* flush item is looked at.                                                *)
AfterOffer(B) ==
  IF putting' # None
  THEN running' = "none" /\ UNCHANGED <<holding, writersUp, closed, checkpoint>>
  ELSE LET raised == failureEvent /\ B # {} IN
       /\ Release(raised)
       /\ CompleteIfReady(IF Head(holding).kind = "flush" /\ ~raised
                          THEN {Head(holding).scope} ELSE {})

(* normalize_and_validate returns None.                                    *)
SkipRecord ==
  /\ LockHolder("record")
  /\ LET item == Head(holding) IN
     skipped' = [skipped EXCEPT ![item.scope] = @ \cup {item.rec}]
  /\ Release(FALSE)
  /\ UNCHANGED <<mainVars, crawlVars, recordQueue, putting, sinceFlush, storeVars,
                 pendingBatches, crawlDone, candidate, closed, checkpoint>>

(* SeenStore.inspect says "unchanged": nothing is buffered, but the cursor *)
(* still moves past the record.                                            *)
UnchangedRecord ==
  /\ LockHolder("record")
  /\ Head(holding).rec \in durable
  /\ LET item == Head(holding) IN
     candidate' = [candidate EXCEPT ![item.scope] = @ \cup {item.rec}]
  /\ Release(FALSE)
  /\ UNCHANGED <<mainVars, crawlVars, recordQueue, putting, sinceFlush, storeVars,
                 pendingBatches, crawlDone, skipped, closed, checkpoint>>

(* The partition buffer a record goes to: the open one of its partition,   *)
(* or a new one.                                                           *)
OpenBuffer(r) == {b \in BatchIds : /\ stage[b] = "buffered"
                                   /\ \E x \in recs[b] : PartitionOf[x] = PartitionOf[r]}
Free == {b \in BatchIds : stage[b] = "free"}
NextFree == {b \in Free : \A x \in Free : b <= x}
BufferOf(r) == IF OpenBuffer(r) # {} THEN CHOOSE b \in OpenBuffer(r) : TRUE
               ELSE CHOOSE b \in NextFree : TRUE

BufferAdd(item) ==
  /\ OpenBuffer(item.rec) \cup NextFree # {}
  /\ recs' = [recs EXCEPT ![BufferOf(item.rec)] = @ \cup {item.rec}]
  /\ owners' = [owners EXCEPT ![BufferOf(item.rec)] = @ \cup {item.scope}]

(* A new or updated record is buffered; when it takes the partition over   *)
(* the configured rows or bytes, the partition is popped and offered.      *)
BufferRecord ==
  /\ LockHolder("record")
  /\ Head(holding).rec \notin durable
  /\ LET item == Head(holding) IN
     /\ BufferAdd(item)
     /\ candidate' = [candidate EXCEPT ![item.scope] = @ \cup {item.rec}]
     /\ UNCHANGED <<crawlDone, skipped>>
     /\ \E B \in {{}, {BufferOf(item.rec)}} :
          /\ OfferBatches(B, uploadQueue, [stage EXCEPT ![BufferOf(item.rec)] = "buffered"])
          /\ AfterOffer(B)
  /\ UNCHANGED <<mainVars, crawlVars, recordQueue, sinceFlush, uploadVars, catalogQueue,
                 catalogVars, durable>>

(* What the flush item of scope s pops: the partitions with the scope, or, *)
(* when flushes are coalesced, everything after every CoalesceCount items. *)
CoalesceDue == sinceFlush + 1 >= CoalesceCount
Popped(s) ==
  {b \in BatchIds : /\ stage[b] = "buffered"
                    /\ IF FlushScopeOnDone THEN s \in owners[b] ELSE CoalesceDue}

CountFlush ==
  sinceFlush' = IF FlushScopeOnDone THEN sinceFlush
                ELSE IF CoalesceDue THEN 0 ELSE sinceFlush + 1

ScopeHook(item) ==
  candidate' = IF item.checkpointScope
               THEN [candidate EXCEPT ![item.scope] = @ \cup {Complete}]
               ELSE candidate

FlushScope ==
  /\ LockHolder("flush")
  /\ LET item == Head(holding) IN
     /\ ScopeHook(item)
     /\ crawlDone' = crawlDone \cup {item.scope}
     /\ UNCHANGED <<recs, owners, skipped>>
     /\ OfferBatches(Popped(item.scope), uploadQueue, stage)
     /\ AfterOffer(Popped(item.scope))
  /\ CountFlush
  /\ UNCHANGED <<mainVars, crawlVars, recordQueue, uploadVars, catalogQueue, catalogVars,
                 durable>>

(* upload_queue has room for the batch in hand, and the loop goes on.      *)
Unsent == {b \in BatchIds : stage[b] = "popped"}

ResumePut ==
  /\ putting # None
  /\ Len(uploadQueue) < UploadQueueSize
  /\ UNCHANGED <<recs, owners, crawlDone, skipped, candidate>>
  /\ OfferBatches(Unsent, Append(uploadQueue, putting),
                  [stage EXCEPT ![putting] = "uploadQueue"])

WriterPut ==
  /\ main # "flushing"
  /\ ResumePut
  /\ AfterOffer(Unsent)
  /\ UNCHANGED <<mainVars, crawlVars, recordQueue, sinceFlush, uploadVars, catalogQueue,
                 catalogVars, durable>>

(* normalize_and_validate, submit_for_staged_runtime or a scope hook       *)
(* raises before anything is popped.                                       *)
WriterRaises ==
  /\ "writer" \in Faults
  /\ holding # <<>> /\ putting = None
  /\ failureEvent' = TRUE
  /\ Release(TRUE)
  /\ UNCHANGED <<main, stops, pills, sent, crawlVars, recordQueue, putting, sinceFlush,
                 storeVars, scopeVars>>

(* checkpoint_after_record raises after the record was buffered; a batch   *)
(* the record filled has left the buffer and was not tracked.              *)
HookRaises ==
  /\ "hook" \in Faults
  /\ LockHolder("record")
  /\ Head(holding).rec \notin durable
  /\ LET item == Head(holding) IN
     /\ BufferAdd(item)
     /\ \E full \in BOOLEAN :
          stage' = [stage EXCEPT ![BufferOf(item.rec)] = IF full THEN "dropped" ELSE "buffered"]
  /\ failureEvent' = TRUE
  /\ Release(TRUE)
  /\ UNCHANGED <<main, stops, pills, sent, crawlVars, recordQueue, putting, sinceFlush,
                 uploadQueue, uploadVars, catalogQueue, catalogVars, durable, scopeVars>>

-----------------------------------------------------------------------------
(* Upload and catalog workers.                                             *)

UploaderGet(u) ==
  /\ u \in uploadersUp /\ uploading[u] = None /\ uploadQueue # <<>>
  /\ uploadQueue' = Tail(uploadQueue)
  /\ LET b == Head(uploadQueue) IN
     IF failureEvent
     THEN /\ stage' = [stage EXCEPT ![b] = "lost"]
          /\ uploadersUp' = uploadersUp \ {u}
          /\ UNCHANGED uploading
     ELSE /\ stage' = [stage EXCEPT ![b] = "uploading"]
          /\ uploading' = [uploading EXCEPT ![u] = b]
          /\ UNCHANGED uploadersUp
  /\ UNCHANGED <<mainVars, crawlVars, recordQueue, writerVars, recs, owners, catalogQueue,
                 catalogVars, durable, scopeVars>>

UploaderSentinel(u) ==
  /\ u \in uploadersUp /\ uploading[u] = None /\ uploadQueue = <<>>
  /\ main \in {"uploadPills", "uploading"} /\ pills > 0
  /\ pills' = pills - 1
  /\ uploadersUp' = uploadersUp \ {u}
  /\ UNCHANGED <<main, failureEvent, stops, sent, crawlVars, recordQueue, writerVars,
                 batchVars, uploadQueue, uploading, catalogQueue, catalogVars, durable,
                 scopeVars>>

(* prepare_batch and upload_prepared_batch, up to checked_put.             *)
Upload(u) ==
  /\ u \in uploadersUp /\ uploading[u] # None /\ stage[uploading[u]] = "uploading"
  /\ IF failureEvent
     THEN /\ stage' = [stage EXCEPT ![uploading[u]] = "lost"]
          /\ uploading' = [uploading EXCEPT ![u] = None]
          /\ uploadersUp' = uploadersUp \ {u}
     ELSE /\ stage' = [stage EXCEPT ![uploading[u]] = "uploaded"]
          /\ UNCHANGED uploadVars
  /\ UNCHANGED <<mainVars, crawlVars, recordQueue, writerVars, recs, owners, uploadQueue,
                 catalogQueue, catalogVars, durable, scopeVars>>

UploadRaises(u) ==
  /\ "upload" \in Faults
  /\ u \in uploadersUp /\ uploading[u] # None /\ stage[uploading[u]] = "uploading"
  /\ stage' = [stage EXCEPT ![uploading[u]] = "lost"]
  /\ uploading' = [uploading EXCEPT ![u] = None]
  /\ uploadersUp' = uploadersUp \ {u}
  /\ failureEvent' = TRUE
  /\ UNCHANGED <<main, stops, pills, sent, crawlVars, recordQueue, writerVars, recs, owners,
                 uploadQueue, catalogQueue, catalogVars, durable, scopeVars>>

PutCatalogJob(u) ==
  /\ u \in uploadersUp /\ uploading[u] # None /\ stage[uploading[u]] = "uploaded"
  /\ Len(catalogQueue) < CatalogQueueSize
  /\ catalogQueue' = Append(catalogQueue, uploading[u])
  /\ stage' = [stage EXCEPT ![uploading[u]] = "catalogQueue"]
  /\ uploading' = [uploading EXCEPT ![u] = None]
  /\ UNCHANGED <<mainVars, crawlVars, recordQueue, writerVars, recs, owners, uploadQueue,
                 uploadersUp, catalogVars, durable, scopeVars>>

CatalogerGet(k) ==
  /\ k \in catalogersUp /\ cataloging[k] = None /\ catalogQueue # <<>>
  /\ catalogQueue' = Tail(catalogQueue)
  /\ LET b == Head(catalogQueue) IN
     IF failureEvent
     THEN /\ stage' = [stage EXCEPT ![b] = "lost"]
          /\ catalogersUp' = catalogersUp \ {k}
          /\ UNCHANGED cataloging
     ELSE /\ stage' = [stage EXCEPT ![b] = "cataloging"]
          /\ cataloging' = [cataloging EXCEPT ![k] = b]
          /\ UNCHANGED catalogersUp
  /\ UNCHANGED <<mainVars, crawlVars, recordQueue, writerVars, recs, owners, uploadQueue,
                 uploadVars, durable, scopeVars>>

CatalogerSentinel(k) ==
  /\ k \in catalogersUp /\ cataloging[k] = None /\ catalogQueue = <<>>
  /\ main \in {"catalogPills", "cataloging"} /\ pills > 0
  /\ pills' = pills - 1
  /\ catalogersUp' = catalogersUp \ {k}
  /\ UNCHANGED <<main, failureEvent, stops, sent, crawlVars, recordQueue, writerVars,
                 batchVars, uploadQueue, uploadVars, catalogQueue, cataloging, durable,
                 scopeVars>>

(* catalog_uploaded_batch, in its thread: verification, Catalog, SeenStore.*)
CommitBatch(k) ==
  /\ k \in catalogersUp /\ cataloging[k] # None /\ stage[cataloging[k]] = "cataloging"
  /\ stage' = [stage EXCEPT ![cataloging[k]] = "committed"]
  /\ durable' = durable \cup recs[cataloging[k]]
  /\ UNCHANGED <<mainVars, crawlVars, recordQueue, writerVars, recs, owners, uploadQueue,
                 uploadVars, catalogQueue, catalogVars, scopeVars>>

(* It raises, before or after the SeenStore commit.                        *)
CatalogRaises(k) ==
  /\ "catalog" \in Faults
  /\ k \in catalogersUp /\ cataloging[k] # None /\ stage[cataloging[k]] = "cataloging"
  /\ stage' = [stage EXCEPT ![cataloging[k]] = "lost"]
  /\ durable' \in {durable, durable \cup recs[cataloging[k]]}
  /\ cataloging' = [cataloging EXCEPT ![k] = None]
  /\ catalogersUp' = catalogersUp \ {k}
  /\ failureEvent' = TRUE
  /\ UNCHANGED <<main, stops, pills, sent, crawlVars, recordQueue, writerVars, recs, owners,
                 uploadQueue, uploadVars, catalogQueue, scopeVars>>

(* Mutation: the last batch of a scope does not look at the scope again.   *)
CompleteBatchOnly(k) ==
  /\ k \in catalogersUp /\ cataloging[k] # None /\ stage[cataloging[k]] = "committed"
  /\ stage' = [stage EXCEPT ![cataloging[k]] = "done"]
  /\ pendingBatches' = [s \in Scopes |->
                          IF s \in owners[cataloging[k]] THEN pendingBatches[s] - 1
                          ELSE pendingBatches[s]]
  /\ cataloging' = [cataloging EXCEPT ![k] = None]
  /\ UNCHANGED <<mainVars, crawlVars, recordQueue, writerVars, recs, owners, uploadQueue,
                 uploadVars, catalogQueue, catalogersUp, durable, crawlDone, skipped,
                 candidate, closed, checkpoint>>

(* _complete_batch, back on the event loop.                                *)
CompleteBatch(k) ==
  /\ k \in catalogersUp /\ cataloging[k] # None /\ stage[cataloging[k]] = "committed"
  /\ LET b == cataloging[k] IN
     /\ stage' = [stage EXCEPT ![b] = "done"]
     /\ pendingBatches' = [s \in Scopes |-> IF s \in owners[b] THEN pendingBatches[s] - 1
                                            ELSE pendingBatches[s]]
     /\ UNCHANGED <<recs, owners, crawlDone, skipped, candidate>>
     /\ CompleteIfReady(owners[b])
  /\ cataloging' = [cataloging EXCEPT ![k] = None]
  /\ UNCHANGED <<mainVars, crawlVars, recordQueue, writerVars, uploadQueue, uploadVars,
                 catalogQueue, catalogersUp, durable>>

-----------------------------------------------------------------------------
(* The main coroutine and the shutdown controller.                         *)

RequestShutdown ==
  /\ stops < MaxStops /\ ~Ended
  /\ stops' = stops + 1
  /\ UNCHANGED <<main, failureEvent, pills, sent, crawlVars, recordQueue, writerVars,
                 storeVars, scopeVars>>

(* fail_fast_tasks returns: the stage's workers are all gone, no worker    *)
(* failed and no abort was requested.                                      *)
StageOver(stageName, workersGone) ==
  main = stageName /\ workersGone /\ ~failureEvent /\ ~AbortRequested

CrawlOver ==
  /\ StageOver("crawling", crawlersUp = {} /\ discovery = "done")
  /\ main' = "writerPills" /\ sent' = 0
  /\ UNCHANGED <<failureEvent, stops, pills, crawlVars, recordQueue, writerVars, storeVars,
                 scopeVars>>

(* Mutation: one sentinel for all the writers.                             *)
PutOneSentinel ==
  /\ \/ /\ main = "writerPills" /\ Len(recordQueue) + pills < RecordQueueSize
        /\ main' = "writing"
     \/ /\ main = "uploadPills" /\ Len(uploadQueue) + pills < UploadQueueSize
        /\ main' = IF sent + 1 = Cardinality(Uploaders) THEN "uploading" ELSE main
     \/ /\ main = "catalogPills" /\ Len(catalogQueue) + pills < CatalogQueueSize
        /\ main' = IF sent + 1 = Cardinality(Catalogers) THEN "cataloging" ELSE main
  /\ pills' = pills + 1
  /\ sent' = sent + 1
  /\ UNCHANGED <<failureEvent, stops, crawlVars, recordQueue, writerVars, storeVars, scopeVars>>

(* queue.put(sentinel) blocks while the queue is full, and looks neither   *)
(* at failure_event nor at the shutdown controller.                        *)
PutSentinel ==
  /\ \/ /\ main = "writerPills" /\ Len(recordQueue) + pills < RecordQueueSize
        /\ main' = IF sent + 1 = WriterCount THEN "writing" ELSE main
     \/ /\ main = "uploadPills" /\ Len(uploadQueue) + pills < UploadQueueSize
        /\ main' = IF sent + 1 = Cardinality(Uploaders) THEN "uploading" ELSE main
     \/ /\ main = "catalogPills" /\ Len(catalogQueue) + pills < CatalogQueueSize
        /\ main' = IF sent + 1 = Cardinality(Catalogers) THEN "cataloging" ELSE main
  /\ pills' = pills + 1
  /\ sent' = sent + 1
  /\ UNCHANGED <<failureEvent, stops, crawlVars, recordQueue, writerVars, storeVars, scopeVars>>

(* Mutation: the runtime forgets flush_all.                                *)
NothingLeft == {}

Leftover == {b \in BatchIds : stage[b] = "buffered"}

(* After the loop over the batches of flush_all.                           *)
MainAfterOffer ==
  IF putting' # None THEN main' = "flushing" /\ UNCHANGED sent
  ELSE main' = "uploadPills" /\ sent' = 0

(* The writers are gone.  flush_all pops every partition at once; the      *)
(* batches are tracked one by one, each just before it is put.             *)
FlushAll ==
  /\ StageOver("writing", writersUp = 0)
  /\ UNCHANGED <<recs, owners>>
  /\ OfferBatches(Leftover, uploadQueue, stage)
  /\ MainAfterOffer
  /\ UNCHANGED <<failureEvent, stops, pills, crawlVars, recordQueue, holding, running,
                 writersUp, sinceFlush, uploadVars, catalogQueue, catalogVars, durable,
                 crawlDone, skipped, candidate, closed, checkpoint>>

MainPut ==
  /\ main = "flushing"
  /\ ~(failureEvent /\ Unsent # {})
  /\ ResumePut
  /\ MainAfterOffer
  /\ UNCHANGED <<failureEvent, stops, pills, crawlVars, recordQueue, holding, running,
                 writersUp, sinceFlush, uploadVars, catalogQueue, catalogVars, durable,
                 closed, checkpoint>>

UploadOver ==
  /\ StageOver("uploading", uploadersUp = {})
  /\ main' = "catalogPills" /\ sent' = 0
  /\ UNCHANGED <<failureEvent, stops, pills, crawlVars, recordQueue, writerVars, storeVars,
                 scopeVars>>

CatalogOver ==
  /\ StageOver("cataloging", catalogersUp = {})
  /\ main' = "done"
  /\ UNCHANGED <<failureEvent, stops, pills, sent, crawlVars, recordQueue, writerVars,
                 storeVars, scopeVars>>

CancelTasks ==
  /\ crawlersUp' = {} /\ writersUp' = 0 /\ uploadersUp' = {} /\ catalogersUp' = {}
  /\ holding' = <<>> /\ running' = "none"
  /\ UNCHANGED <<failureEvent, stops, pills, sent, discovery, scopeQueue, crawling, offer,
                 crawled, exhausted, recordQueue, sinceFlush, recs, owners, uploading,
                 catalogQueue, cataloging, durable, crawlDone, skipped, candidate, closed,
                 checkpoint>>

(* fail_fast_tasks sees a failure or an abort: every task is cancelled.    *)
FailFast ==
  /\ main \in {"crawling", "writing", "uploading", "cataloging"}
  /\ \/ main = "crawling" /\ discovery = "failed" /\ main' = "raised"
     \/ failureEvent /\ main' = "raised"
     \/ AbortRequested /\ main' = "aborted"
  /\ putting' = None
  /\ CancelTasks
  /\ UNCHANGED <<stage, uploadQueue, pendingBatches>>

(* main's own checked_put raises between two batches of flush_all.         *)
MainPutRaises ==
  /\ main = "flushing" /\ failureEvent /\ Unsent # {}
  /\ ResumePut
  /\ main' = "raised"
  /\ CancelTasks

(* Cancelling a catalog worker does not stop its thread.                   *)
OrphanCommit(k) ==
  /\ main \in {"raised", "aborted"}
  /\ cataloging[k] # None /\ stage[cataloging[k]] = "cataloging"
  /\ stage' = [stage EXCEPT ![cataloging[k]] = "lost"]
  /\ durable' = durable \cup recs[cataloging[k]]
  /\ UNCHANGED <<mainVars, crawlVars, recordQueue, writerVars, recs, owners, uploadQueue,
                 uploadVars, catalogQueue, catalogVars, scopeVars>>

(* run's finally clause: what is still buffered is stored after all, and   *)
(* no checkpoint is saved for it.                                          *)
FinalFlush(b) ==
  /\ main \in {"done", "raised"} /\ ~AbortRequested
  /\ stage[b] = "buffered"
  /\ stage' = [stage EXCEPT ![b] = "done"]
  /\ durable' = durable \cup recs[b]
  /\ UNCHANGED <<mainVars, crawlVars, recordQueue, writerVars, recs, owners, uploadQueue,
                 uploadVars, catalogQueue, catalogVars, scopeVars>>

Crawl(c) ==
  \/ \E s \in Scopes : BeginScope(c, s)
  \/ \E r \in Records : CrawlRecord(c, r)
  \/ EndScope(c) \/ PutItem(c) \/ CrawlerReturns(c)

HoldLock ==
  SkipRecord \/ UnchangedRecord \/ BufferRecord \/ FlushScope \/ WriterPut

UploadWorker(u) == UploaderGet(u) \/ UploaderSentinel(u) \/ Upload(u) \/ PutCatalogJob(u)

CatalogWorker(k) ==
  CatalogerGet(k) \/ CatalogerSentinel(k) \/ CommitBatch(k) \/ CompleteBatch(k)

Main ==
  \/ CrawlOver \/ PutSentinel \/ FlushAll \/ MainPut \/ UploadOver \/ CatalogOver
  \/ FailFast \/ MainPutRaises

(* Exceptions, signals and what may follow the end: nothing forces them.   *)
HolderRaises == WriterRaises \/ HookRaises

Unforced ==
  \/ DiscoverRaises \/ RequestShutdown
  \/ \E c \in Crawlers : CrawlRaises(c)
  \/ \E u \in Uploaders : UploadRaises(u)
  \/ \E k \in Catalogers : CatalogRaises(k) \/ OrphanCommit(k)
  \/ \E b \in BatchIds : FinalFlush(b)

Resumable == {s \in Scopes : Complete \notin checkpoint[s]}

(* The steps of a task that was suspended.                                 *)
Resumed ==
  \/ \E plan \in SUBSET Resumable : Discover(plan)
  \/ \E c \in Crawlers : Crawl(c)
  \/ WriterGet \/ WriterSentinel
  \/ \E u \in Uploaders : UploadWorker(u)
  \/ \E k \in Catalogers : CatalogWorker(k)
  \/ Main \/ Unforced

(* What a thread commits: it runs beside the event loop.                   *)
ThreadCommits == \E k \in Catalogers : CommitBatch(k) \/ OrphanCommit(k)

Next ==
  \/ running = "none" /\ Resumed
  \/ ThreadCommits
  \/ running = "taking" /\ WriterGet
  \/ running # "taking" /\ (HoldLock \/ HolderRaises)

Spec == Init /\ [][Next]_vars

(* asyncio runs every task that can run, and a stage's thread ends.        *)
Fairness ==
  /\ WF_vars(\E plan \in SUBSET Resumable : Discover(plan))
  /\ \A c \in Crawlers : WF_vars(Crawl(c))
  /\ WF_vars(WriterGet \/ WriterSentinel) /\ WF_vars(HoldLock)
  /\ \A u \in Uploaders : WF_vars(UploadWorker(u))
  /\ \A k \in Catalogers : WF_vars(CatalogWorker(k))
  /\ WF_vars(Main)

FairSpec == Spec /\ Fairness

-----------------------------------------------------------------------------
(* Properties.                                                             *)

TypeOK ==
  /\ main \in MainStages /\ failureEvent \in BOOLEAN /\ stops \in 0..2
  /\ pills \in Nat /\ sent \in Nat
  /\ discovery \in {"running", "done", "failed"}
  /\ scopeQueue \subseteq Scopes /\ crawlersUp \subseteq Crawlers
  /\ crawling \in [Crawlers -> Scopes \cup {None}]
  /\ offer \in [Crawlers -> Items \cup {None}]
  /\ crawled \in [Scopes -> SUBSET Records] /\ exhausted \subseteq Scopes
  /\ recordQueue \in Seq(Items) /\ holding \in Seq(Items) /\ running \in {"none", "taking", "item"}
  /\ writersUp \in Nat /\ sinceFlush \in Nat
  /\ putting \in BatchIds \cup {None}
  /\ stage \in [BatchIds -> Stages]
  /\ recs \in [BatchIds -> SUBSET Records] /\ owners \in [BatchIds -> SUBSET Scopes]
  /\ uploadQueue \in Seq(BatchIds) /\ catalogQueue \in Seq(BatchIds)
  /\ uploadersUp \subseteq Uploaders /\ uploading \in [Uploaders -> BatchIds \cup {None}]
  /\ catalogersUp \subseteq Catalogers
  /\ cataloging \in [Catalogers -> BatchIds \cup {None}]
  /\ pendingBatches \in [Scopes -> Nat] /\ crawlDone \subseteq Scopes
  /\ skipped \in [Scopes -> SUBSET Records] /\ closed \subseteq Scopes
  /\ candidate \in [Scopes -> SUBSET Marks] /\ checkpoint \in [Scopes -> SUBSET Marks]
  /\ durable \subseteq Records

(* A stored checkpoint covers no record that is not durable, at any step:  *)
(* a crash then loses nothing the next run would not crawl again.          *)
CheckpointAfterDurable == \A s \in Scopes : checkpoint[s] \ {Complete} \subseteq durable

(* A run is an abstract crawl: what is durable stays durable, and no saved  *)
(* checkpoint is later replaced by one that covers less, although the       *)
(* scopes' batches complete in any order.                                   *)
Promise == INSTANCE DurableCrawl
KeepsPromise == Promise!Spec

(* A checkpoint marked complete covers the whole crawl of its scope: the   *)
(* crawl was not cut by a stop and every record it yielded went through a  *)
(* writer before the flush item did.                                       *)
CompleteCoversCrawl ==
  \A s \in Scopes :
    Complete \in checkpoint[s] =>
      s \in exhausted /\ crawled[s] \subseteq checkpoint[s] \cup skipped[s]

Tracked == Stages \ {"free", "buffered", "popped", "done", "dropped"}
PendingOf(s) == {b \in BatchIds : stage[b] \in Tracked /\ s \in owners[b]}

(* pending_batches counts exactly the tracked batches that carry the scope *)
(* and have not completed, whatever the order in which workers take them.  *)
PendingAccounting == \A s \in Scopes : pendingBatches[s] = Cardinality(PendingOf(s))

(* A run that ends normally, drained by a first stop request or not, has   *)
(* made every record it accepted durable and saved every scope it flushed. *)
DrainedIsDurable ==
  main = "done" =>
    /\ \A s \in Scopes : crawled[s] \subseteq durable \cup skipped[s]
    /\ crawlDone = closed
    /\ \A b \in BatchIds : stage[b] \in {"free", "done"}

(* A scope whose crawl ended gets its result and its checkpoint.           *)
EveryScopeCloses == \A s \in Scopes : s \in exhausted ~> s \in closed

(* The run ends, drained by a stop request or aborted by a second one.     *)
RunEnds == <>Ended

(* A second shutdown request ends the run, whatever has failed before.     *)
AbortEnds == AbortRequested ~> Ended

-----------------------------------------------------------------------------
(* Why the accounting is exact in every run, and why CheckpointAfterDurable *)
(* holds when every finished scope is flushed, with one writer or without  *)
(* failures: the inductive invariants.                                     *)

Live == main \notin {"raised", "aborted"}

(* Cancelled tasks stay cancelled; a lock holder is a live writer; main    *)
(* flushes after the last writer returned; a writer that runs has an item  *)
(* to take, or has one and the lock.                                       *)
WorkersInv ==
  /\ Len(holding) <= writersUp /\ writersUp <= WriterCount
  /\ running = "taking" => IdleWriter /\ recordQueue # <<>> /\ putting = None
  /\ running = "item" => holding # <<>> /\ putting = None
  /\ ~Live => writersUp = 0 /\ catalogersUp = {} /\ crawlersUp = {} /\ putting = None
  /\ main = "flushing" => writersUp = 0
  /\ Faults = {} => ~failureEvent

(* The queues hold distinct batches, in the stage of the queue.            *)
QueueInv ==
  /\ Len(uploadQueue) <= UploadQueueSize
  /\ \A i \in 1..Len(uploadQueue) : stage[uploadQueue[i]] = "uploadQueue"
  /\ \A i, j \in 1..Len(uploadQueue) : uploadQueue[i] = uploadQueue[j] => i = j
  /\ \A i \in 1..Len(catalogQueue) : stage[catalogQueue[i]] = "catalogQueue"
  /\ \A i, j \in 1..Len(catalogQueue) : catalogQueue[i] = catalogQueue[j] => i = j
  /\ putting # None => /\ stage[putting] = "held"
                       /\ main = "flushing" \/ holding # <<>>

AccountingInv == TypeOK /\ WorkersInv /\ QueueInv /\ PendingAccounting

SafeSetting == FlushScopeOnDone /\ (WriterCount = 1 \/ Faults = {})

(* A scope's flush item comes after every record of the scope, from the    *)
(* crawl worker to the lock's holder.                                      *)
NoItemOf(s) ==
  /\ \A i \in 1..Len(recordQueue) : recordQueue[i].scope # s
  /\ \A i \in 1..Len(holding) : holding[i].scope # s
Untouched(s) == s \notin crawlDone /\ NoItemOf(s) /\ \A c \in Crawlers : crawling[c] # s

Fresh ==
  /\ \A s \in Scopes : discovery = "running" \/ s \in scopeQueue => Untouched(s)
  /\ discovery = "running" => scopeQueue = {}

OneCrawler ==
  /\ \A c \in Crawlers : offer[c] # None => offer[c].scope = crawling[c] /\ crawling[c] # None
  /\ \A c, d \in Crawlers : crawling[c] # None /\ crawling[c] = crawling[d] => c = d

CrawledNotFlushed ==
  \A c \in Crawlers : crawling[c] # None =>
    /\ crawling[c] \notin crawlDone
    /\ \A i \in 1..Len(recordQueue) :
         recordQueue[i].kind = "flush" => recordQueue[i].scope # crawling[c]
    /\ \A i \in 1..Len(holding) :
         holding[i].kind = "flush" => holding[i].scope # crawling[c]

FlushLast ==
  /\ \A i, j \in 1..Len(recordQueue) :
       i < j /\ recordQueue[i].kind = "flush" => recordQueue[j].scope # recordQueue[i].scope
  /\ \A i, j \in 1..Len(holding) :
       i < j /\ holding[i].kind = "flush" => holding[j].scope # holding[i].scope
  /\ \A i \in 1..Len(holding), j \in 1..Len(recordQueue) :
       holding[i].kind = "flush" => recordQueue[j].scope # holding[i].scope

NotDoneYet ==
  /\ \A j \in 1..Len(recordQueue) : recordQueue[j].scope \notin crawlDone
  /\ \A i \in 1..Len(holding) :
       holding[i].scope \in crawlDone => i = 1 /\ putting # None /\ holding[i].kind = "flush"

OrderInv == Fresh /\ OneCrawler /\ CrawledNotFlushed /\ FlushLast /\ NotDoneYet

(* What is no longer in the buffer and not yet counted as pending: with a  *)
(* done scope among its owners, such a batch waits behind a counted batch  *)
(* of the same scope.                                                      *)
CountedWith(s, where) == \E x \in BatchIds : stage[x] \in where /\ s \in owners[x]

UntrackedInv ==
  /\ \A b \in BatchIds : stage[b] = "free" => owners[b] = {}
  /\ \A b \in BatchIds : stage[b] = "buffered" => owners[b] \cap crawlDone = {}
  /\ \A b \in BatchIds : stage[b] = "popped" =>
       /\ putting # None
       /\ main = "flushing" => owners[b] \cap crawlDone = {}
       /\ main # "flushing" =>
            /\ Head(holding).kind = "flush"
            /\ Head(holding).scope \in owners[b] \cap owners[putting]
            /\ owners[b] \cap crawlDone \subseteq {Head(holding).scope}
  /\ \A b \in BatchIds : stage[b] = "dropped" =>
       /\ writersUp = 0
       /\ \A s \in owners[b] \cap crawlDone : CountedWith(s, {"lost"})

(* A candidate checkpoint covers durable records and records of a batch of *)
(* the scope that is on its way; a committed batch is durable.             *)
CoverInv ==
  /\ \A s \in Scopes : \A r \in candidate[s] \ {Complete} :
       \/ r \in durable
       \/ \E b \in BatchIds : /\ stage[b] \notin {"free", "committed", "done"}
                              /\ r \in recs[b] /\ s \in owners[b]
  /\ \A b \in BatchIds : stage[b] \in {"committed", "done"} => recs[b] \subseteq durable

IInv ==
  /\ AccountingInv
  /\ CheckpointAfterDurable
  /\ Live => OrderInv /\ UntrackedInv /\ CoverInv

=============================================================================
