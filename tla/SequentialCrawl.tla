----------------------------- MODULE SequentialCrawl -----------------------------
(***************************************************************************)
(* CrawlRuntime, the sequential runtime: one scope after the other, every  *)
(* record submitted, tracked and shown to the checkpoint hook, then a      *)
(* barrier that flushes the scope and asks SeenStore for each tracked      *)
(* version before the candidate checkpoint is saved.  Batches are          *)
(* processed inside of submit and flush; what is left of one that raises,  *)
(* or of a crash, is recovered before the next run.                        *)
(***************************************************************************)
EXTENDS Naturals, Sequences, FiniteSets, SequencesExt

CONSTANTS
  SeqScopes,
  Contents,     \* a record is its uid and a version of its content
  PartitionFor, \* the partition of each record
  Offers,       \* the contents a scope's pages show
  BufferRows,   \* bound on the rows of a partition's buffer
  SeqComplete,  \* the mark of a checkpoint that says the scope is done
  MaxSeqRuns    \* bound: runs

ASSUME SequentialAssumption ==
  /\ \A c \in Contents : c.version \in Nat \ {0}
  /\ \A c, d \in Contents : c.uid = d.uid /\ c.version = d.version => c = d
  /\ Offers \in [SeqScopes -> SUBSET Contents]
  /\ BufferRows \in Nat \ {0} /\ MaxSeqRuns \in Nat
  /\ SeqComplete \notin Contents

VARIABLES
  seqAt,          \* where the runtime is
  seqScopes,      \* the scopes this run has still to crawl
  scopeNow,       \* the scope of the barrier
  shown,          \* what the plugin has yielded of it
  tracked,        \* _scope_records
  seqBuffer,      \* the rows of each partition, in order
  flushing,       \* batches popped and not yet processed, a set
  afterFlush,     \* what the flush is part of
  seqCandidate,   \* candidate_checkpoint
  seqCheckpoint,  \* the stored checkpoints
  stored,         \* contents that are uploaded and cataloged
  seenHash,       \* SeenStore
  manifests,      \* batches left for recovery
  seqRuns

seqVars == <<seqAt, seqScopes, scopeNow, shown, tracked, seqBuffer, flushing, afterFlush,
             seqCandidate, seqCheckpoint, stored, seenHash, manifests, seqRuns>>
durableVars == <<seqCheckpoint, stored, seenHash, manifests>>
scopeVars == <<scopeNow, shown, tracked, seqCandidate>>

SeqUids == {c.uid : c \in Contents}
BufferKeys == {PartitionFor[u] : u \in SeqUids}
SeqMarks == Contents \cup {SeqComplete}
NoScope == "none"
SeqBatches == Seq(Contents)

SequentialTypeOK ==
  /\ seqAt \in {"off", "next", "crawl", "barrier", "flush", "recheck", "save", "refused"}
  /\ seqScopes \subseteq SeqScopes /\ scopeNow \in SeqScopes \cup {NoScope}
  /\ shown \subseteq Contents /\ tracked \subseteq shown
  /\ seqBuffer \in [BufferKeys -> SeqBatches]
  /\ flushing \subseteq SeqBatches /\ afterFlush \in {"recheck", "off"}
  /\ seqCandidate \subseteq SeqMarks /\ seqCheckpoint \in [SeqScopes -> SUBSET SeqMarks]
  /\ stored \subseteq Contents /\ seenHash \in [SeqUids -> Nat]
  /\ manifests \subseteq SeqBatches /\ seqRuns \in 0 .. MaxSeqRuns

EmptyBuffer == [p \in BufferKeys |-> <<>>]

SequentialInit ==
  /\ seqAt = "off" /\ seqScopes = {} /\ scopeNow = NoScope /\ shown = {} /\ tracked = {}
  /\ seqBuffer = EmptyBuffer /\ flushing = {} /\ afterFlush = "off"
  /\ seqCandidate = {} /\ seqCheckpoint = [s \in SeqScopes |-> {}]
  /\ stored = {} /\ seenHash = [u \in SeqUids |-> 0] /\ manifests = {} /\ seqRuns = 0

------------------------------------------------------------------------------
(* Batches                                                                  *)

(* commit_many writes the rows in their order: the last of a record stays.  *)
Committed(hashes, b) ==
  [u \in SeqUids |->
     IF \E n \in DOMAIN b : b[n].uid = u
     THEN b[CHOOSE n \in DOMAIN b : b[n].uid = u /\ \A k \in DOMAIN b : b[k].uid = u => k <= n].version
     ELSE hashes[u]]

ProcessBatch(b) ==
  /\ stored' = stored \cup ToSet(b) /\ seenHash' = Committed(seenHash, b)
  /\ UNCHANGED <<seqCheckpoint, manifests>>

(* It raises, or the process dies: before the manifest, or after it and     *)
(* perhaps after the catalog, when recovery finishes the batch.             *)
ProcessFails(b) ==
  /\ \/ UNCHANGED <<manifests, stored>>
     \/ manifests' = manifests \cup {b} /\ stored' \in {stored, stored \cup ToSet(b)}
  /\ UNCHANGED <<seqCheckpoint, seenHash>>

(* Startup recovery of one batch, before the crawl.                         *)
SeqRecover(b) ==
  /\ seqAt = "off" /\ b \in manifests
  /\ stored' = stored \cup ToSet(b) /\ seenHash' = Committed(seenHash, b)
  /\ manifests' = manifests \ {b}
  /\ UNCHANGED <<seqAt, seqScopes, scopeVars, seqBuffer, flushing, afterFlush, seqCheckpoint, seqRuns>>

------------------------------------------------------------------------------
(* run, run_dataset                                                         *)

SeqStart ==
  /\ seqAt = "off" /\ manifests = {} /\ seqRuns < MaxSeqRuns
  /\ seqAt' = "next" /\ seqScopes' = SeqScopes /\ seqRuns' = seqRuns + 1
  /\ UNCHANGED <<scopeVars, seqBuffer, flushing, afterFlush, durableVars>>

SeqBeginScope(s) ==
  /\ seqAt = "next" /\ s \in seqScopes
  /\ seqAt' = "crawl" /\ scopeNow' = s /\ seqScopes' = seqScopes \ {s}
  /\ seqCandidate' = seqCheckpoint[s] /\ shown' = {} /\ tracked' = {}
  /\ UNCHANGED <<seqBuffer, flushing, afterFlush, durableVars, seqRuns>>

NonEmpty(buffer) == {buffer[p] : p \in {q \in BufferKeys : buffer[q] # <<>>}}

EndScope == scopeNow' = NoScope /\ tracked' = {} /\ shown' = {} /\ seqCandidate' = {}

(* run's finally clause: flush_all, also when a scope has raised.           *)
FlushAll ==
  /\ flushing' = NonEmpty(seqBuffer) /\ afterFlush' = "off"
  /\ seqAt' = "flush" /\ seqBuffer' = EmptyBuffer /\ EndScope

SeqRunOver ==
  /\ seqAt = "next" /\ seqScopes = {} /\ FlushAll
  /\ UNCHANGED <<seqScopes, durableVars, seqRuns>>

ScopeRaises ==
  /\ seqAt \in {"crawl", "refused"} /\ FlushAll
  /\ UNCHANGED <<seqScopes, durableVars, seqRuns>>

------------------------------------------------------------------------------
(* run_scope                                                                *)

Unseen(c) == seenHash[c.uid] # c.version
Grown(c) == Append(seqBuffer[PartitionFor[c.uid]], c)
Fills(c) == Unseen(c) /\ Len(Grown(c)) = BufferRows

Track(c, hook) ==
  /\ shown' = shown \cup {c} /\ tracked' = tracked \cup {c}
  /\ seqCandidate' = IF hook THEN seqCandidate \cup {c} ELSE seqCandidate
  /\ UNCHANGED <<seqAt, scopeNow>>

SeqRecord(c, hook) ==
  /\ seqAt = "crawl" /\ c \in Offers[scopeNow] \ shown
  /\ Track(c, hook)
  /\ IF Fills(c)
     THEN ProcessBatch(Grown(c)) /\ seqBuffer' = [seqBuffer EXCEPT ![PartitionFor[c.uid]] = <<>>]
     ELSE /\ UNCHANGED durableVars
          /\ seqBuffer' = IF Unseen(c) THEN [seqBuffer EXCEPT ![PartitionFor[c.uid]] = Grown(c)] ELSE seqBuffer
  /\ UNCHANGED <<seqScopes, flushing, afterFlush, seqRuns>>

(* The batch a record fills raises inside of submit.                        *)
SeqRecordRaises(c) ==
  /\ seqAt = "crawl" /\ c \in Offers[scopeNow] \ shown /\ Fills(c)
  /\ ProcessFails(Grown(c))
  /\ LET rest == [seqBuffer EXCEPT ![PartitionFor[c.uid]] = <<>>] IN
       flushing' = NonEmpty(rest)
  /\ seqBuffer' = EmptyBuffer /\ afterFlush' = "off" /\ seqAt' = "flush" /\ EndScope
  /\ UNCHANGED <<seqScopes, seqRuns>>

SeqSkip(c) ==
  /\ seqAt = "crawl" /\ c \in Offers[scopeNow] \ shown
  /\ shown' = shown \cup {c}
  /\ UNCHANGED <<seqAt, seqScopes, scopeNow, tracked, seqBuffer, flushing, afterFlush, seqCandidate, durableVars, seqRuns>>

SeqScopeHook(complete) ==
  /\ seqAt = "crawl" /\ seqAt' = "barrier"
  /\ seqCandidate' = IF complete THEN seqCandidate \cup {SeqComplete} ELSE seqCandidate
  /\ UNCHANGED <<seqScopes, scopeNow, shown, tracked, seqBuffer, flushing, afterFlush, durableVars, seqRuns>>

(* Mutation: any version of the record will do.                             *)
IsSeen(c) == seenHash[c.uid] # 0

IsDurable(c) == seenHash[c.uid] = c.version
AllDurable == \A c \in tracked : IsDurable(c)

(* Mutation: one partition of the scope is flushed.                         *)
OnePartition == IF NonEmpty(seqBuffer) = {} THEN {} ELSE {CHOOSE b \in NonEmpty(seqBuffer) : TRUE}

(* The buffer holds rows of this scope alone.                               *)
ScopeBatches == NonEmpty(seqBuffer)

WaitUntilDurable ==
  /\ seqAt = "barrier"
  /\ IF AllDurable
     THEN seqAt' = "save" /\ UNCHANGED <<flushing, afterFlush, seqBuffer>>
     ELSE /\ seqAt' = "flush" /\ afterFlush' = "recheck"
          /\ flushing' = ScopeBatches
          /\ seqBuffer' = [p \in BufferKeys |-> IF seqBuffer[p] \in ScopeBatches THEN <<>> ELSE seqBuffer[p]]
  /\ UNCHANGED <<seqScopes, scopeVars, durableVars, seqRuns>>

(* Partitions share no rows, so their batches differ; their order is that   *)
(* of the buffers.                                                          *)
FlushBatch(b) ==
  /\ seqAt = "flush" /\ b \in flushing
  /\ ProcessBatch(b) /\ flushing' = flushing \ {b}
  /\ UNCHANGED <<seqAt, seqScopes, scopeVars, seqBuffer, afterFlush, seqRuns>>

(* The batches behind it are dropped, and run is left through its finally.  *)
FlushRaises(b) ==
  /\ seqAt = "flush" /\ b \in flushing
  /\ ProcessFails(b)
  /\ flushing' = {} /\ afterFlush' = "off" /\ seqBuffer' = EmptyBuffer /\ EndScope
  /\ UNCHANGED <<seqAt, seqScopes, seqRuns>>

FlushOver ==
  /\ seqAt = "flush" /\ flushing = {} /\ seqAt' = afterFlush
  /\ UNCHANGED <<seqScopes, scopeVars, seqBuffer, flushing, afterFlush, durableVars, seqRuns>>

Recheck ==
  /\ seqAt = "recheck" /\ seqAt' = IF AllDurable THEN "save" ELSE "refused"
  /\ UNCHANGED <<seqScopes, scopeVars, seqBuffer, flushing, afterFlush, durableVars, seqRuns>>

SaveCandidate ==
  /\ seqAt = "save" /\ seqAt' = "next"
  /\ seqCheckpoint' = [seqCheckpoint EXCEPT ![scopeNow] = seqCandidate]
  /\ EndScope
  /\ UNCHANGED <<seqScopes, seqBuffer, flushing, afterFlush, stored, seenHash, manifests, seqRuns>>

(* The process dies; a batch in work is left as by FlushRaises.             *)
SeqCrash ==
  /\ seqAt # "off" /\ seqAt' = "off"
  /\ UNCHANGED durableVars \/ \E b \in flushing : ProcessFails(b)
  /\ flushing' = {} /\ afterFlush' = "off" /\ seqBuffer' = EmptyBuffer /\ seqScopes' = {} /\ EndScope
  /\ UNCHANGED seqRuns

SequentialNext ==
  \/ \E b \in manifests : SeqRecover(b)
  \/ SeqStart \/ SeqRunOver \/ ScopeRaises
  \/ \E s \in seqScopes : SeqBeginScope(s)
  \/ \E c \in Contents : SeqRecordRaises(c) \/ SeqSkip(c) \/ \E hook \in BOOLEAN : SeqRecord(c, hook)
  \/ \E complete \in BOOLEAN : SeqScopeHook(complete)
  \/ \E b \in flushing : FlushBatch(b) \/ FlushRaises(b)
  \/ WaitUntilDurable \/ FlushOver \/ Recheck \/ SaveCandidate
  \/ SeqCrash

SequentialSpec == SequentialInit /\ [][SequentialNext]_seqVars

------------------------------------------------------------------------------
(* The sequential runtime keeps the promise of every crawl: contents are     *)
(* stored for good, and no checkpoint is ahead of them or taken back,        *)
(* although the barrier only asks SeenStore.                                *)
SequentialPromise == INSTANCE DurableCrawl
  WITH Scopes <- SeqScopes, Records <- Contents, Complete <- SeqComplete,
       durable <- stored, checkpoint <- seqCheckpoint
SequentialKeepsPromise == SequentialPromise!Spec

(* The barrier refuses no scope but one whose pages showed two versions of a *)
(* record: all is stored then, but SeenStore keeps the last version only,    *)
(* and the scope fails again in every run.                                  *)
RefusesTwoVersionsOnly ==
  seqAt = "refused" =>
    /\ tracked \subseteq stored
    /\ \E c, d \in tracked : c.uid = d.uid /\ c # d

=============================================================================
