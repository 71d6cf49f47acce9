------------------------- MODULE ConcurrentRuntimeProofs -------------------------
(***************************************************************************)
(* Proofs about ConcurrentRuntime, for every set of scopes, records and    *)
(* workers and every queue size: the type invariant and the accounting of  *)
(* batches, and, when every finished scope is flushed and there is one     *)
(* writer or nothing fails, that a checkpoint never runs ahead of what is  *)
(* durable.                                                                *)
(***************************************************************************)
EXTENDS ConcurrentRuntime, FiniteSetTheorems, TLAPS

(* What taking the head of a non-empty queue leaves in it.                 *)
LEMMA TailFacts ==
  ASSUME NEW S, NEW q \in Seq(S), q # <<>>
  PROVE /\ Tail(q) \in Seq(S) /\ Len(Tail(q)) = Len(q) - 1 /\ Len(q) \in Nat \ {0}
        /\ \A i \in 1..Len(Tail(q)) : i + 1 \in 1..Len(q) /\ i + 1 # 1 /\ Tail(q)[i] = q[i + 1]
        /\ Head(q) = q[1] /\ 1 \in 1..Len(q) /\ Head(q) \in S
  OBVIOUS

(* What putting an element at the end of a queue leaves in it.             *)
LEMMA AppendFacts ==
  ASSUME NEW S, NEW q \in Seq(S), NEW e \in S
  PROVE /\ Append(q, e) \in Seq(S) /\ Len(Append(q, e)) = Len(q) + 1
        /\ \A i \in 1..Len(q) : i \in 1..Len(Append(q, e)) /\ Append(q, e)[i] = q[i]
        /\ \A i \in 1..Len(Append(q, e)) : i \in 1..Len(q) \/ i = Len(q) + 1
        /\ Append(q, e)[Len(q) + 1] = e
        /\ Append(q, e) # <<>>
  OBVIOUS

(* What the loop over the popped batches B does, whatever its order: put   *)
(* went into the queue, next is the batch in hand, the others wait.        *)
Offered(B, st, put, next) ==
  /\ put \cap next = {}
  /\ \A x, y \in next : x = y
  /\ next = {} => put = B
  /\ failureEvent => put = {}
  /\ TrackBatches(put \cup next)
  /\ putting' = None \/ putting' \in next
  /\ putting' # None <=> next # {} /\ ~failureEvent
  /\ stage' = [x \in BatchIds |->
       IF x \in put THEN "uploadQueue"
       ELSE IF x \in next THEN (IF failureEvent THEN "lost" ELSE "held")
       ELSE IF x \in B THEN (IF failureEvent THEN "dropped" ELSE "popped")
       ELSE st[x]]

(* The queue keeps its bound and holds distinct batches in its own stage.  *)
UploadQueueInv ==
  /\ uploadQueue \in Seq(BatchIds)
  /\ Len(uploadQueue) <= UploadQueueSize
  /\ \A i \in 1..Len(uploadQueue) : stage[uploadQueue[i]] = "uploadQueue"
  /\ \A i, j \in 1..Len(uploadQueue) : uploadQueue[i] = uploadQueue[j] => i = j

(* The put loop splits the batches it is given: some are put in            *)
(* upload_queue, at most one is in hand, the others are not counted; the   *)
(* queue stays within its bound and holds no batch twice.                  *)
LEMMA OfferFacts ==
  ASSUME NEW B \in SUBSET BatchIds, NEW base \in Seq(BatchIds),
         NEW st \in [BatchIds -> Stages],
         Len(base) <= UploadQueueSize, failureEvent \in BOOLEAN,
         \A i \in 1..Len(base) : st[base[i]] = "uploadQueue" /\ base[i] \notin B,
         \A i, j \in 1..Len(base) : base[i] = base[j] => i = j,
         OfferBatches(B, base, st)
  PROVE /\ \E put, next \in SUBSET B : Offered(B, st, put, next)
        /\ UploadQueueInv'
<1>1. IsFiniteSet(B) /\ Cardinality(B) \in Nat
  BY FS_Subset, FS_CardinalityType, DataAssumption
<1>2. PICK order \in SetToSeqs(B) : OfferBatches(B, base, st)!(order)
  BY DEF OfferBatches
<1> DEFINE room == RoomAfter(base)
           n    == IF Len(order) <= room THEN Len(order) ELSE room
           put  == {order[i] : i \in 1..n}
           next == IF n = Len(order) THEN {} ELSE {order[n + 1]}
<1>3. /\ order \in Seq(B) /\ Len(order) = Cardinality(B)
      /\ \A i, j \in 1..Len(order) : order[i] = order[j] => i = j
  BY <1>1 DEF SetToSeqs
<1>4. room \in Nat /\ (failureEvent => room = 0)
      /\ (~failureEvent => Len(base) + room = UploadQueueSize)
  BY SizeAssumption DEF RoomAfter
<1>5. n \in 0..Len(order) /\ n <= room /\ (n < Len(order) => n = room)
  BY <1>3, <1>4
<1>6. /\ uploadQueue' = base \o SubSeq(order, 1, n)
      /\ TrackBatches(put \cup next)
      /\ putting' = IF next = {} \/ failureEvent THEN None ELSE order[n + 1]
      /\ stage' = [x \in BatchIds |->
           IF x \in put THEN "uploadQueue"
           ELSE IF x \in next THEN (IF failureEvent THEN "lost" ELSE "held")
           ELSE IF x \in B THEN (IF failureEvent THEN "dropped" ELSE "popped")
           ELSE st[x]]
  BY <1>2
<1> HIDE DEF room
<1>7. put \in SUBSET B /\ next \in SUBSET B /\ put \cap next = {}
  BY <1>3, <1>5
<1>8. next = {} => put = B
  <2>1. IsFiniteSet(1..Len(order)) /\ Cardinality(1..Len(order)) = Len(order)
    BY <1>3, FS_Interval, <1>1
  <2>2. order \in Injection(1..Len(order), B)
    BY <1>1, <1>2 DEF SetToSeqs, Injection, IsInjective
  <2>3. order \in Surjection(1..Len(order), B)
    BY <2>1, <2>2, <1>1, <1>3, FS_Injection
  <2>4. \A x \in B : \E i \in 1..Len(order) : order[i] = x
    BY <2>3 DEF Surjection
  <2>5. next = {} => n = Len(order)
    OBVIOUS
  <2>6. n = Len(order) => put = B
    BY <2>4, <1>3, <1>7
  <2> QED BY <2>5, <2>6
<1>9. \E p, q \in SUBSET B : Offered(B, st, p, q)
  <2>1. failureEvent => put = {}
    BY <1>4, <1>5
  <2>2. putting' = None \/ putting' \in next
    BY <1>6
  <2>3. putting' # None <=> next # {} /\ ~failureEvent
    BY <1>6, <1>7, DataAssumption
  <2>4. Offered(B, st, put, next)
    BY <2>1, <2>2, <2>3, <1>6, <1>7, <1>8 DEF Offered
  <2> QED BY <2>4, <1>7
<1>10. UploadQueueInv'
  <2> DEFINE tail == SubSeq(order, 1, n)
  <2>1. tail \in Seq(BatchIds) /\ Len(tail) = n /\ \A i \in 1..n : tail[i] = order[i]
    BY <1>3, <1>5
  <2>2. \A i \in 1..n : order[i] \in put /\ order[i] \in B
    BY <1>3, <1>5
  <2> HIDE DEF tail, n, put, next
  <2>3. /\ uploadQueue' \in Seq(BatchIds)
        /\ Len(uploadQueue') = Len(base) + n
        /\ \A i \in 1..Len(base) : uploadQueue'[i] = base[i]
        /\ \A i \in 1..n : uploadQueue'[Len(base) + i] = order[i]
    BY <2>1, <1>6, <1>5 DEF tail
  <2>4. Len(base) + n <= UploadQueueSize
    BY <1>4, <1>5, SizeAssumption
  <2>5. \A i \in 1..(Len(base) + n) :
          \/ i \in 1..Len(base)
          \/ (i - Len(base)) \in 1..n /\ i = Len(base) + (i - Len(base))
    BY <1>5, <1>3
  <2>6. \A i \in 1..(Len(base) + n) : stage'[uploadQueue'[i]] = "uploadQueue"
    <3> SUFFICES ASSUME NEW i \in 1..(Len(base) + n)
                 PROVE stage'[uploadQueue'[i]] = "uploadQueue"
      OBVIOUS
    <3>1. CASE i \in 1..Len(base)
      BY <3>1, <2>3, <1>6, <1>7
    <3>2. CASE i - Len(base) \in 1..n /\ i = Len(base) + (i - Len(base))
      <4>1. uploadQueue'[i] \in put /\ uploadQueue'[i] \in BatchIds
        BY <3>2, <2>3, <2>2
      <4> QED BY <4>1, <1>6
    <3> QED BY <3>1, <3>2, <2>5
  <2>7. \A i, j \in 1..(Len(base) + n) : uploadQueue'[i] = uploadQueue'[j] => i = j
    <3> SUFFICES ASSUME NEW i \in 1..(Len(base) + n), NEW j \in 1..(Len(base) + n),
                        uploadQueue'[i] = uploadQueue'[j]
                 PROVE i = j
      OBVIOUS
    <3> DEFINE k == i - Len(base)
               l == j - Len(base)
    <3>1. CASE i \in 1..Len(base) /\ j \in 1..Len(base)
      BY <3>1, <2>3
    <3>2. CASE i \in 1..Len(base) /\ l \in 1..n
      BY <3>2, <2>3, <2>2, <2>5
    <3>3. CASE k \in 1..n /\ j \in 1..Len(base)
      BY <3>3, <2>3, <2>2, <2>5
    <3>4. CASE k \in 1..n /\ l \in 1..n
      <4>1. uploadQueue'[Len(base) + k] = order[k] /\ uploadQueue'[Len(base) + l] = order[l]
        BY <3>4, <2>3
      <4>2. i = Len(base) + k /\ j = Len(base) + l
        BY <1>5
      <4>3. k = l
        BY <4>1, <4>2, <3>4, <1>3, <1>5
      <4> QED BY <4>2, <4>3
    <3> QED BY <3>1, <3>2, <3>3, <3>4, <2>5
  <2> QED BY <2>3, <2>4, <2>6, <2>7 DEF UploadQueueInv
<1> QED BY <1>9, <1>10

(* A step that tracks no batch and completes none keeps the counts.        *)
LEMMA SameCounts ==
  ASSUME PendingAccounting, UNCHANGED pendingBatches,
         \A x \in BatchIds : stage'[x] \in Tracked <=> stage[x] \in Tracked,
         \A x \in BatchIds : stage[x] \in Tracked => owners'[x] = owners[x]
  PROVE PendingAccounting'
<1> SUFFICES ASSUME NEW s \in Scopes
             PROVE pendingBatches'[s] = Cardinality(PendingOf(s)')
  BY DEF PendingAccounting
<1>1. PendingOf(s)' = PendingOf(s)
  BY DEF PendingOf
<1> QED BY <1>1 DEF PendingAccounting

(* Tracking the batches of N, and only those, keeps the counts exact.      *)
LEMMA TrackedCounts ==
  ASSUME PendingAccounting, NEW N \in SUBSET BatchIds, TrackBatches(N),
         pendingBatches \in [Scopes -> Nat],
         \A x \in N : stage[x] \notin Tracked,
         \A x \in BatchIds : stage'[x] \in Tracked <=> stage[x] \in Tracked \/ x \in N,
         \A x \in BatchIds : stage[x] \in Tracked => owners'[x] = owners[x]
  PROVE PendingAccounting' /\ pendingBatches' \in [Scopes -> Nat]
<1> DEFINE M(s) == {x \in N : s \in owners'[x]}
<1>1. ASSUME NEW s \in Scopes
      PROVE /\ Cardinality(PendingOf(s)') = Cardinality(PendingOf(s)) + Cardinality(M(s))
            /\ Cardinality(M(s)) \in Nat
  <2>1. PendingOf(s)' = PendingOf(s) \cup M(s) /\ PendingOf(s) \cap M(s) = {}
    BY DEF PendingOf
  <2>2. IsFiniteSet(PendingOf(s)) /\ IsFiniteSet(M(s))
    BY FS_Subset, DataAssumption DEF PendingOf
  <2>3. /\ Cardinality(PendingOf(s)) \in Nat /\ Cardinality(M(s)) \in Nat
        /\ Cardinality({}) = 0
    BY <2>2, FS_CardinalityType, FS_EmptySet
  <2> HIDE DEF M
  <2>4. Cardinality(PendingOf(s) \cup M(s))
          = Cardinality(PendingOf(s)) + Cardinality(M(s)) - Cardinality(PendingOf(s) \cap M(s))
    BY <2>2, FS_Union
  <2>5. Cardinality(PendingOf(s) \cap M(s)) = 0
    BY <2>1, <2>3
  <2>6. Cardinality(PendingOf(s)') = Cardinality(PendingOf(s) \cup M(s))
    BY <2>1
  <2> QED BY <2>3, <2>4, <2>5, <2>6
<1>2. pendingBatches' = [s \in Scopes |-> pendingBatches[s] + Cardinality(M(s))]
  BY DEF TrackBatches
<1> HIDE DEF M
<1> QED BY <1>1, <1>2 DEF PendingAccounting

(* Completing one counted batch takes one from each of its scopes.         *)
LEMMA CompletedCounts ==
  ASSUME PendingAccounting, NEW b \in BatchIds, stage[b] \in Tracked,
         pendingBatches \in [Scopes -> Nat],
         pendingBatches' = [s \in Scopes |-> IF s \in owners[b] THEN pendingBatches[s] - 1
                                             ELSE pendingBatches[s]],
         stage'[b] \notin Tracked, UNCHANGED owners,
         \A x \in BatchIds \ {b} : stage'[x] = stage[x]
  PROVE PendingAccounting' /\ pendingBatches' \in [Scopes -> Nat]
<1>1. ASSUME NEW s \in Scopes
      PROVE /\ pendingBatches'[s] = Cardinality(PendingOf(s)')
            /\ pendingBatches'[s] \in Nat
  <2>1. PendingOf(s)' = PendingOf(s) \ {b} /\ (s \in owners[b] <=> b \in PendingOf(s))
    BY DEF PendingOf
  <2>2. IsFiniteSet(PendingOf(s)) /\ IsFiniteSet(PendingOf(s) \ {b})
    BY FS_Subset, DataAssumption DEF PendingOf
  <2>3. /\ Cardinality(PendingOf(s) \ {b}) \in Nat
        /\ Cardinality(PendingOf(s) \ {b}) = IF b \in PendingOf(s)
                                             THEN Cardinality(PendingOf(s)) - 1
                                             ELSE Cardinality(PendingOf(s))
    BY <2>2, FS_CardinalityType, FS_RemoveElement
  <2> QED BY <2>1, <2>3 DEF PendingAccounting
<1> QED BY <1>1 DEF PendingAccounting

-----------------------------------------------------------------------------
(* Every step keeps the accounting.                                        *)

(* Crawl workers put record and flush items, nothing else.                 *)
LEMMA ItemTypes ==
  /\ \A s \in Scopes, r \in Records : RecordItem(s, r) \in Items
  /\ \A s \in Scopes, ok \in BOOLEAN : FlushItem(s, ok) \in Items
  BY DEF Items, RecordItem, FlushItem

(* A step that moves no batch.                                             *)
LEMMA SameBatches ==
  ASSUME AccountingInv, TypeOK', WorkersInv',
         UNCHANGED <<stage, owners, uploadQueue, catalogQueue, pendingBatches>>,
         putting' # None => putting' = putting /\ (main' = "flushing" \/ holding' # <<>>)
  PROVE AccountingInv'
<1>1. PendingAccounting'
  BY SameCounts DEF AccountingInv
<1>2. QueueInv'
  BY DEF AccountingInv, QueueInv
<1> QED BY <1>1, <1>2 DEF AccountingInv

(* The steps of a crawl worker keep the accounting.                        *)
LEMMA CrawlAccounting ==
  ASSUME AccountingInv, NEW c \in Crawlers, Crawl(c)
  PROVE AccountingInv'
<1> USE DEF mainVars, crawlVars, writerVars, storeVars, scopeVars, batchVars, uploadVars, catalogVars
<1>1. ASSUME NEW s \in Scopes, BeginScope(c, s) PROVE TypeOK'
  BY <1>1 DEF AccountingInv, TypeOK, BeginScope, Idle
<1>2. ASSUME NEW r \in Records, CrawlRecord(c, r) PROVE TypeOK'
  BY <1>2, ItemTypes DEF AccountingInv, TypeOK, CrawlRecord, InCrawl
<1>3. ASSUME EndScope(c) PROVE TypeOK'
  BY <1>3, ItemTypes DEF AccountingInv, TypeOK, EndScope, InCrawl
<1>4. ASSUME PutItem(c) PROVE TypeOK'
  BY <1>4 DEF AccountingInv, TypeOK, PutItem
<1>5. ASSUME CrawlerReturns(c) PROVE TypeOK'
  BY <1>5 DEF AccountingInv, TypeOK, CrawlerReturns, Idle, InCrawl
<1>6. TypeOK'
  BY <1>1, <1>2, <1>3, <1>4, <1>5 DEF Crawl
<1>7. /\ crawlersUp' \subseteq crawlersUp
      /\ UNCHANGED <<main, failureEvent, holding, running, writersUp, putting, stage, owners,
                     uploadQueue, catalogQueue, catalogersUp, pendingBatches>>
  BY DEF Crawl, BeginScope, CrawlRecord, EndScope, PutItem, CrawlerReturns
<1>9. recordQueue # <<>> => recordQueue' # <<>>
  BY DEF Crawl, BeginScope, CrawlRecord, EndScope, PutItem, CrawlerReturns, AccountingInv, TypeOK
<1>8. WorkersInv'
  BY <1>7, <1>9 DEF AccountingInv, WorkersInv, Live, IdleWriter
<1> QED BY <1>6, <1>7, <1>8, SameBatches DEF AccountingInv, QueueInv

(* So do the writer's steps that buffer nothing.                           *)
LEMMA WriterAccounting ==
  ASSUME AccountingInv, WriterGet \/ WriterSentinel \/ SkipRecord \/ UnchangedRecord
  PROVE AccountingInv'
<1> USE DEF mainVars, crawlVars, writerVars, storeVars, scopeVars, batchVars, uploadVars, catalogVars
<1>1. CASE WriterGet
  <2>a. /\ Head(recordQueue) \in Items /\ Tail(recordQueue) \in Seq(Items)
        /\ Len(holding) \in Nat /\ writersUp - 1 \in Nat /\ Len(holding) <= writersUp - 1
        /\ Append(holding, Head(recordQueue)) \in Seq(Items)
        /\ Len(Append(holding, Head(recordQueue))) = Len(holding) + 1
        /\ writersUp \in Nat
    BY <1>1 DEF AccountingInv, TypeOK, WriterGet, IdleWriter
  <2>1. TypeOK'
    BY <1>1, <2>a DEF AccountingInv, TypeOK, WriterGet
  <2>2. WorkersInv'
    <3>1. Len(holding') <= writersUp' /\ writersUp' <= writersUp /\ writersUp' \in Nat
      BY <1>1, <2>a DEF WriterGet
    <3>2. running' # "taking" /\ (running' = "item" => holding' # <<>> /\ putting = None)
      <4>1. Append(holding, Head(recordQueue)) # <<>>
        <5> DEFINE q == Append(holding, Head(recordQueue))
        <5>1. q \in Seq(Items) /\ Len(q) > 0
          BY <2>a
        <5> HIDE DEF q
        <5>2. q # <<>>
          BY <5>1
        <5> QED BY <5>2 DEF q
      <4>2. holding = <<>> => putting = None
        BY <1>1 DEF AccountingInv, QueueInv, WorkersInv, WriterGet, IdleWriter
      <4> QED BY <1>1, <4>1, <4>2 DEF WriterGet
    <3> QED BY <1>1, <3>1, <3>2, <2>a, SizeAssumption
            DEF AccountingInv, WorkersInv, WriterGet, IdleWriter, Live
  <2>3. holding # <<>> => holding' # <<>>
    BY <1>1 DEF AccountingInv, TypeOK, WriterGet
  <2> QED BY <1>1, <2>1, <2>2, <2>3, SameBatches DEF AccountingInv, QueueInv, WriterGet
<1>2. CASE WriterSentinel
  <2>1. TypeOK'
    BY <1>2 DEF AccountingInv, TypeOK, WriterSentinel, IdleWriter
  <2>2. WorkersInv'
    <3>1. Len(holding) <= writersUp - 1 /\ writersUp - 1 <= writersUp /\ Len(holding) \in Nat
      BY <1>2 DEF AccountingInv, TypeOK, WriterSentinel, IdleWriter
    <3> QED BY <1>2, <3>1, SizeAssumption
            DEF AccountingInv, WorkersInv, TypeOK, WriterSentinel, IdleWriter, Live
  <2> QED BY <1>2, <2>1, <2>2, SameBatches DEF AccountingInv, QueueInv, WriterSentinel
<1>3. CASE SkipRecord
  <2>1. TypeOK'
    BY <1>3 DEF AccountingInv, TypeOK, SkipRecord, LockHolder, Release, Items
  <2>2. WorkersInv'
    BY <1>3 DEF AccountingInv, WorkersInv, TypeOK, SkipRecord, LockHolder, Release, Live, IdleWriter
  <2> QED BY <1>3, <2>1, <2>2, SameBatches DEF AccountingInv, SkipRecord, LockHolder
<1>4. CASE UnchangedRecord
  <2>1. TypeOK'
    <3>1. /\ Tail(holding) \in Seq(Items) /\ running' \in {"none", "taking", "item"}
          /\ Head(holding) \in Items
      BY <1>4 DEF AccountingInv, TypeOK, UnchangedRecord, LockHolder, Release
    <3>2. candidate' \in [Scopes -> SUBSET Marks]
      BY <1>4, <3>1 DEF AccountingInv, TypeOK, UnchangedRecord, LockHolder, Items, Marks
    <3> QED BY <1>4, <3>1, <3>2 DEF AccountingInv, TypeOK, UnchangedRecord, LockHolder, Release
  <2>2. WorkersInv'
    BY <1>4 DEF AccountingInv, WorkersInv, TypeOK, UnchangedRecord, LockHolder, Release, Live, IdleWriter
  <2> QED BY <1>4, <2>1, <2>2, SameBatches DEF AccountingInv, UnchangedRecord, LockHolder
<1> QED BY <1>1, <1>2, <1>3, <1>4

(* Where the put loop may start: at the queue base, the batches elsewhere  *)
(* in the stages st, with the batches of B not tracked yet.                *)
Offerable(B, base, st) ==
  /\ B \in SUBSET BatchIds /\ base \in Seq(BatchIds) /\ st \in [BatchIds -> Stages]
  /\ Len(base) <= UploadQueueSize
  /\ \A i \in 1..Len(base) : st[base[i]] = "uploadQueue" /\ base[i] \notin B
  /\ \A i, j \in 1..Len(base) : base[i] = base[j] => i = j
  /\ \A x \in B : stage[x] \in {"free", "buffered", "popped"}
  /\ \A x \in BatchIds \ B : st[x] \in Tracked <=> stage[x] \in Tracked
  /\ \A x \in BatchIds : stage[x] = "catalogQueue" => st[x] = "catalogQueue"
  /\ \A x \in BatchIds : stage[x] \in Tracked => owners'[x] = owners[x]
  /\ UNCHANGED catalogQueue

(* What the put loop does to the accounting.                               *)
LEMMA OfferAccounting ==
  ASSUME AccountingInv, NEW B, NEW base, NEW st,
         OfferBatches(B, base, st), Offerable(B, base, st)
  PROVE /\ PendingAccounting' /\ pendingBatches' \in [Scopes -> Nat]
        /\ stage' \in [BatchIds -> Stages] /\ uploadQueue' \in Seq(BatchIds)
        /\ putting' # None => putting' \in B /\ ~failureEvent
        /\ putting' \in BatchIds \cup {None}
        /\ (putting' # None => main' = "flushing" \/ holding' # <<>>) => QueueInv'
<1> USE DEF Offerable
<1>1. UploadQueueInv' /\ \E put, next \in SUBSET B : Offered(B, st, put, next)
  <2>1. failureEvent \in BOOLEAN
    BY DEF AccountingInv, TypeOK
  <2> QED BY <2>1, OfferFacts
<1>2. PICK put \in SUBSET B, next \in SUBSET B : Offered(B, st, put, next)
  BY <1>1
<1>3. \A x \in BatchIds : stage'[x] = IF x \in put THEN "uploadQueue"
       ELSE IF x \in next THEN (IF failureEvent THEN "lost" ELSE "held")
       ELSE IF x \in B THEN (IF failureEvent THEN "dropped" ELSE "popped")
       ELSE st[x]
  BY <1>2 DEF Offered
<1>4. stage' \in [BatchIds -> Stages]
  BY <1>2 DEF Offered, Stages
<1>5. PendingAccounting' /\ pendingBatches' \in [Scopes -> Nat]
  <2>1. \A x \in put \cup next : stage[x] \notin Tracked
    BY DEF Tracked
  <2>2. \A x \in BatchIds : stage'[x] \in Tracked <=> stage[x] \in Tracked \/ x \in put \cup next
    BY <1>3 DEF Tracked, Stages
  <2>3. TrackBatches(put \cup next) /\ put \cup next \in SUBSET BatchIds
    BY <1>2 DEF Offered
  <2>4. pendingBatches \in [Scopes -> Nat] /\ PendingAccounting
    BY DEF AccountingInv, TypeOK
  <2> QED BY <2>1, <2>2, <2>3, <2>4, TrackedCounts
<1>6. putting' # None => putting' \in next /\ ~failureEvent
  BY <1>2 DEF Offered
<1>7. putting' \in BatchIds \cup {None}
  BY <1>6
<1>8. putting' # None => stage'[putting'] = "held"
  BY <1>6, <1>3, <1>2 DEF Offered
<1>9. \A i \in 1..Len(catalogQueue) : stage'[catalogQueue[i]] = "catalogQueue"
  <2> SUFFICES ASSUME NEW i \in 1..Len(catalogQueue)
               PROVE stage'[catalogQueue[i]] = "catalogQueue"
    OBVIOUS
  <2>1. stage[catalogQueue[i]] = "catalogQueue" /\ catalogQueue[i] \in BatchIds
    BY DEF AccountingInv, TypeOK, QueueInv
  <2> QED BY <2>1, <1>3
<1>10. ASSUME putting' # None => main' = "flushing" \/ holding' # <<>>
       PROVE QueueInv'
  BY <1>1, <1>8, <1>9, <1>10 DEF AccountingInv, QueueInv, UploadQueueInv
<1> QED BY <1>1, <1>4, <1>5, <1>6, <1>7, <1>10 DEF UploadQueueInv

(* What the lock's holder does after the loop.                             *)
LEMMA AfterOfferFacts ==
  ASSUME AccountingInv, holding # <<>>, NEW B \in SUBSET BatchIds, AfterOffer(B),
         UNCHANGED <<main, failureEvent, catalogersUp, crawlersUp, recordQueue>>,
         candidate' \in [Scopes -> SUBSET Marks]
  PROVE /\ holding' \in Seq(Items) /\ writersUp' \in Nat
        /\ closed' \subseteq Scopes /\ checkpoint' \in [Scopes -> SUBSET Marks]
        /\ putting' # None => holding' # <<>>
        /\ running' \in {"none", "taking", "item"}
        /\ WorkersInv'
<1>1. /\ Len(holding) \in Nat /\ Len(holding) > 0 /\ writersUp \in Nat /\ writersUp > 0
      /\ Len(holding) <= writersUp /\ writersUp <= WriterCount
      /\ Head(holding).scope \in Scopes
      /\ Tail(holding) \in Seq(Items) /\ Len(Tail(holding)) = Len(holding) - 1
  <2>1. holding \in Seq(Items) /\ writersUp \in Nat /\ Len(holding) <= writersUp
    BY DEF AccountingInv, TypeOK, WorkersInv
  <2>2. Head(holding) \in Items
    BY <2>1
  <2> QED BY <2>1, <2>2 DEF Items, AccountingInv, WorkersInv
<1>2. main \notin {"raised", "aborted", "flushing"}
  BY <1>1 DEF AccountingInv, WorkersInv, Live
<1>3. CASE putting' # None
  BY <1>3, <1>1, <1>2 DEF AfterOffer, AccountingInv, TypeOK, WorkersInv, Live
<1>4. CASE putting' = None
  <2> DEFINE raised == failureEvent /\ B # {}
             S == IF Head(holding).kind = "flush" /\ ~raised THEN {Head(holding).scope} ELSE {}
  <2>1. Release(raised) /\ CompleteIfReady(S) /\ S \subseteq Scopes
    BY <1>1, <1>4 DEF AfterOffer
  <2> HIDE DEF S, raised
  <2>2. closed' \subseteq Scopes /\ checkpoint' \in [Scopes -> SUBSET Marks]
    BY <2>1 DEF CompleteIfReady, AccountingInv, TypeOK
  <2>3. /\ holding' \in Seq(Items) /\ writersUp' \in Nat /\ Len(holding') <= writersUp'
        /\ writersUp' <= WriterCount
    BY <2>1, <1>1, SizeAssumption DEF Release
  <2>4. /\ running' \in {"none", "taking"}
        /\ running' = "taking" => recordQueue' # <<>> /\ Len(holding') < writersUp'
    BY <2>1, <1>1 DEF Release
  <2> QED BY <1>2, <1>4, <2>2, <2>3, <2>4 DEF WorkersInv, Live, AccountingInv, IdleWriter
<1> QED BY <1>3, <1>4

(* A record goes into one buffer, free or open before, and no other buffer *)
(* changes its records or its scopes.                                      *)
LEMMA BufferFacts ==
  ASSUME TypeOK, NEW item \in [kind : {"record"}, scope : Scopes, rec : Records],
         BufferAdd(item)
  PROVE /\ BufferOf(item.rec) \in BatchIds
        /\ stage[BufferOf(item.rec)] \in {"free", "buffered"}
        /\ recs' \in [BatchIds -> SUBSET Records] /\ owners' \in [BatchIds -> SUBSET Scopes]
        /\ \A x \in BatchIds \ {BufferOf(item.rec)} : recs'[x] = recs[x] /\ owners'[x] = owners[x]
        /\ recs'[BufferOf(item.rec)] = recs[BufferOf(item.rec)] \cup {item.rec}
        /\ owners'[BufferOf(item.rec)] = owners[BufferOf(item.rec)] \cup {item.scope}
<1>1. BufferOf(item.rec) \in OpenBuffer(item.rec) \cup Free
  BY DEF BufferAdd, BufferOf, NextFree
<1>2. /\ BufferOf(item.rec) \in BatchIds
      /\ stage[BufferOf(item.rec)] \in {"free", "buffered"}
  BY <1>1 DEF OpenBuffer, Free
<1> QED BY <1>2 DEF BufferAdd, TypeOK

(* Buffering a record, and putting the partition it filled, keeps the      *)
(* accounting.                                                             *)
LEMMA RecordAccounting ==
  ASSUME AccountingInv, BufferRecord
  PROVE AccountingInv'
<1> USE DEF mainVars, crawlVars, writerVars, storeVars, scopeVars, batchVars, uploadVars, catalogVars
<1> DEFINE item == Head(holding)
           b == BufferOf(item.rec)
<1>1. /\ holding # <<>> /\ putting = None
      /\ item \in [kind : {"record"}, scope : Scopes, rec : Records]
  BY DEF AccountingInv, TypeOK, BufferRecord, LockHolder, Items
<1>2. BufferAdd(item)
  BY DEF BufferRecord
<1>3. /\ b \in BatchIds /\ stage[b] \in {"free", "buffered"}
      /\ recs' \in [BatchIds -> SUBSET Records] /\ owners' \in [BatchIds -> SUBSET Scopes]
      /\ \A x \in BatchIds \ {b} : owners'[x] = owners[x]
  BY <1>1, <1>2, BufferFacts DEF AccountingInv
<1> DEFINE st == [stage EXCEPT ![b] = "buffered"]
<1>4. PICK B \in {{}, {b}} : OfferBatches(B, uploadQueue, st) /\ AfterOffer(B)
  BY DEF BufferRecord
<1>5. candidate' \in [Scopes -> SUBSET Marks]
  BY <1>1 DEF BufferRecord, AccountingInv, TypeOK, Marks
<1>6. /\ UNCHANGED <<main, failureEvent, catalogersUp, crawlersUp, catalogQueue, recordQueue>>
      /\ B \in SUBSET BatchIds
  BY <1>3, <1>4 DEF BufferRecord
<1>7. st \in [BatchIds -> Stages] /\ \A x \in BatchIds : st[x] = IF x = b THEN "buffered" ELSE stage[x]
  BY <1>3 DEF AccountingInv, TypeOK, Stages
<1> HIDE DEF item, b, st
<1>8. /\ holding' \in Seq(Items) /\ writersUp' \in Nat
      /\ closed' \subseteq Scopes /\ checkpoint' \in [Scopes -> SUBSET Marks]
      /\ putting' # None => holding' # <<>>
      /\ running' \in {"none", "taking", "item"}
      /\ WorkersInv'
  BY <1>1, <1>4, <1>5, <1>6, AfterOfferFacts
<1>9. /\ PendingAccounting' /\ pendingBatches' \in [Scopes -> Nat]
      /\ stage' \in [BatchIds -> Stages] /\ uploadQueue' \in Seq(BatchIds)
      /\ putting' \in BatchIds \cup {None}
      /\ (putting' # None => main' = "flushing" \/ holding' # <<>>) => QueueInv'
  <2>1. /\ uploadQueue \in Seq(BatchIds) /\ Len(uploadQueue) <= UploadQueueSize
        /\ \A i, j \in 1..Len(uploadQueue) : uploadQueue[i] = uploadQueue[j] => i = j
    BY DEF AccountingInv, TypeOK, QueueInv
  <2>2. \A i \in 1..Len(uploadQueue) : st[uploadQueue[i]] = "uploadQueue" /\ uploadQueue[i] \notin B
    BY <1>3, <1>4, <1>7, <2>1 DEF AccountingInv, QueueInv
  <2>3. /\ \A x \in B : stage[x] \in {"free", "buffered", "popped"}
        /\ \A x \in BatchIds \ B : st[x] \in Tracked <=> stage[x] \in Tracked
        /\ \A x \in BatchIds : stage[x] = "catalogQueue" => st[x] = "catalogQueue"
        /\ \A x \in BatchIds : stage[x] \in Tracked => owners'[x] = owners[x]
    BY <1>3, <1>4, <1>7 DEF Tracked
  <2>4. Offerable(B, uploadQueue, st)
    BY <1>6, <1>7, <2>1, <2>2, <2>3 DEF Offerable
  <2> QED BY <1>4, <2>4, OfferAccounting
<1>10. TypeOK'
  BY <1>3, <1>5, <1>8, <1>9 DEF AccountingInv, TypeOK, BufferRecord
<1> QED BY <1>8, <1>9, <1>10 DEF AccountingInv

(* So does handling the flush item of a scope.                             *)
LEMMA FlushAccounting ==
  ASSUME AccountingInv, FlushScope
  PROVE AccountingInv'
<1> USE DEF mainVars, crawlVars, writerVars, storeVars, scopeVars, batchVars, uploadVars, catalogVars
<1> DEFINE item == Head(holding)
           B == Popped(item.scope)
<1>1. /\ holding # <<>> /\ putting = None
      /\ item \in [kind : {"flush"}, scope : Scopes, checkpointScope : BOOLEAN]
  BY DEF AccountingInv, TypeOK, FlushScope, LockHolder, Items
<1>2. OfferBatches(B, uploadQueue, stage) /\ AfterOffer(B)
  BY DEF FlushScope
<1>3. B \in SUBSET BatchIds /\ \A x \in B : stage[x] = "buffered"
  BY DEF Popped
<1>4. candidate' \in [Scopes -> SUBSET Marks]
  BY <1>1 DEF FlushScope, ScopeHook, AccountingInv, TypeOK, Marks
<1>5. UNCHANGED <<main, failureEvent, catalogersUp, crawlersUp, catalogQueue, owners, recs,
                 recordQueue>>
  BY DEF FlushScope
<1>6. sinceFlush' \in Nat
  BY SizeAssumption DEF FlushScope, CountFlush, AccountingInv, TypeOK
<1> HIDE DEF B
<1>7. /\ holding' \in Seq(Items) /\ writersUp' \in Nat
      /\ closed' \subseteq Scopes /\ checkpoint' \in [Scopes -> SUBSET Marks]
      /\ putting' # None => holding' # <<>>
      /\ running' \in {"none", "taking", "item"}
      /\ WorkersInv'
  BY <1>1, <1>2, <1>3, <1>4, <1>5, AfterOfferFacts
<1>8. Offerable(B, uploadQueue, stage)
  BY <1>3, <1>5 DEF Offerable, AccountingInv, TypeOK, QueueInv
<1>9. /\ PendingAccounting' /\ pendingBatches' \in [Scopes -> Nat]
      /\ stage' \in [BatchIds -> Stages] /\ uploadQueue' \in Seq(BatchIds)
      /\ putting' \in BatchIds \cup {None}
      /\ (putting' # None => main' = "flushing" \/ holding' # <<>>) => QueueInv'
  BY <1>2, <1>8, OfferAccounting
<1>10. crawlDone' \subseteq Scopes
  BY <1>1 DEF FlushScope, AccountingInv, TypeOK
<1>11. TypeOK'
  BY <1>4, <1>5, <1>6, <1>7, <1>9, <1>10 DEF AccountingInv, TypeOK, FlushScope
<1> QED BY <1>7, <1>9, <1>11 DEF AccountingInv

(* The batch in hand goes in the queue, and the loop goes on.              *)
LEMMA ResumeOfferable ==
  ASSUME AccountingInv, ResumePut, UNCHANGED catalogQueue
  PROVE /\ OfferBatches(Unsent, Append(uploadQueue, putting), [stage EXCEPT ![putting] = "uploadQueue"])
        /\ Offerable(Unsent, Append(uploadQueue, putting), [stage EXCEPT ![putting] = "uploadQueue"])
<1> DEFINE base == Append(uploadQueue, putting)
           st == [stage EXCEPT ![putting] = "uploadQueue"]
<1>1. /\ putting \in BatchIds /\ stage[putting] = "held"
      /\ uploadQueue \in Seq(BatchIds) /\ Len(uploadQueue) < UploadQueueSize
  BY DEF AccountingInv, TypeOK, QueueInv, ResumePut
<1>2. /\ base \in Seq(BatchIds) /\ Len(base) = Len(uploadQueue) + 1
      /\ \A i \in 1..Len(uploadQueue) : base[i] = uploadQueue[i]
      /\ base[Len(uploadQueue) + 1] = putting
  BY <1>1
<1>3. st \in [BatchIds -> Stages] /\ \A x \in BatchIds : st[x] = IF x = putting THEN "uploadQueue" ELSE stage[x]
  BY <1>1 DEF AccountingInv, TypeOK, Stages
<1>4. \A i \in 1..Len(base) : i \in 1..Len(uploadQueue) \/ i = Len(uploadQueue) + 1
  BY <1>1, <1>2
<1> HIDE DEF base, st
<1>5. \A i \in 1..Len(base) : st[base[i]] = "uploadQueue" /\ base[i] \notin Unsent
  BY <1>1, <1>2, <1>3, <1>4 DEF AccountingInv, QueueInv, Unsent
<1>6. \A i, j \in 1..Len(base) : base[i] = base[j] => i = j
  BY <1>1, <1>2, <1>4 DEF AccountingInv, QueueInv
<1>7. Len(base) <= UploadQueueSize
  BY <1>1, <1>2, SizeAssumption
<1>8. /\ \A x \in Unsent : stage[x] \in {"free", "buffered", "popped"}
      /\ \A x \in BatchIds \ Unsent : st[x] \in Tracked <=> stage[x] \in Tracked
      /\ \A x \in BatchIds : stage[x] = "catalogQueue" => st[x] = "catalogQueue"
      /\ \A x \in BatchIds : stage[x] \in Tracked => owners'[x] = owners[x]
  BY <1>1, <1>3 DEF Unsent, Tracked, Stages, ResumePut
<1>9. Unsent \in SUBSET BatchIds
  BY DEF Unsent
<1>10. Offerable(Unsent, base, st)
  BY <1>2, <1>3, <1>5, <1>6, <1>7, <1>8, <1>9 DEF Offerable
<1> QED BY <1>10 DEF base, st, ResumePut

(* So does the writer that gets room in upload_queue for its batch.        *)
LEMMA PutAccounting ==
  ASSUME AccountingInv, WriterPut
  PROVE AccountingInv'
<1> USE DEF mainVars, crawlVars, writerVars, storeVars, scopeVars, batchVars, uploadVars, catalogVars
<1>1. holding # <<>>
  BY DEF AccountingInv, QueueInv, WriterPut, ResumePut
<1>2. /\ ResumePut /\ AfterOffer(Unsent)
      /\ UNCHANGED <<main, failureEvent, catalogersUp, crawlersUp, catalogQueue, candidate,
                     recordQueue>>
  BY DEF WriterPut, ResumePut
<1>3. candidate' \in [Scopes -> SUBSET Marks] /\ Unsent \in SUBSET BatchIds
  BY <1>2 DEF AccountingInv, TypeOK, Unsent
<1>7. /\ holding' \in Seq(Items) /\ writersUp' \in Nat
      /\ closed' \subseteq Scopes /\ checkpoint' \in [Scopes -> SUBSET Marks]
      /\ putting' # None => holding' # <<>>
      /\ running' \in {"none", "taking", "item"}
      /\ WorkersInv'
  BY <1>1, <1>2, <1>3, AfterOfferFacts
<1>9. /\ PendingAccounting' /\ pendingBatches' \in [Scopes -> Nat]
      /\ stage' \in [BatchIds -> Stages] /\ uploadQueue' \in Seq(BatchIds)
      /\ putting' \in BatchIds \cup {None}
      /\ (putting' # None => main' = "flushing" \/ holding' # <<>>) => QueueInv'
  BY <1>2, ResumeOfferable, OfferAccounting
<1>11. TypeOK'
  BY <1>3, <1>7, <1>9 DEF AccountingInv, TypeOK, WriterPut, ResumePut
<1> QED BY <1>7, <1>9, <1>11 DEF AccountingInv

(* So does a writer that raises: a batch that left the buffer uncounted    *)
(* stays uncounted.                                                        *)
LEMMA RaiseAccounting ==
  ASSUME AccountingInv, WriterRaises \/ HookRaises
  PROVE AccountingInv'
<1> USE DEF mainVars, crawlVars, writerVars, storeVars, scopeVars, batchVars, uploadVars, catalogVars
<1>1. /\ holding # <<>> /\ putting = None /\ Release(TRUE) /\ Faults # {}
      /\ UNCHANGED <<main, putting, catalogersUp, crawlersUp>>
  BY DEF WriterRaises, HookRaises, LockHolder
<1>2. /\ Tail(holding) \in Seq(Items) /\ writersUp - 1 \in Nat
      /\ Len(Tail(holding)) <= writersUp - 1 /\ writersUp - 1 <= WriterCount
      /\ main # "flushing" /\ Live
  BY <1>1, SizeAssumption DEF AccountingInv, TypeOK, WorkersInv
<1>3. WorkersInv'
  BY <1>1, <1>2 DEF WorkersInv, AccountingInv, Live, Release
<1>4. CASE WriterRaises
  <2>1. TypeOK'
    BY <1>2, <1>4 DEF AccountingInv, TypeOK, WriterRaises, Release
  <2> QED BY <1>1, <1>3, <1>4, <2>1, SameBatches DEF WriterRaises
<1>5. CASE HookRaises
  <2> DEFINE item == Head(holding)
             b == BufferOf(item.rec)
  <2>1. /\ item \in [kind : {"record"}, scope : Scopes, rec : Records]
        /\ BufferAdd(item)
    BY <1>5 DEF AccountingInv, TypeOK, HookRaises, LockHolder, Items
  <2>2. /\ b \in BatchIds /\ stage[b] \in {"free", "buffered"}
        /\ recs' \in [BatchIds -> SUBSET Records] /\ owners' \in [BatchIds -> SUBSET Scopes]
        /\ \A x \in BatchIds \ {b} : owners'[x] = owners[x]
    BY <2>1, BufferFacts DEF AccountingInv
  <2>3. PICK full \in BOOLEAN :
          stage' = [stage EXCEPT ![b] = IF full THEN "dropped" ELSE "buffered"]
    BY <1>5 DEF HookRaises
  <2>4. stage' \in [BatchIds -> Stages] /\ stage'[b] \in {"dropped", "buffered"}
        /\ \A x \in BatchIds \ {b} : stage'[x] = stage[x]
    BY <2>2, <2>3 DEF AccountingInv, TypeOK, Stages
  <2>5. /\ failureEvent' = TRUE /\ Release(TRUE)
        /\ UNCHANGED <<main, stops, pills, sent, crawlVars, recordQueue, putting, sinceFlush,
                       uploadQueue, uploadVars, catalogQueue, catalogVars, durable, scopeVars>>
    BY <1>5 DEF HookRaises
  <2> HIDE DEF b, item
  <2>6. TypeOK'
    BY <1>2, <2>2, <2>4, <2>5 DEF AccountingInv, TypeOK, Release
  <2>7. PendingAccounting'
    <3>1. \A x \in BatchIds : stage'[x] \in Tracked <=> stage[x] \in Tracked
      BY <2>2, <2>4 DEF Tracked
    <3>2. \A x \in BatchIds : stage[x] \in Tracked => owners'[x] = owners[x]
      BY <2>2 DEF Tracked
    <3> QED BY <2>5, <3>1, <3>2, SameCounts DEF AccountingInv
  <2>8. QueueInv'
    <3>1. \A i \in 1..Len(uploadQueue) : stage'[uploadQueue[i]] = "uploadQueue"
      BY <2>2, <2>4 DEF AccountingInv, QueueInv, TypeOK
    <3>2. \A i \in 1..Len(catalogQueue) : stage'[catalogQueue[i]] = "catalogQueue"
      BY <2>2, <2>4 DEF AccountingInv, QueueInv, TypeOK
    <3> QED BY <1>1, <2>5, <3>1, <3>2 DEF AccountingInv, QueueInv
  <2> QED BY <1>3, <2>6, <2>7, <2>8 DEF AccountingInv
<1> QED BY <1>4, <1>5

(* A step of the upload or catalog workers moves one batch.                *)
LEMMA MovedBatch ==
  ASSUME AccountingInv, TypeOK', NEW b \in BatchIds,
         stage'[b] # stage[b], stage[b] # "held",
         \A x \in BatchIds \ {b} : stage'[x] = stage[x],
         stage[b] = "uploadQueue" =>
           uploadQueue # <<>> /\ b = Head(uploadQueue) /\ uploadQueue' = Tail(uploadQueue),
         stage[b] # "uploadQueue" => UNCHANGED uploadQueue,
         stage[b] = "catalogQueue" =>
           catalogQueue # <<>> /\ b = Head(catalogQueue) /\ catalogQueue' = Tail(catalogQueue),
         stage'[b] = "catalogQueue" => catalogQueue' = Append(catalogQueue, b),
         stage[b] # "catalogQueue" /\ stage'[b] # "catalogQueue" => UNCHANGED catalogQueue,
         UNCHANGED <<putting, holding, main>>
  PROVE QueueInv'
<1>1. /\ Len(uploadQueue') <= UploadQueueSize
      /\ \A i \in 1..Len(uploadQueue') : stage'[uploadQueue'[i]] = "uploadQueue"
      /\ \A i, j \in 1..Len(uploadQueue') : uploadQueue'[i] = uploadQueue'[j] => i = j
  <2>1. CASE stage[b] = "uploadQueue"
    <3>1. /\ uploadQueue' = Tail(uploadQueue) /\ uploadQueue # <<>>
          /\ b = Head(uploadQueue) /\ uploadQueue \in Seq(BatchIds)
      BY <2>1 DEF AccountingInv, TypeOK
    <3>2. \A i \in 1..Len(uploadQueue') : uploadQueue'[i] # b /\ stage[uploadQueue'[i]] = "uploadQueue"
      BY <3>1, TailFacts DEF AccountingInv, QueueInv
    <3>3. \A i, j \in 1..Len(uploadQueue') : uploadQueue'[i] = uploadQueue'[j] => i = j
      BY <3>1, TailFacts DEF AccountingInv, QueueInv
    <3>4. \A i \in 1..Len(uploadQueue') : uploadQueue'[i] \in BatchIds
      BY DEF TypeOK
    <3>5. Len(uploadQueue') <= UploadQueueSize
      BY <3>1, TailFacts, SizeAssumption DEF AccountingInv, QueueInv
    <3>6. \A i \in 1..Len(uploadQueue') : stage'[uploadQueue'[i]] = "uploadQueue"
      BY <3>2, <3>4
    <3> QED BY <3>3, <3>5, <3>6
  <2>2. CASE stage[b] # "uploadQueue"
    <3>1. uploadQueue' = uploadQueue /\ \A i \in 1..Len(uploadQueue) : uploadQueue[i] \in BatchIds
      BY <2>2 DEF AccountingInv, TypeOK
    <3>2. \A i \in 1..Len(uploadQueue) : stage'[uploadQueue[i]] = "uploadQueue"
      BY <2>2, <3>1 DEF AccountingInv, QueueInv
    <3> QED BY <3>1, <3>2 DEF AccountingInv, QueueInv
  <2> QED BY <2>1, <2>2
<1>2. /\ \A i \in 1..Len(catalogQueue') : stage'[catalogQueue'[i]] = "catalogQueue"
      /\ \A i, j \in 1..Len(catalogQueue') : catalogQueue'[i] = catalogQueue'[j] => i = j
  <2>1. CASE stage[b] = "catalogQueue"
    <3>1. /\ catalogQueue' = Tail(catalogQueue) /\ catalogQueue # <<>>
          /\ b = Head(catalogQueue) /\ catalogQueue \in Seq(BatchIds)
      BY <2>1 DEF AccountingInv, TypeOK
    <3>2. \A i \in 1..Len(catalogQueue') : catalogQueue'[i] # b /\ stage[catalogQueue'[i]] = "catalogQueue"
      BY <3>1, TailFacts DEF AccountingInv, QueueInv
    <3>3. \A i, j \in 1..Len(catalogQueue') : catalogQueue'[i] = catalogQueue'[j] => i = j
      BY <3>1, TailFacts DEF AccountingInv, QueueInv
    <3>4. \A i \in 1..Len(catalogQueue') : catalogQueue'[i] \in BatchIds
      BY DEF TypeOK
    <3> QED BY <3>2, <3>3, <3>4
  <2>2. CASE stage'[b] = "catalogQueue"
    <3>1. /\ catalogQueue' = Append(catalogQueue, b) /\ catalogQueue \in Seq(BatchIds)
          /\ Len(catalogQueue) \in Nat
      BY <2>2 DEF AccountingInv, TypeOK
    <3>2. \A i \in 1..Len(catalogQueue) : /\ catalogQueue[i] # b /\ catalogQueue[i] \in BatchIds
                                          /\ stage'[catalogQueue[i]] = "catalogQueue"
                                          /\ catalogQueue'[i] = catalogQueue[i]
      BY <3>1, <2>2, AppendFacts DEF AccountingInv, QueueInv
    <3>3. \A i \in 1..Len(catalogQueue') : 
            \/ i \in 1..Len(catalogQueue)
            \/ i = Len(catalogQueue) + 1 /\ catalogQueue'[i] = b
      BY <3>1, AppendFacts
    <3>4. \A i, j \in 1..Len(catalogQueue') : catalogQueue'[i] = catalogQueue'[j] => i = j
      BY <3>2, <3>3 DEF AccountingInv, QueueInv
    <3>5. \A i \in 1..Len(catalogQueue') : stage'[catalogQueue'[i]] = "catalogQueue"
      BY <2>2, <3>2, <3>3
    <3> QED BY <3>4, <3>5
  <2>3. CASE stage[b] # "catalogQueue" /\ stage'[b] # "catalogQueue"
    <3>1. catalogQueue' = catalogQueue /\ \A i \in 1..Len(catalogQueue) : catalogQueue[i] \in BatchIds
      BY <2>3 DEF AccountingInv, TypeOK
    <3>2. \A i \in 1..Len(catalogQueue) : stage'[catalogQueue[i]] = "catalogQueue"
      BY <2>3, <3>1 DEF AccountingInv, QueueInv
    <3> QED BY <3>1, <3>2 DEF AccountingInv, QueueInv
  <2> QED BY <2>1, <2>2, <2>3
<1> QED BY <1>1, <1>2 DEF AccountingInv, QueueInv, TypeOK

(* The steps of an upload worker keep the accounting.                      *)
LEMMA UploadAccounting ==
  ASSUME AccountingInv, NEW u \in Uploaders, UploadWorker(u) \/ UploadRaises(u)
  PROVE AccountingInv'
<1> USE DEF mainVars, crawlVars, writerVars, storeVars, scopeVars, batchVars, uploadVars, catalogVars
<1>1. CASE UploaderSentinel(u)
  <2>1. TypeOK'
    BY <1>1 DEF AccountingInv, TypeOK, UploaderSentinel
  <2>2. WorkersInv'
    BY <1>1 DEF AccountingInv, WorkersInv, UploaderSentinel, Live, IdleWriter
  <2> QED BY <1>1, <2>1, <2>2, SameBatches DEF AccountingInv, QueueInv, UploaderSentinel
<1>2. CASE UploaderGet(u)
  <2> DEFINE b == Head(uploadQueue)
  <2>1. /\ b \in BatchIds /\ stage[b] = "uploadQueue" /\ b = Head(uploadQueue)
        /\ uploadQueue # <<>> /\ uploadQueue' = Tail(uploadQueue) /\ uploadQueue' \in Seq(BatchIds)
    BY <1>2, TailFacts DEF AccountingInv, TypeOK, QueueInv, UploaderGet
  <2>2. /\ stage' \in [BatchIds -> Stages] /\ stage'[b] \in {"lost", "uploading"}
        /\ \A x \in BatchIds \ {b} : stage'[x] = stage[x]
    BY <1>2, <2>1 DEF UploaderGet, AccountingInv, TypeOK, Stages
  <2>3. uploadersUp' \subseteq Uploaders /\ uploading' \in [Uploaders -> BatchIds \cup {None}]
    BY <1>2, <2>1 DEF UploaderGet, AccountingInv, TypeOK
  <2>4. UNCHANGED <<mainVars, crawlVars, recordQueue, writerVars, recs, owners, catalogQueue,
                    catalogVars, durable, scopeVars>>
    BY <1>2 DEF UploaderGet
  <2> HIDE DEF b
  <2>5. TypeOK'
    BY <2>1, <2>2, <2>3, <2>4 DEF AccountingInv, TypeOK
  <2>6. QueueInv'
    BY <2>1, <2>2, <2>4, <2>5, MovedBatch
  <2>7. PendingAccounting'
    BY <2>1, <2>2, <2>4, SameCounts DEF AccountingInv, Tracked, Stages
  <2>8. WorkersInv'
    BY <2>4 DEF AccountingInv, WorkersInv, Live, IdleWriter
  <2> QED BY <2>5, <2>6, <2>7, <2>8 DEF AccountingInv
<1>3. CASE Upload(u) \/ UploadRaises(u)
  <2> DEFINE b == uploading[u]
  <2>1. b \in BatchIds /\ stage[b] = "uploading"
    BY <1>3 DEF Upload, UploadRaises, AccountingInv, TypeOK
  <2>2. /\ stage' \in [BatchIds -> Stages] /\ stage'[b] \in {"lost", "uploaded"}
        /\ \A x \in BatchIds \ {b} : stage'[x] = stage[x]
    BY <1>3, <2>1 DEF Upload, UploadRaises, AccountingInv, TypeOK, Stages
  <2>3. uploadersUp' \subseteq Uploaders /\ uploading' \in [Uploaders -> BatchIds \cup {None}]
    BY <1>3 DEF Upload, UploadRaises, AccountingInv, TypeOK
  <2>4. /\ UNCHANGED <<main, stops, pills, sent, crawlVars, recordQueue, writerVars, recs, owners,
                       uploadQueue, catalogQueue, catalogVars, durable, scopeVars>>
        /\ failureEvent' = failureEvent \/ (failureEvent' = TRUE /\ Faults # {})
    <3>1. CASE Upload(u)
      BY <3>1 DEF Upload
    <3>2. CASE UploadRaises(u)
      BY <3>2 DEF UploadRaises
    <3> QED BY <1>3, <3>1, <3>2
  <2> HIDE DEF b
  <2>5. TypeOK'
    BY <2>2, <2>3, <2>4 DEF AccountingInv, TypeOK
  <2>6. QueueInv'
    BY <2>1, <2>2, <2>4, <2>5, MovedBatch
  <2>7. PendingAccounting'
    BY <2>1, <2>2, <2>4, SameCounts DEF AccountingInv, Tracked, Stages
  <2>8. WorkersInv'
    BY <2>4 DEF AccountingInv, WorkersInv, Live, IdleWriter
  <2> QED BY <2>5, <2>6, <2>7, <2>8 DEF AccountingInv
<1>4. CASE PutCatalogJob(u)
  <2> DEFINE b == uploading[u]
  <2>1. b \in BatchIds /\ stage[b] = "uploaded"
    BY <1>4 DEF PutCatalogJob, AccountingInv, TypeOK
  <2>2. /\ stage' \in [BatchIds -> Stages] /\ stage'[b] = "catalogQueue"
        /\ \A x \in BatchIds \ {b} : stage'[x] = stage[x]
        /\ catalogQueue' = Append(catalogQueue, b)
    BY <1>4, <2>1 DEF PutCatalogJob, AccountingInv, TypeOK, Stages
  <2>3. /\ catalogQueue' \in Seq(BatchIds) /\ uploading' \in [Uploaders -> BatchIds \cup {None}]
    BY <1>4, <2>1 DEF PutCatalogJob, AccountingInv, TypeOK
  <2>4. UNCHANGED <<mainVars, crawlVars, recordQueue, writerVars, recs, owners, uploadQueue,
                    uploadersUp, catalogVars, durable, scopeVars>>
    BY <1>4 DEF PutCatalogJob
  <2> HIDE DEF b
  <2>5. TypeOK'
    BY <2>2, <2>3, <2>4 DEF AccountingInv, TypeOK
  <2>6. QueueInv'
    BY <2>1, <2>2, <2>4, <2>5, MovedBatch
  <2>7. PendingAccounting'
    BY <2>1, <2>2, <2>4, SameCounts DEF AccountingInv, Tracked, Stages
  <2>8. WorkersInv'
    BY <2>4 DEF AccountingInv, WorkersInv, Live, IdleWriter
  <2> QED BY <2>5, <2>6, <2>7, <2>8 DEF AccountingInv
<1> QED BY <1>1, <1>2, <1>3, <1>4 DEF UploadWorker

(* Looking at scopes for completion keeps the types of what it writes.     *)
LEMMA CompleteTypes ==
  ASSUME TypeOK, NEW S \in SUBSET Scopes, CompleteIfReady(S),
         candidate' \in [Scopes -> SUBSET Marks]
  PROVE closed' \subseteq Scopes /\ checkpoint' \in [Scopes -> SUBSET Marks]
  BY DEF CompleteIfReady, TypeOK

(* The steps of a catalog worker keep the accounting; _complete_batch      *)
(* takes exactly one batch off each of its scopes.                         *)
LEMMA CatalogAccounting ==
  ASSUME AccountingInv, NEW k \in Catalogers, CatalogWorker(k) \/ CatalogRaises(k)
  PROVE AccountingInv'
<1> USE DEF mainVars, crawlVars, writerVars, storeVars, scopeVars, batchVars, uploadVars, catalogVars
<1>1. CASE CatalogerSentinel(k)
  <2>1. TypeOK'
    BY <1>1 DEF AccountingInv, TypeOK, CatalogerSentinel
  <2>2. WorkersInv'
    BY <1>1 DEF AccountingInv, WorkersInv, CatalogerSentinel, Live, IdleWriter
  <2> QED BY <1>1, <2>1, <2>2, SameBatches DEF AccountingInv, QueueInv, CatalogerSentinel
<1>2. CASE CatalogerGet(k)
  <2> DEFINE b == Head(catalogQueue)
  <2>1. /\ b \in BatchIds /\ stage[b] = "catalogQueue" /\ b = Head(catalogQueue)
        /\ catalogQueue # <<>> /\ catalogQueue' = Tail(catalogQueue) /\ catalogQueue' \in Seq(BatchIds)
    BY <1>2, TailFacts DEF AccountingInv, TypeOK, QueueInv, CatalogerGet
  <2>2. /\ stage' \in [BatchIds -> Stages] /\ stage'[b] \in {"lost", "cataloging"}
        /\ \A x \in BatchIds \ {b} : stage'[x] = stage[x]
    BY <1>2, <2>1 DEF CatalogerGet, AccountingInv, TypeOK, Stages
  <2>3. /\ catalogersUp' \subseteq Catalogers /\ catalogersUp' \subseteq catalogersUp
        /\ cataloging' \in [Catalogers -> BatchIds \cup {None}]
    BY <1>2, <2>1 DEF CatalogerGet, AccountingInv, TypeOK
  <2>4. UNCHANGED <<mainVars, crawlVars, recordQueue, writerVars, recs, owners, uploadQueue,
                    uploadVars, durable, scopeVars>>
    BY <1>2 DEF CatalogerGet
  <2> HIDE DEF b
  <2>5. TypeOK'
    BY <2>1, <2>2, <2>3, <2>4 DEF AccountingInv, TypeOK
  <2>6. QueueInv'
    BY <2>1, <2>2, <2>4, <2>5, MovedBatch
  <2>7. PendingAccounting'
    BY <2>1, <2>2, <2>4, SameCounts DEF AccountingInv, Tracked, Stages
  <2>8. WorkersInv'
    BY <2>3, <2>4 DEF AccountingInv, WorkersInv, Live, IdleWriter
  <2> QED BY <2>5, <2>6, <2>7, <2>8 DEF AccountingInv
<1>3. CASE CommitBatch(k) \/ CatalogRaises(k)
  <2> DEFINE b == cataloging[k]
  <2>1. b \in BatchIds /\ stage[b] = "cataloging"
    BY <1>3 DEF CommitBatch, CatalogRaises, AccountingInv, TypeOK
  <2>2. /\ stage' \in [BatchIds -> Stages] /\ stage'[b] \in {"lost", "committed"}
        /\ \A x \in BatchIds \ {b} : stage'[x] = stage[x]
    BY <1>3, <2>1 DEF CommitBatch, CatalogRaises, AccountingInv, TypeOK, Stages
  <2>3. /\ catalogersUp' \subseteq Catalogers /\ catalogersUp' \subseteq catalogersUp
        /\ cataloging' \in [Catalogers -> BatchIds \cup {None}] /\ durable' \subseteq Records
    BY <1>3 DEF CommitBatch, CatalogRaises, AccountingInv, TypeOK
  <2>4. /\ UNCHANGED <<main, stops, pills, sent, crawlVars, recordQueue, writerVars, recs, owners,
                       uploadQueue, uploadVars, catalogQueue, scopeVars>>
        /\ failureEvent' = failureEvent \/ (failureEvent' = TRUE /\ Faults # {})
    <3>1. CASE CommitBatch(k)
      BY <3>1 DEF CommitBatch
    <3>2. CASE CatalogRaises(k)
      BY <3>2 DEF CatalogRaises
    <3> QED BY <1>3, <3>1, <3>2
  <2> HIDE DEF b
  <2>5. TypeOK'
    BY <2>2, <2>3, <2>4 DEF AccountingInv, TypeOK
  <2>6. QueueInv'
    BY <2>1, <2>2, <2>4, <2>5, MovedBatch
  <2>7. PendingAccounting'
    BY <2>1, <2>2, <2>4, SameCounts DEF AccountingInv, Tracked, Stages
  <2>8. WorkersInv'
    BY <2>3, <2>4 DEF AccountingInv, WorkersInv, Live, IdleWriter
  <2> QED BY <2>5, <2>6, <2>7, <2>8 DEF AccountingInv
<1>4. CASE CompleteBatch(k)
  <2> DEFINE b == cataloging[k]
  <2>1. b \in BatchIds /\ stage[b] = "committed"
    BY <1>4 DEF CompleteBatch, AccountingInv, TypeOK
  <2>2. /\ stage' \in [BatchIds -> Stages] /\ stage'[b] = "done"
        /\ \A x \in BatchIds \ {b} : stage'[x] = stage[x]
        /\ pendingBatches' = [s \in Scopes |-> IF s \in owners[b] THEN pendingBatches[s] - 1
                                               ELSE pendingBatches[s]]
    BY <1>4, <2>1 DEF CompleteBatch, AccountingInv, TypeOK, Stages
  <2>3. cataloging' \in [Catalogers -> BatchIds \cup {None}]
    BY <1>4 DEF CompleteBatch, AccountingInv, TypeOK
  <2>4. UNCHANGED <<mainVars, crawlVars, recordQueue, writerVars, recs, owners, uploadQueue,
                    uploadVars, catalogQueue, catalogersUp, durable, crawlDone, skipped, candidate>>
    BY <1>4 DEF CompleteBatch
  <2>5. CompleteIfReady(owners[b]) /\ owners[b] \in SUBSET Scopes
    BY <1>4, <2>1 DEF CompleteBatch, AccountingInv, TypeOK
  <2> HIDE DEF b
  <2>6. closed' \subseteq Scopes /\ checkpoint' \in [Scopes -> SUBSET Marks]
    BY <2>4, <2>5, CompleteTypes DEF AccountingInv, TypeOK
  <2>7. PendingAccounting' /\ pendingBatches' \in [Scopes -> Nat]
    BY <2>1, <2>2, <2>4, CompletedCounts DEF AccountingInv, TypeOK, Tracked, Stages
  <2>8. TypeOK'
    BY <2>2, <2>3, <2>4, <2>6, <2>7 DEF AccountingInv, TypeOK
  <2>9. QueueInv'
    BY <2>1, <2>2, <2>4, <2>8, MovedBatch
  <2>10. WorkersInv'
    BY <2>4 DEF AccountingInv, WorkersInv, Live, IdleWriter
  <2> QED BY <2>7, <2>8, <2>9, <2>10 DEF AccountingInv
<1> QED BY <1>1, <1>2, <1>3, <1>4 DEF CatalogWorker

(* The stage changes of run_dataset, its sentinels and its cancellation of *)
(* the tasks keep the accounting.                                          *)
LEMMA MainAccounting ==
  ASSUME AccountingInv, CrawlOver \/ PutSentinel \/ UploadOver \/ CatalogOver \/ FailFast
  PROVE AccountingInv'
<1> USE DEF mainVars, crawlVars, writerVars, storeVars, scopeVars, batchVars, uploadVars, catalogVars
<1>1. CASE FailFast
  <2>1. TypeOK'
    BY <1>1 DEF AccountingInv, TypeOK, FailFast, CancelTasks, MainStages
  <2>2. WorkersInv'
    BY <1>1, SizeAssumption DEF AccountingInv, WorkersInv, TypeOK, FailFast, CancelTasks, Live
  <2> QED BY <1>1, <2>1, <2>2, SameBatches DEF FailFast, CancelTasks
<1>2. CASE CrawlOver \/ PutSentinel \/ UploadOver \/ CatalogOver
  <2>a. /\ main' \in MainStages /\ pills' \in Nat /\ sent' \in Nat
        /\ UNCHANGED <<failureEvent, stops, crawlVars, recordQueue, writerVars, storeVars, scopeVars>>
    BY <1>2 DEF AccountingInv, TypeOK, CrawlOver, PutSentinel, UploadOver, CatalogOver, MainStages
  <2>1. TypeOK'
    BY <2>a DEF AccountingInv, TypeOK
  <2>2. /\ UNCHANGED <<failureEvent, crawlersUp, catalogersUp, writerVars, stage, owners,
                       recordQueue, uploadQueue, catalogQueue, pendingBatches>>
        /\ main \notin {"flushing", "raised", "aborted"}
        /\ main' \notin {"flushing", "raised", "aborted"}
    BY <1>2 DEF CrawlOver, PutSentinel, UploadOver, CatalogOver, StageOver
  <2>3. WorkersInv'
    BY <2>2 DEF AccountingInv, WorkersInv, Live, IdleWriter
  <2> QED BY <2>1, <2>2, <2>3, SameBatches DEF AccountingInv, QueueInv
<1> QED BY <1>1, <1>2

(* So does flush_all with the puts that follow it.                         *)
LEMMA MainOfferAccounting ==
  ASSUME AccountingInv, FlushAll \/ MainPut \/ MainPutRaises
  PROVE AccountingInv'
<1> USE DEF mainVars, crawlVars, writerVars, storeVars, scopeVars, batchVars, uploadVars, catalogVars
<1> DEFINE Results ==
             /\ PendingAccounting' /\ pendingBatches' \in [Scopes -> Nat]
             /\ stage' \in [BatchIds -> Stages] /\ uploadQueue' \in Seq(BatchIds)
             /\ putting' # None => ~failureEvent
             /\ putting' \in BatchIds \cup {None}
             /\ (putting' # None => main' = "flushing" \/ holding' # <<>>) => QueueInv'
<1>1. CASE FlushAll
  <2>1. Offerable(Leftover, uploadQueue, stage)
    BY <1>1 DEF Offerable, AccountingInv, TypeOK, QueueInv, FlushAll, Leftover
  <2>2. Results
    BY <1>1, <2>1, OfferAccounting DEF FlushAll
  <2>3. main = "writing" /\ writersUp = 0 /\ MainAfterOffer
    BY <1>1 DEF FlushAll, StageOver
  <2>4. /\ UNCHANGED <<failureEvent, stops, pills, crawlVars, recordQueue, holding, running,
                       writersUp, sinceFlush, uploadVars, catalogQueue, catalogVars, durable,
                       crawlDone, skipped, candidate, closed, checkpoint, recs, owners>>
    BY <1>1 DEF FlushAll
  <2>5. main' \in {"flushing", "uploadPills"} /\ sent' \in Nat /\ (putting' # None => main' = "flushing")
    BY <2>3 DEF MainAfterOffer, AccountingInv, TypeOK
  <2>6. TypeOK'
    BY <2>2, <2>4, <2>5 DEF AccountingInv, TypeOK, MainStages
  <2>7. WorkersInv'
    <3>1. running = "none"
      BY <2>3 DEF AccountingInv, WorkersInv, TypeOK, IdleWriter
    <3> QED BY <3>1, <2>3, <2>4, <2>5 DEF AccountingInv, WorkersInv, Live, IdleWriter
  <2> QED BY <2>2, <2>5, <2>6, <2>7 DEF AccountingInv
<1>2. CASE MainPut
  <2>2. Results
    BY <1>2, ResumeOfferable, OfferAccounting DEF MainPut
  <2>3. main = "flushing" /\ MainAfterOffer
    BY <1>2 DEF MainPut
  <2>4. /\ UNCHANGED <<failureEvent, stops, pills, crawlVars, recordQueue, holding, running,
                       writersUp, sinceFlush, uploadVars, catalogQueue, catalogVars, durable,
                       crawlDone, skipped, candidate, closed, checkpoint, recs, owners>>
    BY <1>2 DEF MainPut, ResumePut
  <2>5. main' \in {"flushing", "uploadPills"} /\ sent' \in Nat /\ (putting' # None => main' = "flushing")
    BY <2>3 DEF MainAfterOffer, AccountingInv, TypeOK
  <2>6. TypeOK'
    BY <2>2, <2>4, <2>5 DEF AccountingInv, TypeOK, MainStages
  <2>7. WorkersInv'
    <3>1. running = "none"
      BY <2>3 DEF AccountingInv, WorkersInv, TypeOK, IdleWriter
    <3> QED BY <3>1, <2>3, <2>4, <2>5 DEF AccountingInv, WorkersInv, Live, IdleWriter
  <2> QED BY <2>2, <2>5, <2>6, <2>7 DEF AccountingInv
<1>3. CASE MainPutRaises
  <2>1. /\ ResumePut /\ CancelTasks /\ main' = "raised" /\ failureEvent
        /\ UNCHANGED <<failureEvent, catalogQueue>>
    BY <1>3 DEF MainPutRaises, CancelTasks
  <2>2. Results
    BY <2>1, ResumeOfferable, OfferAccounting
  <2>3. putting' = None
    BY <2>1, <2>2
  <2>4. /\ crawlersUp' = {} /\ writersUp' = 0 /\ uploadersUp' = {} /\ catalogersUp' = {}
        /\ holding' = <<>> /\ running' = "none"
        /\ UNCHANGED <<failureEvent, stops, pills, sent, discovery, scopeQueue, crawling, offer,
                       crawled, exhausted, recordQueue, sinceFlush, recs, owners, uploading,
                       catalogQueue, cataloging, durable, crawlDone, skipped, candidate, closed,
                       checkpoint>>
    BY <2>1 DEF CancelTasks
  <2>5. TypeOK'
    BY <2>1, <2>2, <2>4 DEF AccountingInv, TypeOK, MainStages
  <2>6. WorkersInv'
    BY <2>1, <2>3, <2>4, SizeAssumption DEF AccountingInv, WorkersInv, Live, IdleWriter
  <2> QED BY <2>2, <2>3, <2>5, <2>6 DEF AccountingInv
<1> QED BY <1>1, <1>2, <1>3

(* So do discovery, crawl failures and shutdown requests.                  *)
LEMMA OtherAccounting ==
  ASSUME AccountingInv,
         \/ \E plan \in SUBSET Resumable : Discover(plan)
         \/ DiscoverRaises \/ RequestShutdown
         \/ \E c \in Crawlers : CrawlRaises(c)
  PROVE AccountingInv'
<1> USE DEF mainVars, crawlVars, writerVars, storeVars, scopeVars, batchVars, uploadVars, catalogVars
<1>1. CASE (\E plan \in SUBSET Resumable : Discover(plan)) \/ DiscoverRaises
  <2>1. TypeOK'
    BY <1>1 DEF AccountingInv, TypeOK, Discover, DiscoverRaises, Resumable
  <2>2. /\ UNCHANGED <<main, failureEvent, crawlersUp, catalogersUp, writerVars, stage, owners,
                       recordQueue, uploadQueue, catalogQueue, pendingBatches>>
    BY <1>1 DEF Discover, DiscoverRaises
  <2>3. WorkersInv'
    BY <2>2 DEF AccountingInv, WorkersInv, Live, IdleWriter
  <2> QED BY <2>1, <2>2, <2>3, SameBatches DEF AccountingInv, QueueInv
<1>2. CASE RequestShutdown
  <2>1. TypeOK'
    BY <1>2, SizeAssumption DEF AccountingInv, TypeOK, RequestShutdown
  <2>2. /\ UNCHANGED <<main, failureEvent, crawlersUp, catalogersUp, writerVars, stage, owners,
                       recordQueue, uploadQueue, catalogQueue, pendingBatches>>
    BY <1>2 DEF RequestShutdown
  <2>3. WorkersInv'
    BY <2>2 DEF AccountingInv, WorkersInv, Live, IdleWriter
  <2> QED BY <2>1, <2>2, <2>3, SameBatches DEF AccountingInv, QueueInv
<1>3. ASSUME NEW c \in Crawlers, CrawlRaises(c) PROVE AccountingInv'
  <2>1. /\ UNCHANGED <<main, stops, pills, sent, discovery, scopeQueue, crawling, offer, crawled,
                 exhausted, recordQueue, writerVars, storeVars, scopeVars>>
        /\ crawlersUp' = crawlersUp \ {c} /\ Faults # {}
        /\ failureEvent' = (failureEvent \/ ~StopRequested)
    BY <1>3 DEF CrawlRaises
  <2>2. failureEvent' \in BOOLEAN
    BY <2>1
  <2>3. TypeOK'
    BY <2>1, <2>2 DEF AccountingInv, TypeOK
  <2>4. WorkersInv'
    BY <2>1 DEF AccountingInv, WorkersInv, Live, IdleWriter
  <2> QED BY <2>1, <2>3, <2>4, SameBatches DEF AccountingInv, QueueInv
<1> QED BY <1>1, <1>2, <1>3

(* So does what still happens after the tasks were cancelled.              *)
LEMMA AfterEndAccounting ==
  ASSUME AccountingInv,
         \/ \E k \in Catalogers : OrphanCommit(k)
         \/ \E b \in BatchIds : FinalFlush(b)
  PROVE AccountingInv'
<1> USE DEF mainVars, crawlVars, writerVars, storeVars, scopeVars, batchVars, uploadVars, catalogVars
<1>1. PICK b \in BatchIds :
        /\ stage[b] \in {"cataloging", "buffered"}
        /\ stage' = [stage EXCEPT ![b] = IF stage[b] = "buffered" THEN "done" ELSE "lost"]
        /\ durable' = durable \cup recs[b]
  <2>1. ASSUME NEW k \in Catalogers, OrphanCommit(k)
        PROVE /\ cataloging[k] \in BatchIds /\ stage[cataloging[k]] = "cataloging"
              /\ stage' = [stage EXCEPT ![cataloging[k]] = "lost"]
              /\ durable' = durable \cup recs[cataloging[k]]
    BY <2>1 DEF OrphanCommit, AccountingInv, TypeOK
  <2>2. ASSUME NEW b \in BatchIds, FinalFlush(b)
        PROVE /\ stage[b] = "buffered" /\ stage' = [stage EXCEPT ![b] = "done"]
              /\ durable' = durable \cup recs[b]
    BY <2>2 DEF FinalFlush
  <2> QED BY <2>1, <2>2
<1>2. UNCHANGED <<mainVars, crawlVars, recordQueue, writerVars, recs, owners, uploadQueue,
                 uploadVars, catalogQueue, catalogVars, scopeVars>>
  BY DEF OrphanCommit, FinalFlush
<1>3. /\ stage' \in [BatchIds -> Stages] /\ durable' \subseteq Records
      /\ stage'[b] \in {"done", "lost"} /\ (stage'[b] = "lost" <=> stage[b] = "cataloging")
      /\ \A x \in BatchIds \ {b} : stage'[x] = stage[x]
  BY <1>1 DEF AccountingInv, TypeOK, Stages
<1>4. TypeOK'
  BY <1>2, <1>3 DEF AccountingInv, TypeOK
<1>5. QueueInv'
  BY <1>1, <1>2, <1>3, <1>4, MovedBatch
<1>6. PendingAccounting'
  BY <1>1, <1>2, <1>3, SameCounts DEF AccountingInv, Tracked, Stages
<1>7. WorkersInv'
  BY <1>2 DEF AccountingInv, WorkersInv, Live, IdleWriter
<1> QED BY <1>4, <1>5, <1>6, <1>7 DEF AccountingInv

(* A run starts with exact, empty accounts.                                *)
LEMMA InitAccounting ==
  ASSUME Init PROVE AccountingInv
<1> USE DEF Init
<1>1. candidate \in [Scopes -> SUBSET Marks] /\ durable \subseteq Records
  BY DataAssumption DEF Marks
<1>2. TypeOK
  <2>1. /\ main \in MainStages /\ failureEvent \in BOOLEAN /\ stops \in 0..2
        /\ pills \in Nat /\ sent \in Nat /\ writersUp \in Nat /\ sinceFlush \in Nat
        /\ discovery \in {"running", "done", "failed"}
    <3>1. failureEvent \in BOOLEAN /\ main \in MainStages /\ discovery \in {"running", "done", "failed"}
      BY Zenon DEF MainStages
    <3>2. stops \in 0..2 /\ pills \in Nat /\ sent \in Nat /\ writersUp \in Nat /\ sinceFlush \in Nat
      BY SizeAssumption
    <3> QED BY <3>1, <3>2
  <2>2. /\ crawling \in [Crawlers -> Scopes \cup {None}]
        /\ offer \in [Crawlers -> Items \cup {None}]
        /\ crawled \in [Scopes -> SUBSET Records] /\ skipped \in [Scopes -> SUBSET Records]
        /\ stage \in [BatchIds -> Stages] /\ pendingBatches \in [Scopes -> Nat]
        /\ recs \in [BatchIds -> SUBSET Records] /\ owners \in [BatchIds -> SUBSET Scopes]
        /\ uploading \in [Uploaders -> BatchIds \cup {None}]
        /\ cataloging \in [Catalogers -> BatchIds \cup {None}]
    BY DEF Stages
  <2>3. /\ recordQueue \in Seq(Items) /\ holding \in Seq(Items)
        /\ uploadQueue \in Seq(BatchIds) /\ catalogQueue \in Seq(BatchIds)
    OBVIOUS
  <2>4. checkpoint \in [Scopes -> SUBSET Marks]
    BY <1>1
  <2> QED BY <1>1, <2>1, <2>2, <2>3, <2>4 DEF TypeOK
<1>3. WorkersInv
  BY SizeAssumption DEF WorkersInv, Live
<1>4. QueueInv
  BY SizeAssumption DEF QueueInv
<1>5. PendingAccounting
  <2>1. \A s \in Scopes : PendingOf(s) = {}
    BY DEF PendingOf, Tracked
  <2> QED BY <2>1, FS_EmptySet DEF PendingAccounting
<1> QED BY <1>2, <1>3, <1>4, <1>5 DEF AccountingInv

(* A step is one of a task that was suspended, or of the lock's holder.    *)
LEMMA StepKinds == Next => Resumed \/ HoldLock \/ HolderRaises
  BY DEF Next, ThreadCommits, Resumed, CatalogWorker, Unforced

(* No step of the runtime, under any failure, stop or order of the         *)
(* workers, breaks the accounting.                                         *)
THEOREM AccountingStep == AccountingInv /\ [Next]_vars => AccountingInv'
<1> SUFFICES ASSUME AccountingInv, [Next]_vars PROVE AccountingInv'
  OBVIOUS
<1>1. CASE UNCHANGED vars
  <2>1. TypeOK'
    BY <1>1 DEF vars, mainVars, crawlVars, writerVars, storeVars, scopeVars, batchVars, uploadVars,
                catalogVars, AccountingInv, TypeOK
  <2>2. WorkersInv'
    BY <1>1 DEF vars, mainVars, crawlVars, writerVars, storeVars, scopeVars, batchVars, uploadVars,
                catalogVars, AccountingInv, WorkersInv, Live, IdleWriter
  <2> QED BY <1>1, <2>1, <2>2, SameBatches
          DEF vars, mainVars, writerVars, storeVars, scopeVars, batchVars, AccountingInv, QueueInv
<1>2. ASSUME NEW c \in Crawlers, Crawl(c) PROVE AccountingInv'
  BY <1>2, CrawlAccounting
<1>3. CASE WriterGet \/ WriterSentinel \/ HoldLock \/ HolderRaises
  BY <1>3, WriterAccounting, RecordAccounting, FlushAccounting, PutAccounting, RaiseAccounting
     DEF HoldLock, HolderRaises
<1>4. ASSUME NEW u \in Uploaders, UploadWorker(u) PROVE AccountingInv'
  BY <1>4, UploadAccounting
<1>5. ASSUME NEW k \in Catalogers, CatalogWorker(k) PROVE AccountingInv'
  BY <1>5, CatalogAccounting
<1>6. CASE Main
  BY <1>6, MainAccounting, MainOfferAccounting DEF Main
<1>7. CASE Unforced
  BY <1>7, OtherAccounting, UploadAccounting, CatalogAccounting, AfterEndAccounting
     DEF Unforced
<1>8. CASE \E plan \in SUBSET Resumable : Discover(plan)
  BY <1>8, OtherAccounting
<1> QED BY <1>1, <1>2, <1>3, <1>4, <1>5, <1>6, <1>7, <1>8, StepKinds DEF Resumed

(* Every run keeps the types, the queue bounds and the batch accounting:   *)
(* pending_batches is exact whatever the order in which writers, upload    *)
(* and catalog workers take the batches, whatever raises, with coalesced   *)
(* flushes or not.                                                         *)
THEOREM Accounting == Spec => []AccountingInv
<1>1. Init => AccountingInv
  BY InitAccounting
<1> QED BY <1>1, AccountingStep, PTL DEF Spec

(* Every variable of the runtime keeps its type in every run.              *)
THEOREM TypeCorrect == Spec => []TypeOK
<1>1. AccountingInv => TypeOK
  BY DEF AccountingInv
<1> QED BY <1>1, Accounting, PTL

(* In every run, for any number of workers of each kind, any failures and  *)
(* any flush policy, _ScopeState.pending_batches is exactly the number of  *)
(* tracked batches of the scope that have not completed.                   *)
THEOREM PendingExact == Spec => []PendingAccounting
<1>1. AccountingInv => PendingAccounting
  BY DEF AccountingInv
<1> QED BY <1>1, Accounting, PTL

-----------------------------------------------------------------------------
(* The order of a scope's items.                                           *)

(* A step that takes no item from a queue and finishes no scope.           *)
LEMMA OrderKept ==
  ASSUME OrderInv, scopeQueue' \subseteq scopeQueue,
         discovery' = "running" => discovery = "running",
         UNCHANGED <<crawling, offer, recordQueue, holding, crawlDone>>,
         putting' = None => putting = None \/ holding = <<>>
  PROVE OrderInv'
  BY DEF OrderInv, Fresh, OneCrawler, CrawledNotFlushed, FlushLast, NotDoneYet, Untouched, NoItemOf

(* The lock's holder goes on with its item or is done with it; its scope   *)
(* may be done when the item is a flush item.                              *)
LEMMA OrderLock ==
  ASSUME TypeOK, OrderInv, holding # <<>>,
         UNCHANGED <<discovery, scopeQueue, crawling, offer, recordQueue>>,
         \/ crawlDone' = crawlDone
         \/ Head(holding).kind = "flush" /\ crawlDone' = crawlDone \cup {Head(holding).scope},
         \/ holding' = Tail(holding)
         \/ holding' = holding /\ putting' # None
  PROVE OrderInv'
<1>1. /\ holding \in Seq(Items) /\ recordQueue \in Seq(Items)
      /\ 1 \in 1..Len(holding) /\ Head(holding) = holding[1]
  BY TailFacts DEF TypeOK
<1> DEFINE off == IF holding' = Tail(holding) THEN 1 ELSE 0
<1>2. /\ \A i \in 1..Len(holding') : i + off \in 1..Len(holding) /\ holding'[i] = holding[i + off]
      /\ off \in {0, 1} /\ (off = 0 => holding' = holding /\ putting' # None)
  <2>1. CASE holding' = Tail(holding)
    BY <2>1, TailFacts DEF TypeOK
  <2>2. CASE holding' # Tail(holding)
    BY <2>2
  <2> QED BY <2>1, <2>2
<1> HIDE DEF off
<1>3. \A s \in Scopes : s \in crawlDone' =>
        s \in crawlDone \/ (holding[1].kind = "flush" /\ s = holding[1].scope)
  BY <1>1
<1>4. /\ \A i \in 1..Len(holding) : holding[i].scope \in Scopes
      /\ \A i \in 1..Len(recordQueue) : recordQueue[i].scope \in Scopes
      /\ \A c \in Crawlers : crawling[c] \in Scopes \cup {None}
  BY <1>1 DEF TypeOK, Items
<1>5. Fresh'
  <2>1. ASSUME NEW s \in Scopes, Untouched(s) PROVE Untouched(s)'
    <3>1. s \notin crawlDone'
      BY <2>1, <1>1, <1>3 DEF Untouched, NoItemOf
    <3>2. \A i \in 1..Len(holding') : holding'[i].scope # s
      BY <2>1, <1>2 DEF Untouched, NoItemOf
    <3> QED BY <2>1, <3>1, <3>2 DEF Untouched, NoItemOf
  <2> QED BY <2>1 DEF OrderInv, Fresh
<1>6. OneCrawler'
  BY DEF OrderInv, OneCrawler
<1>7. CrawledNotFlushed'
  <2> SUFFICES ASSUME NEW c \in Crawlers, crawling[c] # None
               PROVE /\ crawling[c] \notin crawlDone'
                     /\ \A i \in 1..Len(recordQueue) :
                          recordQueue[i].kind = "flush" => recordQueue[i].scope # crawling[c]
                     /\ \A i \in 1..Len(holding') :
                          holding'[i].kind = "flush" => holding'[i].scope # crawling[c]
    BY DEF CrawledNotFlushed
  <2>1. crawling[c] \in Scopes /\ crawling[c] \notin crawlDone
    BY <1>4 DEF OrderInv, CrawledNotFlushed
  <2>2. crawling[c] \notin crawlDone'
    BY <2>1, <1>1, <1>3 DEF OrderInv, CrawledNotFlushed
  <2> QED BY <2>2, <1>2 DEF OrderInv, CrawledNotFlushed
<1>8. FlushLast'
  <2>1. ASSUME NEW i \in 1..Len(holding'), NEW j \in 1..Len(holding'), i < j,
               holding'[i].kind = "flush"
        PROVE holding'[j].scope # holding'[i].scope
    <3>1. off \in Nat /\ i \in Nat /\ j \in Nat
      BY <1>2
    <3>2. i + off < j + off
      BY <2>1, <3>1
    <3>3. /\ i + off \in 1..Len(holding) /\ holding'[i] = holding[i + off]
          /\ j + off \in 1..Len(holding) /\ holding'[j] = holding[j + off]
      BY <1>2
    <3>4. FlushLast
      BY DEF OrderInv
    <3> QED BY <2>1, <3>2, <3>3, <3>4 DEF FlushLast
  <2>2. ASSUME NEW i \in 1..Len(holding'), NEW j \in 1..Len(recordQueue),
               holding'[i].kind = "flush"
        PROVE recordQueue[j].scope # holding'[i].scope
    BY <2>2, <1>2 DEF OrderInv, FlushLast
  <2> QED BY <2>1, <2>2 DEF OrderInv, FlushLast
<1>9. NotDoneYet'
  <2>1. \A j \in 1..Len(recordQueue) : recordQueue[j].scope \notin crawlDone'
    BY <1>1, <1>3, <1>4 DEF OrderInv, FlushLast, NotDoneYet
  <2>2. ASSUME NEW i \in 1..Len(holding'), holding'[i].scope \in crawlDone'
        PROVE i = 1 /\ putting' # None /\ holding'[i].kind = "flush"
    BY <1>1, <1>2, <1>3, <1>4, <2>2 DEF OrderInv, FlushLast, NotDoneYet
  <2> QED BY <2>1, <2>2 DEF NotDoneYet
<1> QED BY <1>5, <1>6, <1>7, <1>8, <1>9 DEF OrderInv

(* Discovery queues only scopes no item of which exists.                   *)
LEMMA OrderDiscover ==
  ASSUME OrderInv, NEW plan \in SUBSET Scopes, Discover(plan)
  PROVE OrderInv'
<1> USE DEF mainVars, crawlVars, writerVars, storeVars, scopeVars
<1>1. Fresh'
  BY DEF OrderInv, Fresh, Untouched, NoItemOf, Discover
<1>2. UNCHANGED <<offer, crawling, recordQueue, holding, putting, crawlDone>>
  BY DEF Discover
<1> QED BY <1>1, <1>2 DEF OrderInv, OneCrawler, CrawledNotFlushed, FlushLast, NotDoneYet

(* A crawl worker puts the flush item of its scope after the scope's       *)
(* records, and leaves the scope with it.                                  *)
LEMMA OrderCrawl ==
  ASSUME TypeOK, OrderInv, NEW c \in Crawlers, Crawl(c)
  PROVE OrderInv'
<1> USE DEF mainVars, crawlVars, writerVars, storeVars, scopeVars
<1>1. ASSUME NEW s \in Scopes, BeginScope(c, s) PROVE OrderInv'
  <2>1. /\ Untouched(s) /\ crawling[c] = None /\ discovery # "running"
        /\ crawling' = [crawling EXCEPT ![c] = s] /\ scopeQueue' = scopeQueue \ {s}
        /\ UNCHANGED <<discovery, offer, recordQueue, holding, putting, crawlDone>>
    BY <1>1 DEF BeginScope, Idle, OrderInv, Fresh
  <2>2. \A d \in Crawlers : crawling'[d] = IF d = c THEN s ELSE crawling[d]
    BY <2>1 DEF TypeOK
  <2>3. Fresh'
    BY <2>1, <2>2 DEF OrderInv, Fresh, Untouched, NoItemOf
  <2>4. OneCrawler'
    BY <2>1, <2>2 DEF OrderInv, OneCrawler, Untouched
  <2>5. CrawledNotFlushed'
    BY <2>1, <2>2 DEF OrderInv, CrawledNotFlushed, Untouched, NoItemOf
  <2> QED BY <2>1, <2>3, <2>4, <2>5 DEF OrderInv, FlushLast, NotDoneYet
<1>2. ASSUME \/ \E r \in Records : CrawlRecord(c, r)
             \/ EndScope(c)
      PROVE OrderInv'
  <2>1. /\ crawling[c] # None /\ offer'[c].scope = crawling[c]
        /\ \A d \in Crawlers \ {c} : offer'[d] = offer[d]
        /\ UNCHANGED <<discovery, scopeQueue, crawling, recordQueue, holding, putting, crawlDone>>
    BY <1>2 DEF CrawlRecord, EndScope, InCrawl, RecordItem, FlushItem, TypeOK
  <2> QED BY <2>1 DEF OrderInv, Fresh, OneCrawler, CrawledNotFlushed, FlushLast, NotDoneYet,
                      Untouched, NoItemOf
<1>3. ASSUME CrawlerReturns(c) PROVE OrderInv'
  BY <1>3, OrderKept DEF CrawlerReturns
<1>4. ASSUME PutItem(c) PROVE OrderInv'
  <2> DEFINE item == offer[c]
  <2>1. /\ item \in Items /\ item.scope = crawling[c] /\ crawling[c] \in Scopes /\ crawling[c] # None
        /\ recordQueue \in Seq(Items) /\ recordQueue' = Append(recordQueue, item)
        /\ UNCHANGED <<discovery, scopeQueue, holding, putting, crawlDone>>
    BY <1>4, DataAssumption DEF PutItem, TypeOK, OrderInv, OneCrawler
  <2>2. /\ \A d \in Crawlers : crawling'[d] = IF d = c /\ item.kind = "flush" THEN None ELSE crawling[d]
        /\ \A d \in Crawlers : offer'[d] = IF d = c THEN None ELSE offer[d]
    BY <1>4 DEF PutItem, TypeOK
  <2>3. \A i \in 1..Len(recordQueue') :
          \/ i \in 1..Len(recordQueue) /\ recordQueue'[i] = recordQueue[i]
          \/ i = Len(recordQueue) + 1 /\ recordQueue'[i] = item
    BY <2>1, AppendFacts
  <2> HIDE DEF item
  <2>4. Fresh'
    <3>1. ASSUME NEW t \in Scopes, Untouched(t) PROVE Untouched(t)'
      BY <2>1, <2>2, <2>3, <3>1, DataAssumption DEF Untouched, NoItemOf
    <3> QED BY <2>1, <3>1 DEF OrderInv, Fresh
  <2>5. OneCrawler'
    BY <2>1, <2>2 DEF OrderInv, OneCrawler
  <2>6. CrawledNotFlushed'
    BY <2>1, <2>2, <2>3 DEF OrderInv, CrawledNotFlushed, OneCrawler
  <2>7. FlushLast'
    <3>1. ASSUME NEW i \in 1..Len(recordQueue'), NEW j \in 1..Len(recordQueue'), i < j,
                 recordQueue'[i].kind = "flush"
          PROVE recordQueue'[j].scope # recordQueue'[i].scope
      <4>1. i \in 1..Len(recordQueue) /\ recordQueue'[i] = recordQueue[i]
        BY <2>1, <2>3, <3>1, AppendFacts
      <4>2. CASE j \in 1..Len(recordQueue) /\ recordQueue'[j] = recordQueue[j]
        BY <3>1, <4>1, <4>2 DEF OrderInv, FlushLast
      <4>3. CASE recordQueue'[j] = item
        BY <3>1, <4>1, <4>3, <2>1 DEF OrderInv, CrawledNotFlushed
      <4> QED BY <4>2, <4>3, <2>3
    <3>2. \A i \in 1..Len(holding), j \in 1..Len(recordQueue') :
            holding[i].kind = "flush" => recordQueue'[j].scope # holding[i].scope
      BY <2>1, <2>3 DEF OrderInv, FlushLast, CrawledNotFlushed
    <3> QED BY <2>1, <3>1, <3>2 DEF OrderInv, FlushLast
  <2>8. NotDoneYet'
    BY <2>1, <2>3 DEF OrderInv, NotDoneYet, CrawledNotFlushed
  <2> QED BY <2>4, <2>5, <2>6, <2>7, <2>8 DEF OrderInv
<1> QED BY <1>1, <1>2, <1>3, <1>4 DEF Crawl

(* Writers wait for writer_lock in the order in which they took their      *)
(* items.                                                                  *)
LEMMA OrderWriterGet ==
  ASSUME TypeOK, OrderInv, WriterGet
  PROVE OrderInv'
<1> USE DEF mainVars, crawlVars, writerVars, storeVars, scopeVars
<1> DEFINE item == Head(recordQueue)
<1>1. /\ recordQueue \in Seq(Items) /\ recordQueue # <<>> /\ recordQueue' = Tail(recordQueue)
      /\ holding \in Seq(Items) /\ item \in Items
      /\ holding' = holding \/ holding' = Append(holding, item)
      /\ UNCHANGED <<discovery, scopeQueue, crawling, offer, putting, crawlDone>>
  BY DEF WriterGet, TypeOK
<1>2. \A i \in 1..Len(recordQueue') : /\ i + 1 \in 1..Len(recordQueue) /\ 1 < i + 1
                                      /\ recordQueue'[i] = recordQueue[i + 1]
  BY <1>1, TailFacts
<1>3. item = recordQueue[1] /\ 1 \in 1..Len(recordQueue)
  BY <1>1, TailFacts
<1>4. \A i \in 1..Len(holding') :
        \/ i \in 1..Len(holding) /\ holding'[i] = holding[i]
        \/ i = Len(holding) + 1 /\ holding'[i] = item
  <2>1. CASE holding' = holding
    BY <2>1
  <2>2. CASE holding' = Append(holding, item)
    BY <2>2, <1>1, AppendFacts
  <2> QED BY <1>1, <2>1, <2>2
<1> HIDE DEF item
<1>5. Fresh'
  <2>1. ASSUME NEW s \in Scopes, Untouched(s) PROVE Untouched(s)'
    <3>1. item.scope # s
      BY <2>1, <1>3 DEF Untouched, NoItemOf
    <3>2. \A i \in 1..Len(holding') : holding'[i].scope # s
      BY <2>1, <3>1, <1>4 DEF Untouched, NoItemOf
    <3>3. \A i \in 1..Len(recordQueue') : recordQueue'[i].scope # s
      BY <2>1, <1>2 DEF Untouched, NoItemOf
    <3> QED BY <2>1, <3>2, <3>3, <1>1 DEF Untouched, NoItemOf
  <2> QED BY <2>1, <1>1 DEF OrderInv, Fresh
<1>6. OneCrawler'
  BY <1>1 DEF OrderInv, OneCrawler
<1>7. CrawledNotFlushed'
  <2> SUFFICES ASSUME NEW c \in Crawlers, crawling[c] # None
               PROVE /\ crawling[c] \notin crawlDone
                     /\ \A i \in 1..Len(recordQueue') :
                          recordQueue'[i].kind = "flush" => recordQueue'[i].scope # crawling[c]
                     /\ \A i \in 1..Len(holding') :
                          holding'[i].kind = "flush" => holding'[i].scope # crawling[c]
    BY <1>1 DEF CrawledNotFlushed
  <2>1. CrawledNotFlushed
    BY DEF OrderInv
  <2>2. \A i \in 1..Len(recordQueue') :
          recordQueue'[i].kind = "flush" => recordQueue'[i].scope # crawling[c]
    BY <1>2, <2>1 DEF CrawledNotFlushed
  <2>3. item.kind = "flush" => item.scope # crawling[c]
    BY <1>3, <2>1 DEF CrawledNotFlushed
  <2>4. \A i \in 1..Len(holding') :
          holding'[i].kind = "flush" => holding'[i].scope # crawling[c]
    BY <1>4, <2>1, <2>3 DEF CrawledNotFlushed
  <2> QED BY <2>1, <2>2, <2>4 DEF CrawledNotFlushed
<1>8. FlushLast'
  <2>1. ASSUME NEW i \in 1..Len(recordQueue'), NEW j \in 1..Len(recordQueue'), i < j,
               recordQueue'[i].kind = "flush"
        PROVE recordQueue'[j].scope # recordQueue'[i].scope
    <3>1. i + 1 < j + 1
      BY <2>1
    <3> QED BY <2>1, <3>1, <1>2 DEF OrderInv, FlushLast
  <2>2. ASSUME NEW i \in 1..Len(holding'), NEW j \in 1..Len(holding'), i < j,
               holding'[i].kind = "flush"
        PROVE holding'[j].scope # holding'[i].scope
    <3>1. i \in 1..Len(holding) /\ holding'[i] = holding[i]
      BY <1>1, <1>4, <2>2, AppendFacts
    <3>2. CASE j \in 1..Len(holding) /\ holding'[j] = holding[j]
      BY <2>2, <3>1, <3>2 DEF OrderInv, FlushLast
    <3>3. CASE holding'[j] = item
      BY <2>2, <3>1, <3>3, <1>3 DEF OrderInv, FlushLast
    <3> QED BY <3>2, <3>3, <1>4
  <2>3. ASSUME NEW i \in 1..Len(holding'), NEW j \in 1..Len(recordQueue'),
               holding'[i].kind = "flush"
        PROVE recordQueue'[j].scope # holding'[i].scope
    <3>1. j + 1 \in 1..Len(recordQueue) /\ 1 < j + 1 /\ recordQueue'[j] = recordQueue[j + 1]
      BY <1>2
    <3>2. CASE i \in 1..Len(holding) /\ holding'[i] = holding[i]
      BY <2>3, <3>1, <3>2 DEF OrderInv, FlushLast
    <3>3. CASE holding'[i] = item
      BY <2>3, <3>1, <3>3, <1>3 DEF OrderInv, FlushLast
    <3> QED BY <3>2, <3>3, <1>4
  <2> QED BY <2>1, <2>2, <2>3 DEF FlushLast
<1>9. NotDoneYet'
  <2>1. \A j \in 1..Len(recordQueue') : recordQueue'[j].scope \notin crawlDone'
    BY <1>1, <1>2 DEF OrderInv, NotDoneYet
  <2>2. item.scope \notin crawlDone
    BY <1>3 DEF OrderInv, NotDoneYet
  <2>3. \A i \in 1..Len(holding') :
          holding'[i].scope \in crawlDone' =>
            i = 1 /\ putting' # None /\ holding'[i].kind = "flush"
    BY <1>1, <1>4, <2>2 DEF OrderInv, NotDoneYet
  <2> QED BY <2>1, <2>3 DEF NotDoneYet
<1> QED BY <1>5, <1>6, <1>7, <1>8, <1>9 DEF OrderInv

(* Every step of a run that goes on keeps the order of the items.          *)
LEMMA OrderStep ==
  ASSUME AccountingInv, OrderInv, Next, Live'
  PROVE OrderInv'
<1> USE DEF mainVars, crawlVars, writerVars, storeVars, scopeVars, batchVars, uploadVars, catalogVars
<1>a. TypeOK
  BY DEF AccountingInv
<1>1. CASE \E plan \in SUBSET Resumable : Discover(plan)
  BY <1>1, OrderDiscover DEF Resumable
<1>2. ASSUME NEW c \in Crawlers, Crawl(c) PROVE OrderInv'
  BY <1>2, <1>a, OrderCrawl
<1>3. CASE WriterGet
  BY <1>3, <1>a, OrderWriterGet
<1>4. CASE HoldLock \/ WriterRaises \/ HookRaises
  <2>1. /\ holding # <<>>
        /\ UNCHANGED <<discovery, scopeQueue, crawling, offer, recordQueue>>
    BY <1>4 DEF HoldLock, SkipRecord, UnchangedRecord, BufferRecord, FlushScope, WriterPut, ResumePut,
                WriterRaises, HookRaises, LockHolder, AccountingInv, QueueInv
  <2>2. \/ crawlDone' = crawlDone
        \/ Head(holding).kind = "flush" /\ crawlDone' = crawlDone \cup {Head(holding).scope}
    BY <1>4 DEF HoldLock, SkipRecord, UnchangedRecord, BufferRecord, FlushScope, WriterPut, ResumePut,
                WriterRaises, HookRaises, LockHolder
  <2>3. \/ holding' = Tail(holding)
        \/ holding' = holding /\ putting' # None
    <3>1. CASE SkipRecord \/ UnchangedRecord \/ WriterRaises \/ HookRaises
      BY <3>1 DEF SkipRecord, UnchangedRecord, WriterRaises, HookRaises, Release
    <3>3. CASE BufferRecord
      BY <3>3 DEF BufferRecord, AfterOffer, Release
    <3>4. CASE FlushScope
      BY <3>4 DEF FlushScope, AfterOffer, Release
    <3>5. CASE WriterPut
      BY <3>5 DEF WriterPut, AfterOffer, Release
    <3> QED BY <1>4, <3>1, <3>3, <3>4, <3>5 DEF HoldLock
  <2> QED BY <1>a, <2>1, <2>2, <2>3, OrderLock
<1>5. CASE WriterSentinel \/ DiscoverRaises \/ RequestShutdown
  BY <1>5, OrderKept DEF WriterSentinel, DiscoverRaises, RequestShutdown
<1>6. ASSUME NEW c \in Crawlers, CrawlRaises(c) PROVE OrderInv'
  BY <1>6, OrderKept DEF CrawlRaises
<1>7. ASSUME NEW u \in Uploaders, UploadWorker(u) \/ UploadRaises(u) PROVE OrderInv'
  <2>1. UNCHANGED <<discovery, scopeQueue, crawling, offer, recordQueue, holding, crawlDone, putting>>
    BY <1>7 DEF UploadWorker, UploaderGet, UploaderSentinel, Upload, PutCatalogJob, UploadRaises
  <2> QED BY <2>1, OrderKept
<1>8. ASSUME NEW k \in Catalogers, CatalogWorker(k) \/ CatalogRaises(k) \/ OrphanCommit(k)
      PROVE OrderInv'
  <2>1. UNCHANGED <<discovery, scopeQueue, crawling, offer, recordQueue, holding, crawlDone, putting>>
    BY <1>8 DEF CatalogWorker, CatalogerGet, CatalogerSentinel, CommitBatch, CompleteBatch, CatalogRaises,
                OrphanCommit
  <2> QED BY <2>1, OrderKept
<1>9. ASSUME NEW b \in BatchIds, FinalFlush(b) PROVE OrderInv'
  BY <1>9, OrderKept DEF FinalFlush
<1>10. CASE Main
  <2>1. UNCHANGED <<discovery, scopeQueue, crawling, offer, recordQueue, crawlDone>>
    BY <1>10 DEF Main, CrawlOver, PutSentinel, FlushAll, MainPut, ResumePut, UploadOver, CatalogOver,
                 FailFast, MainPutRaises, CancelTasks
  <2>2. holding' = holding
    BY <1>10 DEF Main, CrawlOver, PutSentinel, FlushAll, MainPut, ResumePut, UploadOver, CatalogOver,
                 FailFast, MainPutRaises, CancelTasks, Live
  <2>3. putting' = putting \/ holding = <<>>
    <3>1. CASE FlushAll \/ MainPut
      <4>1. writersUp = 0 /\ Len(holding) <= writersUp
        BY <3>1 DEF FlushAll, MainPut, StageOver, AccountingInv, WorkersInv
      <4> QED BY <1>a, <4>1 DEF TypeOK
    <3>2. CASE CrawlOver \/ PutSentinel \/ UploadOver \/ CatalogOver
      BY <3>2 DEF CrawlOver, PutSentinel, UploadOver, CatalogOver
    <3> QED BY <1>10, <3>1, <3>2 DEF Main, FailFast, MainPutRaises, Live
  <2> QED BY <2>1, <2>2, <2>3, OrderKept
<1> QED BY <1>1, <1>2, <1>3, <1>4, <1>5, <1>6, <1>7, <1>8, <1>9, <1>10, StepKinds
     DEF Resumed, HolderRaises, Unforced

-----------------------------------------------------------------------------
(* Untracked batches and what a candidate checkpoint covers.               *)

(* A step that moves no batch out of or into the buffer.                   *)
LEMMA MoveKept ==
  ASSUME AccountingInv, UntrackedInv, CoverInv, TypeOK',
         UNCHANGED <<owners, recs, crawlDone>>,
         \A x \in BatchIds :
           \/ stage'[x] = stage[x]
           \/ /\ stage[x] \notin {"free", "buffered", "popped", "dropped", "lost", "held"}
              /\ stage'[x] \notin {"free", "buffered", "popped", "dropped"},
         durable \subseteq durable',
         \A x \in BatchIds : stage'[x] \in {"committed", "done"} =>
           stage[x] \in {"committed", "done"} \/ recs[x] \subseteq durable',
         \A s \in Scopes : candidate'[s] \subseteq candidate[s] \cup {Complete} \cup durable',
         writersUp = 0 => writersUp' = 0,
         \/ putting = None
         \/ /\ putting' = putting
            /\ main' = "flushing" <=> main = "flushing"
            /\ main # "flushing" => Head(holding') = Head(holding)
  PROVE UntrackedInv' /\ CoverInv'
<1>1. ASSUME NEW x \in BatchIds, stage'[x] \in {"free", "buffered", "popped", "dropped"}
      PROVE stage'[x] = stage[x]
  BY <1>1
<1>2. \A x \in BatchIds : stage[x] = "lost" => stage'[x] = "lost"
  OBVIOUS
<1>3. \A s \in Scopes : CountedWith(s, {"lost"}) => CountedWith(s, {"lost"})'
  BY <1>2 DEF CountedWith
<1>4. UntrackedInv'
  <2>1. \A x \in BatchIds : stage'[x] = "free" => owners'[x] = {}
    BY <1>1 DEF UntrackedInv
  <2>2. \A x \in BatchIds : stage'[x] = "buffered" => owners'[x] \cap crawlDone' = {}
    BY <1>1 DEF UntrackedInv
  <2>3. ASSUME NEW x \in BatchIds, stage'[x] = "popped"
        PROVE /\ putting' # None
              /\ main' = "flushing" => owners'[x] \cap crawlDone' = {}
              /\ main' # "flushing" =>
                   /\ Head(holding').kind = "flush"
                   /\ Head(holding').scope \in owners'[x] \cap owners'[putting']
                   /\ owners'[x] \cap crawlDone' \subseteq {Head(holding').scope}
    BY <1>1, <2>3 DEF UntrackedInv
  <2>4. ASSUME NEW x \in BatchIds, stage'[x] = "dropped"
        PROVE /\ writersUp' = 0
              /\ \A s \in owners'[x] \cap crawlDone' : CountedWith(s, {"lost"})'
    BY <1>1, <1>3, <2>4 DEF UntrackedInv, AccountingInv, TypeOK
  <2> QED BY <2>1, <2>2, <2>3, <2>4 DEF UntrackedInv
<1>5. CoverInv'
  <2>1. ASSUME NEW s \in Scopes, NEW r \in candidate'[s] \ {Complete}
        PROVE \/ r \in durable'
              \/ \E x \in BatchIds : /\ stage'[x] \notin {"free", "committed", "done"}
                                     /\ r \in recs'[x] /\ s \in owners'[x]
    <3>1. CASE r \in durable'
      BY <3>1
    <3>2. CASE r \notin durable'
      <4>1. PICK x \in BatchIds : /\ stage[x] \notin {"free", "committed", "done"}
                                  /\ r \in recs[x] /\ s \in owners[x]
        BY <2>1, <3>2 DEF CoverInv
      <4>2. stage'[x] \notin {"free", "committed", "done"}
        BY <3>2, <4>1
      <4> QED BY <4>1, <4>2
    <3> QED BY <3>1, <3>2
  <2>2. \A x \in BatchIds : stage'[x] \in {"committed", "done"} => recs'[x] \subseteq durable'
    BY DEF CoverInv
  <2> QED BY <2>1, <2>2 DEF CoverInv
<1> QED BY <1>4, <1>5

(* OfferFacts, for batches that are offerable.                             *)
LEMMA OfferedFacts ==
  ASSUME AccountingInv, NEW B, NEW base, NEW st, OfferBatches(B, base, st), Offerable(B, base, st)
  PROVE \E put, next \in SUBSET B : Offered(B, st, put, next)
<1> failureEvent \in BOOLEAN
  BY DEF AccountingInv, TypeOK
<1> QED BY OfferFacts DEF Offerable

(* The loop over the batches of a flush item of scope h, from its start or *)
(* from the batch in hand.                                                 *)
LEMMA FlushKept ==
  ASSUME SafeSetting, AccountingInv, UntrackedInv, CoverInv, holding # <<>>,
         NEW B \in SUBSET BatchIds, NEW st, NEW put \in SUBSET B, NEW next \in SUBSET B,
         Offered(B, st, put, next), AfterOffer(B), UNCHANGED <<main, owners, recs, durable>>,
         B # {} => Head(holding).kind = "flush",
         \A x \in B : /\ stage[x] \in {"buffered", "popped"} /\ Head(holding).scope \in owners[x]
                      /\ owners[x] \cap crawlDone' \subseteq {Head(holding).scope},
         \A x \in BatchIds \ B :
           /\ st[x] = stage[x] \/ (stage[x] = "held" /\ st[x] = "uploadQueue")
           /\ stage[x] # "popped"
           /\ stage[x] = "buffered" => owners[x] \cap crawlDone' = {},
         \A s \in Scopes : candidate'[s] \subseteq candidate[s] \cup {Complete}
  PROVE UntrackedInv' /\ CoverInv'
<1> DEFINE h == Head(holding).scope
<1>1. \A x \in BatchIds : stage'[x] =
        IF x \in put THEN "uploadQueue"
        ELSE IF x \in next THEN (IF failureEvent THEN "lost" ELSE "held")
        ELSE IF x \in B THEN (IF failureEvent THEN "dropped" ELSE "popped")
        ELSE st[x]
  BY DEF Offered
<1>2. /\ writersUp # 0 /\ main # "flushing" /\ h \in Scopes
      /\ \A x \in BatchIds : stage[x] # "dropped"
  <2>1. Len(holding) <= writersUp /\ holding \in Seq(Items) /\ writersUp \in Nat
    BY DEF AccountingInv, WorkersInv, TypeOK
  <2>2. writersUp # 0
    BY <2>1
  <2>3. Head(holding) \in Items
    BY <2>1
  <2> QED BY <2>2, <2>3 DEF AccountingInv, WorkersInv, UntrackedInv, Items
<1>3. UntrackedInv'
  <2>1. \A x \in BatchIds : stage'[x] = "free" => owners'[x] = {}
    BY <1>1 DEF UntrackedInv
  <2>2. \A x \in BatchIds : stage'[x] = "buffered" => owners'[x] \cap crawlDone' = {}
    BY <1>1
  <2>3. ASSUME NEW x \in BatchIds, stage'[x] = "popped"
        PROVE /\ putting' # None
              /\ main' = "flushing" => owners'[x] \cap crawlDone' = {}
              /\ main' # "flushing" =>
                   /\ Head(holding').kind = "flush"
                   /\ Head(holding').scope \in owners'[x] \cap owners'[putting']
                   /\ owners'[x] \cap crawlDone' \subseteq {Head(holding').scope}
    <3>1. x \in B \ (put \cup next) /\ ~failureEvent
      BY <1>1, <2>3
    <3>2. putting' # None /\ putting' \in next
      BY <3>1 DEF Offered
    <3>3. holding' = holding
      BY <3>2 DEF AfterOffer
    <3> QED BY <1>2, <3>1, <3>2, <3>3
  <2>4. ASSUME NEW x \in BatchIds, stage'[x] = "dropped"
        PROVE /\ writersUp' = 0
              /\ \A s \in owners'[x] \cap crawlDone' : CountedWith(s, {"lost"})'
    <3>1. x \in B \ (put \cup next) /\ failureEvent
      BY <1>1, <1>2, <2>4
    <3>2. putting' = None /\ put = {} /\ next # {}
      BY <3>1 DEF Offered
    <3>3. writersUp' = writersUp - 1
      BY <3>1, <3>2 DEF AfterOffer, Release
    <3>4. WriterCount = 1 /\ writersUp <= 1 /\ writersUp \in Nat
      BY <3>1 DEF SafeSetting, AccountingInv, WorkersInv, TypeOK
    <3>5. writersUp' = 0
      BY <1>2, <3>3, <3>4
    <3>6. PICK y \in next : TRUE
      BY <3>2
    <3>7. stage'[y] = "lost" /\ h \in owners'[y] /\ y \in BatchIds
      BY <1>1, <3>1, <3>2, <3>6
    <3>8. ASSUME NEW s \in owners'[x] \cap crawlDone' PROVE CountedWith(s, {"lost"})'
      <4>1. s = h
        BY <3>1
      <4> QED BY <3>7, <4>1 DEF CountedWith
    <3> QED BY <3>5, <3>8
  <2> QED BY <2>1, <2>2, <2>3, <2>4 DEF UntrackedInv
<1>4. CoverInv'
  <2>1. \A x \in BatchIds : /\ stage[x] \notin {"free", "committed", "done"} =>
                                stage'[x] \notin {"free", "committed", "done"}
                            /\ stage'[x] \in {"committed", "done"} => stage[x] \in {"committed", "done"}
    BY <1>1
  <2> QED BY <2>1 DEF CoverInv
<1> QED BY <1>3, <1>4

(* Buffering a record of a scope that is not done, and putting the         *)
(* partition it filled, leaves no batch uncounted and covers the record.   *)
LEMMA RecordKept ==
  ASSUME AccountingInv, OrderInv, UntrackedInv, CoverInv, BufferRecord
  PROVE UntrackedInv' /\ CoverInv'
<1> USE DEF mainVars, crawlVars, writerVars, storeVars, scopeVars, batchVars, uploadVars, catalogVars
<1> DEFINE item == Head(holding)
           b == BufferOf(item.rec)
           st == [stage EXCEPT ![b] = "buffered"]
<1>1. /\ holding # <<>> /\ putting = None /\ BufferAdd(item)
      /\ item \in [kind : {"record"}, scope : Scopes, rec : Records]
  BY DEF AccountingInv, TypeOK, BufferRecord, LockHolder, Items
<1>2. /\ b \in BatchIds /\ stage[b] \in {"free", "buffered"}
      /\ \A x \in BatchIds \ {b} : recs'[x] = recs[x] /\ owners'[x] = owners[x]
      /\ recs'[b] = recs[b] \cup {item.rec} /\ owners'[b] = owners[b] \cup {item.scope}
  BY <1>1, BufferFacts DEF AccountingInv
<1>3. PICK B \in {{}, {b}} : OfferBatches(B, uploadQueue, st)
  BY DEF BufferRecord
<1>4. st \in [BatchIds -> Stages] /\ \A x \in BatchIds : st[x] = IF x = b THEN "buffered" ELSE stage[x]
  BY <1>2 DEF AccountingInv, TypeOK, Stages
<1>5. /\ UNCHANGED <<crawlDone, durable, main>>
      /\ candidate' = [candidate EXCEPT ![item.scope] = @ \cup {item.rec}]
  BY DEF BufferRecord
<1>6. item.scope \notin crawlDone
  <2>1. 1 \in 1..Len(holding) /\ item = holding[1]
    BY <1>1, TailFacts DEF AccountingInv, TypeOK
  <2> QED BY <1>1, <2>1 DEF OrderInv, NotDoneYet
<1>7. \A s \in Scopes : candidate'[s] = candidate[s] \cup (IF s = item.scope THEN {item.rec} ELSE {})
  BY <1>1, <1>5 DEF AccountingInv, TypeOK
<1> HIDE DEF item, b, st
<1>8. Offerable(B, uploadQueue, st)
  <2>1. /\ uploadQueue \in Seq(BatchIds) /\ Len(uploadQueue) <= UploadQueueSize
        /\ \A i, j \in 1..Len(uploadQueue) : uploadQueue[i] = uploadQueue[j] => i = j
        /\ catalogQueue' = catalogQueue /\ B \in SUBSET BatchIds
    BY <1>2, <1>3 DEF AccountingInv, TypeOK, QueueInv, BufferRecord
  <2>2. \A i \in 1..Len(uploadQueue) : st[uploadQueue[i]] = "uploadQueue" /\ uploadQueue[i] \notin B
    BY <1>2, <1>3, <1>4, <2>1 DEF AccountingInv, QueueInv
  <2>3. /\ \A x \in B : stage[x] \in {"free", "buffered", "popped"}
        /\ \A x \in BatchIds \ B : st[x] \in Tracked <=> stage[x] \in Tracked
        /\ \A x \in BatchIds : stage[x] = "catalogQueue" => st[x] = "catalogQueue"
        /\ \A x \in BatchIds : stage[x] \in Tracked => owners'[x] = owners[x]
    BY <1>2, <1>3, <1>4 DEF Tracked
  <2> QED BY <1>4, <2>1, <2>2, <2>3 DEF Offerable
<1>9. PICK put \in SUBSET B, next \in SUBSET B : Offered(B, st, put, next)
  BY <1>3, <1>8, OfferedFacts
<1>10. \A x \in BatchIds : IF x = b THEN stage'[x] \in {"buffered", "uploadQueue", "lost", "held"}
                            ELSE stage'[x] = stage[x]
  <2>1. \A x \in B : x \in put \cup next
    BY <1>3, <1>9 DEF Offered
  <2>2. \A x \in BatchIds : stage'[x] =
          IF x \in put THEN "uploadQueue"
          ELSE IF x \in next THEN (IF failureEvent THEN "lost" ELSE "held")
          ELSE IF x \in B THEN (IF failureEvent THEN "dropped" ELSE "popped")
          ELSE st[x]
    BY <1>9 DEF Offered
  <2>3. \A x \in BatchIds : x # b => x \notin B
    BY <1>3
  <2> QED BY <1>4, <2>1, <2>2, <2>3
<1>11. /\ writersUp # 0 /\ \A x \in BatchIds : stage[x] \notin {"dropped", "popped"}
  <2>1. Len(holding) <= writersUp /\ holding \in Seq(Items) /\ writersUp \in Nat
    BY DEF AccountingInv, WorkersInv, TypeOK
  <2>2. writersUp # 0
    BY <1>1, <2>1
  <2> QED BY <1>1, <2>2 DEF UntrackedInv
<1>12. UntrackedInv'
  BY <1>2, <1>5, <1>6, <1>10, <1>11 DEF UntrackedInv
<1>13. CoverInv'
  <2>1. ASSUME NEW s \in Scopes, NEW r \in candidate'[s] \ {Complete}
        PROVE \/ r \in durable'
              \/ \E x \in BatchIds : /\ stage'[x] \notin {"free", "committed", "done"}
                                     /\ r \in recs'[x] /\ s \in owners'[x]
    <3>1. CASE r \in candidate[s]
      BY <1>2, <1>5, <1>10, <2>1, <3>1 DEF CoverInv
    <3>2. CASE s = item.scope /\ r = item.rec
      <4>1. r \in recs'[b] /\ s \in owners'[b] /\ stage'[b] \notin {"free", "committed", "done"}
        BY <1>2, <1>10, <3>2
      <4> QED BY <1>2, <4>1
    <3> QED BY <1>7, <2>1, <3>1, <3>2
  <2>2. \A x \in BatchIds : stage'[x] \in {"committed", "done"} => recs'[x] \subseteq durable'
    BY <1>2, <1>5, <1>10 DEF CoverInv
  <2> QED BY <2>1, <2>2 DEF CoverInv
<1> QED BY <1>12, <1>13

(* A hook that raises may drop a batch, but the run's only writer is gone  *)
(* then.                                                                   *)
LEMMA HookKept ==
  ASSUME SafeSetting, AccountingInv, OrderInv, UntrackedInv, CoverInv, HookRaises
  PROVE UntrackedInv' /\ CoverInv'
<1> USE DEF mainVars, crawlVars, writerVars, storeVars, scopeVars, batchVars, uploadVars, catalogVars
<1> DEFINE item == Head(holding)
           b == BufferOf(item.rec)
<1>1. /\ holding # <<>> /\ putting = None /\ BufferAdd(item) /\ Faults # {}
      /\ item \in [kind : {"record"}, scope : Scopes, rec : Records]
  BY DEF AccountingInv, TypeOK, HookRaises, LockHolder, Items
<1>2. /\ b \in BatchIds /\ stage[b] \in {"free", "buffered"}
      /\ \A x \in BatchIds \ {b} : recs'[x] = recs[x] /\ owners'[x] = owners[x]
      /\ recs'[b] = recs[b] \cup {item.rec} /\ owners'[b] = owners[b] \cup {item.scope}
  BY <1>1, BufferFacts DEF AccountingInv
<1>3. UNCHANGED <<crawlDone, durable, main, candidate, putting>> /\ writersUp' = writersUp - 1
  BY DEF HookRaises, Release
<1>4. \A x \in BatchIds : IF x = b THEN stage'[x] \in {"buffered", "dropped"} ELSE stage'[x] = stage[x]
  BY <1>2 DEF HookRaises, AccountingInv, TypeOK
<1>5. item.scope \notin crawlDone
  <2>1. 1 \in 1..Len(holding) /\ item = holding[1]
    BY <1>1, TailFacts DEF AccountingInv, TypeOK
  <2> QED BY <1>1, <2>1 DEF OrderInv, NotDoneYet
<1>6. /\ writersUp' = 0 /\ \A x \in BatchIds : stage[x] \notin {"dropped", "popped"}
  <2>1. Len(holding) <= writersUp /\ holding \in Seq(Items) /\ writersUp \in Nat
    BY DEF AccountingInv, WorkersInv, TypeOK
  <2>2. writersUp # 0
    BY <1>1, <2>1
  <2>3. writersUp <= 1
    BY <1>1 DEF SafeSetting, AccountingInv, WorkersInv
  <2> QED BY <1>1, <1>3, <2>1, <2>2, <2>3 DEF UntrackedInv
<1>7. owners'[b] \cap crawlDone' = {}
  BY <1>2, <1>3, <1>5 DEF UntrackedInv
<1> HIDE DEF item, b
<1>8. UntrackedInv'
  BY <1>2, <1>3, <1>4, <1>6, <1>7 DEF UntrackedInv
<1>9. CoverInv'
  <2>1. \A x \in BatchIds : recs[x] \subseteq recs'[x] /\ owners[x] \subseteq owners'[x]
    BY <1>2
  <2>2. \A x \in BatchIds : stage[x] \notin {"free", "committed", "done"} =>
                            stage'[x] \notin {"free", "committed", "done"}
    BY <1>4
  <2>3. \A x \in BatchIds : stage'[x] \in {"committed", "done"} => recs'[x] \subseteq durable'
    BY <1>2, <1>3, <1>4 DEF CoverInv
  <2>4. ASSUME NEW s \in Scopes, NEW r \in candidate'[s] \ {Complete}
        PROVE \/ r \in durable'
              \/ \E x \in BatchIds : /\ stage'[x] \notin {"free", "committed", "done"}
                                     /\ r \in recs'[x] /\ s \in owners'[x]
    BY <1>3, <2>1, <2>2, <2>4 DEF CoverInv
  <2> QED BY <2>3, <2>4 DEF CoverInv
<1> QED BY <1>8, <1>9

(* flush_all's loop: none of its batches belongs to a finished scope.      *)
LEMMA MainKept ==
  ASSUME AccountingInv, UntrackedInv, CoverInv, FlushAll \/ MainPut
  PROVE UntrackedInv' /\ CoverInv'
<1> USE DEF mainVars, crawlVars, writerVars, storeVars, scopeVars, batchVars, uploadVars, catalogVars
<1>1. /\ UNCHANGED <<owners, recs, crawlDone, candidate, durable, writersUp>>
      /\ putting' # None => main' = "flushing"
  BY DEF FlushAll, MainPut, ResumePut, MainAfterOffer
<1>2. \E B \in SUBSET BatchIds, base \in Seq(BatchIds), st \in [BatchIds -> Stages] :
        /\ OfferBatches(B, base, st) /\ Offerable(B, base, st)
        /\ failureEvent => B = {}
        /\ \A x \in B : stage[x] \in {"buffered", "popped"} /\ owners[x] \cap crawlDone = {}
        /\ \A x \in BatchIds \ B : /\ st[x] = stage[x] \/ (stage[x] = "held" /\ st[x] = "uploadQueue")
                                   /\ stage[x] # "popped"
  <2>1. CASE FlushAll
    <3>1. Offerable(Leftover, uploadQueue, stage)
      BY <2>1 DEF Offerable, AccountingInv, TypeOK, QueueInv, FlushAll, Leftover
    <3>2. OfferBatches(Leftover, uploadQueue, stage) /\ ~failureEvent /\ Leftover \in SUBSET BatchIds
      BY <2>1 DEF FlushAll, StageOver, Leftover
    <3>3. \A x \in Leftover : stage[x] = "buffered" /\ owners[x] \cap crawlDone = {}
      BY DEF Leftover, UntrackedInv
    <3>4. putting = None
      <4>1. writersUp = 0 /\ main = "writing" /\ Len(holding) <= writersUp /\ holding \in Seq(Items)
        BY <2>1 DEF FlushAll, StageOver, AccountingInv, WorkersInv, TypeOK
      <4>2. holding = <<>>
        BY <4>1
      <4> QED BY <4>1, <4>2 DEF AccountingInv, QueueInv
    <3>5. \A x \in BatchIds : stage[x] # "popped"
      BY <3>4 DEF UntrackedInv
    <3> QED BY <3>1, <3>2, <3>3, <3>5 DEF Offerable
  <2>2. CASE MainPut
    <3> DEFINE base == Append(uploadQueue, putting)
               st == [stage EXCEPT ![putting] = "uploadQueue"]
    <3>1. OfferBatches(Unsent, base, st) /\ Offerable(Unsent, base, st)
      BY <2>2, ResumeOfferable DEF MainPut
    <3>2. Unsent \in SUBSET BatchIds /\ (failureEvent => Unsent = {}) /\ main = "flushing"
      BY <2>2 DEF MainPut, Unsent
    <3>3. \A x \in Unsent : stage[x] = "popped" /\ owners[x] \cap crawlDone = {}
      BY <3>2 DEF Unsent, UntrackedInv
    <3>4. \A x \in BatchIds \ Unsent : /\ st[x] = stage[x] \/ (stage[x] = "held" /\ st[x] = "uploadQueue")
                                       /\ stage[x] # "popped"
      BY <2>2 DEF Unsent, MainPut, ResumePut, AccountingInv, TypeOK, QueueInv
    <3> HIDE DEF base, st
    <3> QED BY <3>1, <3>2, <3>3, <3>4 DEF Offerable
  <2> QED BY <2>1, <2>2
<1>3. PICK B \in SUBSET BatchIds, base \in Seq(BatchIds), st \in [BatchIds -> Stages] :
        /\ OfferBatches(B, base, st) /\ Offerable(B, base, st)
        /\ failureEvent => B = {}
        /\ \A x \in B : stage[x] \in {"buffered", "popped"} /\ owners[x] \cap crawlDone = {}
        /\ \A x \in BatchIds \ B : /\ st[x] = stage[x] \/ (stage[x] = "held" /\ st[x] = "uploadQueue")
                                   /\ stage[x] # "popped"
  BY <1>2
<1>4. PICK put \in SUBSET B, next \in SUBSET B : Offered(B, st, put, next)
  BY <1>3, OfferedFacts
<1>5. \A x \in BatchIds : stage'[x] =
        IF x \in put THEN "uploadQueue"
        ELSE IF x \in next THEN (IF failureEvent THEN "lost" ELSE "held")
        ELSE IF x \in B THEN (IF failureEvent THEN "dropped" ELSE "popped")
        ELSE st[x]
  BY <1>4 DEF Offered
<1>6. \A x \in BatchIds :
        /\ stage'[x] \in {"free", "buffered", "dropped"} => stage'[x] = stage[x]
        /\ stage[x] = "lost" => stage'[x] = "lost"
        /\ stage'[x] = "popped" => putting' # None /\ owners[x] \cap crawlDone = {}
        /\ stage[x] \notin {"free", "committed", "done"} => stage'[x] \notin {"free", "committed", "done"}
        /\ stage'[x] \in {"committed", "done"} => stage[x] \in {"committed", "done"}
  BY <1>3, <1>4, <1>5 DEF Offered
<1>7. \A s \in Scopes : CountedWith(s, {"lost"}) => CountedWith(s, {"lost"})'
  BY <1>1, <1>6 DEF CountedWith
<1>8. UntrackedInv'
  <2>1. ASSUME NEW x \in BatchIds, stage'[x] = "dropped"
        PROVE /\ writersUp' = 0
              /\ \A s \in owners'[x] \cap crawlDone' : CountedWith(s, {"lost"})'
    BY <1>1, <1>6, <1>7, <2>1 DEF UntrackedInv, AccountingInv, TypeOK
  <2> QED BY <1>1, <1>6, <2>1 DEF UntrackedInv
<1>9. CoverInv'
  BY <1>1, <1>6 DEF CoverInv
<1> QED BY <1>8, <1>9

(* The flush item of a scope, the first time its batches are offered.      *)
LEMMA FlushScopeKept ==
  ASSUME SafeSetting, AccountingInv, OrderInv, UntrackedInv, CoverInv, FlushScope
  PROVE UntrackedInv' /\ CoverInv'
<1> USE DEF mainVars, crawlVars, writerVars, storeVars, scopeVars, batchVars, uploadVars, catalogVars
<1> DEFINE item == Head(holding)
           B == Popped(item.scope)
<1>1. /\ holding # <<>> /\ putting = None /\ item.kind = "flush" /\ item.scope \in Scopes
      /\ item = holding[1] /\ 1 \in 1..Len(holding)
  BY TailFacts DEF AccountingInv, TypeOK, FlushScope, LockHolder, Items
<1>2. /\ B = {x \in BatchIds : stage[x] = "buffered" /\ item.scope \in owners[x]}
      /\ B \in SUBSET BatchIds
  BY DEF Popped, SafeSetting
<1>3. /\ OfferBatches(B, uploadQueue, stage) /\ AfterOffer(B) /\ ScopeHook(item)
      /\ crawlDone' = crawlDone \cup {item.scope}
      /\ UNCHANGED <<main, owners, recs, durable, catalogQueue>>
  BY DEF FlushScope
<1>4. \A s \in Scopes : candidate'[s] \subseteq candidate[s] \cup {Complete}
  BY <1>1, <1>3 DEF ScopeHook, AccountingInv, TypeOK
<1>5. \A x \in BatchIds : stage[x] # "popped"
  BY <1>1 DEF UntrackedInv
<1> HIDE DEF B
<1>6. Offerable(B, uploadQueue, stage)
  BY <1>2, <1>3 DEF Offerable, AccountingInv, TypeOK, QueueInv
<1>7. PICK put \in SUBSET B, next \in SUBSET B : Offered(B, stage, put, next)
  BY <1>3, <1>6, OfferedFacts
<1>8. \A x \in B : /\ stage[x] \in {"buffered", "popped"} /\ Head(holding).scope \in owners[x]
                   /\ owners[x] \cap crawlDone' \subseteq {Head(holding).scope}
  BY <1>2, <1>3 DEF UntrackedInv
<1>9. \A x \in BatchIds \ B : /\ stage[x] = stage[x] \/ (stage[x] = "held" /\ stage[x] = "uploadQueue")
                              /\ stage[x] # "popped"
                              /\ stage[x] = "buffered" => owners[x] \cap crawlDone' = {}
  BY <1>2, <1>3, <1>5 DEF UntrackedInv
<1> QED BY <1>1, <1>2, <1>3, <1>4, <1>7, <1>8, <1>9, FlushKept

(* The same loop, each time upload_queue has room again.                   *)
LEMMA WriterPutKept ==
  ASSUME SafeSetting, AccountingInv, OrderInv, UntrackedInv, CoverInv, WriterPut
  PROVE UntrackedInv' /\ CoverInv'
<1> USE DEF mainVars, crawlVars, writerVars, storeVars, scopeVars, batchVars, uploadVars, catalogVars
<1> DEFINE base == Append(uploadQueue, putting)
           st == [stage EXCEPT ![putting] = "uploadQueue"]
<1>1. /\ ResumePut /\ AfterOffer(Unsent) /\ main # "flushing"
      /\ UNCHANGED <<main, owners, recs, durable, catalogQueue, crawlDone, candidate>>
  BY DEF WriterPut, ResumePut
<1>2. holding # <<>> /\ putting \in BatchIds /\ stage[putting] = "held"
  BY <1>1 DEF ResumePut, AccountingInv, QueueInv, TypeOK
<1>3. OfferBatches(Unsent, base, st) /\ Offerable(Unsent, base, st)
  BY <1>1, ResumeOfferable
<1>4. \A x \in BatchIds : st[x] = IF x = putting THEN "uploadQueue" ELSE stage[x]
  BY <1>2 DEF AccountingInv, TypeOK
<1> HIDE DEF base, st
<1>5. PICK put \in SUBSET Unsent, next \in SUBSET Unsent : Offered(Unsent, st, put, next)
  BY <1>3, OfferedFacts
<1>6. /\ Unsent \in SUBSET BatchIds /\ \A x \in BatchIds : x \in Unsent <=> stage[x] = "popped"
  BY DEF Unsent
<1>7. \A x \in Unsent : /\ stage[x] \in {"buffered", "popped"} /\ Head(holding).scope \in owners[x]
                        /\ Head(holding).kind = "flush"
                        /\ owners[x] \cap crawlDone' \subseteq {Head(holding).scope}
  BY <1>1, <1>6 DEF UntrackedInv
<1>8. \A x \in BatchIds \ Unsent : /\ st[x] = stage[x] \/ (stage[x] = "held" /\ st[x] = "uploadQueue")
                                   /\ stage[x] # "popped"
                                   /\ stage[x] = "buffered" => owners[x] \cap crawlDone' = {}
  BY <1>1, <1>2, <1>4, <1>6 DEF UntrackedInv
<1>9. \A s \in Scopes : candidate'[s] \subseteq candidate[s] \cup {Complete}
  BY <1>1
<1> QED BY <1>1, <1>2, <1>5, <1>6, <1>7, <1>8, <1>9, FlushKept

(* Every step of a run that goes on keeps what links candidates, batches   *)
(* and durable records.                                                    *)
LEMMA KeptStep ==
  ASSUME SafeSetting, AccountingInv, CheckpointAfterDurable, OrderInv, UntrackedInv, CoverInv,
         TypeOK', Next, Live'
  PROVE UntrackedInv' /\ CoverInv'
<1> USE DEF mainVars, crawlVars, writerVars, storeVars, scopeVars, batchVars, uploadVars, catalogVars
<1>a. /\ candidate \in [Scopes -> SUBSET Marks] /\ durable \subseteq durable
      /\ stage \in [BatchIds -> Stages]
  BY DEF AccountingInv, TypeOK
<1>1. CASE (\E plan \in SUBSET Resumable : Discover(plan)) \/ DiscoverRaises \/ RequestShutdown
           \/ WriterSentinel \/ (\E c \in Crawlers : CrawlRaises(c))
  <2>1. /\ UNCHANGED <<stage, owners, recs, crawlDone, candidate, durable, main, putting, holding>>
        /\ writersUp = 0 => writersUp' = 0
    BY <1>1 DEF Discover, DiscoverRaises, RequestShutdown, WriterSentinel, CrawlRaises, IdleWriter,
                AccountingInv, TypeOK
  <2> QED BY <2>1, MoveKept
<1>2. ASSUME NEW c \in Crawlers, Crawl(c) PROVE UntrackedInv' /\ CoverInv'
  <2>1. UNCHANGED <<stage, owners, recs, crawlDone, durable, main, putting, holding, writersUp>>
    BY <1>2 DEF Crawl, BeginScope, CrawlRecord, EndScope, PutItem, CrawlerReturns
  <2>2. ASSUME NEW s \in Scopes
        PROVE candidate'[s] \subseteq candidate[s] \cup {Complete} \cup durable'
    <3>1. candidate' = candidate \/ \E t \in Scopes : candidate' = [candidate EXCEPT ![t] = checkpoint[t]]
      BY <1>2 DEF Crawl, BeginScope, CrawlRecord, EndScope, PutItem, CrawlerReturns
    <3>2. checkpoint[s] \subseteq {Complete} \cup durable
      BY DEF CheckpointAfterDurable
    <3> QED BY <1>a, <2>1, <3>1, <3>2
  <2> QED BY <2>1, <2>2, MoveKept
<1>3. CASE WriterGet
  <2>1. /\ UNCHANGED <<stage, owners, recs, crawlDone, candidate, durable, main, putting>>
        /\ writersUp = 0 => writersUp' = 0
    BY <1>3 DEF WriterGet, IdleWriter, AccountingInv, TypeOK
  <2>2. putting # None /\ main # "flushing" => Head(holding') = Head(holding)
    <3>1. holding # <<>> => Head(Append(holding, Head(recordQueue))) = Head(holding)
      BY <1>3 DEF WriterGet, AccountingInv, TypeOK
    <3> QED BY <1>3, <3>1 DEF WriterGet, AccountingInv, QueueInv
  <2> QED BY <2>1, <2>2, MoveKept
<1>4. CASE SkipRecord \/ UnchangedRecord \/ WriterRaises
  <2>1. /\ UNCHANGED <<stage, owners, recs, crawlDone, durable, main, putting>>
        /\ putting = None /\ holding # <<>>
    BY <1>4 DEF SkipRecord, UnchangedRecord, WriterRaises, LockHolder
  <2>2. writersUp # 0
    BY <2>1 DEF AccountingInv, TypeOK, WorkersInv
  <2>3. \A s \in Scopes : candidate'[s] \subseteq candidate[s] \cup {Complete} \cup durable'
    <3>1. CASE SkipRecord \/ WriterRaises
      BY <3>1 DEF SkipRecord, WriterRaises
    <3>2. CASE UnchangedRecord
      <4>1. PICK t \in Scopes, r \in durable : candidate' = [candidate EXCEPT ![t] = @ \cup {r}]
        <5>1. Head(holding).scope \in Scopes
          BY <3>2 DEF UnchangedRecord, LockHolder, AccountingInv, TypeOK, Items
        <5> QED BY <3>2, <5>1 DEF UnchangedRecord
      <4> QED BY <1>a, <2>1, <4>1
    <3> QED BY <1>4, <3>1, <3>2
  <2> QED BY <2>1, <2>2, <2>3, MoveKept
<1>5. CASE BufferRecord \/ FlushScope \/ WriterPut \/ HookRaises
  BY <1>5, RecordKept, FlushScopeKept, WriterPutKept, HookKept
<1>6. ASSUME NEW u \in Uploaders, UploadWorker(u) \/ UploadRaises(u) PROVE UntrackedInv' /\ CoverInv'
  <2>1. UNCHANGED <<owners, recs, crawlDone, candidate, durable, main, putting, holding, writersUp>>
    BY <1>6 DEF UploadWorker, UploaderGet, UploaderSentinel, Upload, PutCatalogJob, UploadRaises
  <2>2. ASSUME NEW x \in BatchIds
        PROVE \/ stage'[x] = stage[x]
              \/ /\ stage[x] \in {"uploadQueue", "uploading", "uploaded"}
                 /\ stage'[x] \in {"lost", "uploading", "uploaded", "catalogQueue"}
    <3>1. uploadQueue # <<>> => stage[Head(uploadQueue)] = "uploadQueue"
      BY TailFacts DEF AccountingInv, TypeOK, QueueInv
    <3> QED BY <1>a, <1>6, <3>1 DEF UploadWorker, UploaderGet, UploaderSentinel, Upload, PutCatalogJob,
                                    UploadRaises
  <2> QED BY <2>1, <2>2, MoveKept
<1>7. ASSUME NEW k \in Catalogers, CatalogWorker(k) \/ CatalogRaises(k) PROVE UntrackedInv' /\ CoverInv'
  <2>1. /\ UNCHANGED <<owners, recs, crawlDone, candidate, main, putting, holding, writersUp>>
        /\ durable \subseteq durable'
    BY <1>7 DEF CatalogWorker, CatalogerGet, CatalogerSentinel, CommitBatch, CompleteBatch, CatalogRaises
  <2>2. ASSUME NEW x \in BatchIds
        PROVE \/ stage'[x] = stage[x]
              \/ /\ stage[x] \in {"catalogQueue", "cataloging", "committed"}
                 /\ stage'[x] \in {"lost", "cataloging", "committed", "done"}
                 /\ stage'[x] \in {"committed", "done"} =>
                      stage[x] = "committed" \/ recs[x] \subseteq durable'
    <3>1. catalogQueue # <<>> => stage[Head(catalogQueue)] = "catalogQueue"
      BY TailFacts DEF AccountingInv, TypeOK, QueueInv
    <3> QED BY <1>a, <1>7, <3>1 DEF CatalogWorker, CatalogerGet, CatalogerSentinel, CommitBatch,
                                    CompleteBatch, CatalogRaises
  <2> QED BY <2>1, <2>2, MoveKept
<1>8. CASE Main
  <2>1. CASE FlushAll \/ MainPut
    BY <2>1, MainKept
  <2>2. CASE CrawlOver \/ PutSentinel \/ UploadOver \/ CatalogOver
    <3>1. /\ UNCHANGED <<stage, owners, recs, crawlDone, candidate, durable, putting, holding, writersUp>>
          /\ main # "flushing" /\ main' # "flushing"
      BY <2>2 DEF CrawlOver, PutSentinel, UploadOver, CatalogOver, StageOver
    <3> QED BY <3>1, MoveKept
  <2> QED BY <1>8, <2>1, <2>2 DEF Main, FailFast, MainPutRaises, Live
<1>9. ASSUME NEW b \in BatchIds, FinalFlush(b) PROVE UntrackedInv' /\ CoverInv'
  <2>1. /\ UNCHANGED <<owners, recs, crawlDone, candidate, main, putting, holding, writersUp>>
        /\ stage' = [stage EXCEPT ![b] = "done"] /\ stage[b] = "buffered"
        /\ durable' = durable \cup recs[b]
    BY <1>9 DEF FinalFlush
  <2>2. \A x \in BatchIds : stage'[x] = IF x = b THEN "done" ELSE stage[x]
    BY <1>a, <2>1
  <2>3. UntrackedInv'
    <3>1. \A s \in Scopes : CountedWith(s, {"lost"}) => CountedWith(s, {"lost"})'
      BY <2>1, <2>2 DEF CountedWith
    <3>2. ASSUME NEW x \in BatchIds, stage'[x] = "dropped"
          PROVE /\ writersUp' = 0
                /\ \A s \in owners'[x] \cap crawlDone' : CountedWith(s, {"lost"})'
      BY <2>1, <2>2, <3>1, <3>2 DEF UntrackedInv, AccountingInv, TypeOK
    <3> QED BY <2>1, <2>2, <3>2 DEF UntrackedInv
  <2>4. CoverInv'
    BY <2>1, <2>2 DEF CoverInv
  <2> QED BY <2>3, <2>4
<1>10. ASSUME NEW k \in Catalogers, OrphanCommit(k) PROVE UntrackedInv' /\ CoverInv'
  BY <1>10 DEF OrphanCommit, Live
<1> QED BY <1>1, <1>2, <1>3, <1>4, <1>5, <1>6, <1>7, <1>8, <1>9, <1>10, StepKinds
     DEF Resumed, HolderRaises, Unforced, HoldLock

-----------------------------------------------------------------------------
(* The checkpoint.                                                         *)

(* A scope that is ready has nothing left that is not durable.             *)
LEMMA ReadyIsDurable ==
  ASSUME AccountingInv', UntrackedInv', CoverInv', NEW s \in Scopes,
         s \in crawlDone', pendingBatches'[s] = 0, ~HasScope(s)
  PROVE candidate'[s] \ {Complete} \subseteq durable'
<1>1. PendingOf(s)' = {}
  <2>1. IsFiniteSet(PendingOf(s)')
    BY FS_Subset, DataAssumption DEF PendingOf
  <2>2. Cardinality(PendingOf(s)') = 0
    BY DEF AccountingInv, PendingAccounting
  <2> QED BY <2>1, <2>2, FS_EmptySet
<1>2. ASSUME NEW x \in BatchIds, s \in owners'[x],
             stage'[x] \notin {"free", "committed", "done"}
      PROVE FALSE
  <2>1. stage'[x] \notin Tracked
    BY <1>1, <1>2 DEF PendingOf
  <2>2. stage'[x] \in Stages
    BY DEF AccountingInv, TypeOK
  <2>3. stage'[x] # "buffered"
    BY <1>2 DEF HasScope
  <2>4. CASE stage'[x] = "popped"
    <3>1. main' # "flushing" /\ Head(holding').scope = s /\ s \in owners'[putting'] /\ putting' # None
      BY <1>2, <2>4 DEF UntrackedInv
    <3>2. putting' \in BatchIds /\ stage'[putting'] = "held"
      BY <3>1 DEF AccountingInv, TypeOK, QueueInv
    <3> QED BY <1>1, <3>1, <3>2 DEF PendingOf, Tracked, Stages
  <2>5. CASE stage'[x] = "dropped"
    <3>1. PICK y \in BatchIds : stage'[y] = "lost" /\ s \in owners'[y]
      BY <1>2, <2>5 DEF UntrackedInv, CountedWith
    <3> QED BY <1>1, <3>1 DEF PendingOf, Tracked, Stages
  <2> QED BY <1>2, <2>1, <2>2, <2>3, <2>4, <2>5 DEF Tracked
<1> QED BY <1>2 DEF CoverInv

(* Saving the candidates of the ready scopes saves durable records only.   *)
LEMMA CompleteKeeps ==
  ASSUME AccountingInv', UntrackedInv', CoverInv', CheckpointAfterDurable,
         NEW S \in SUBSET Scopes, CompleteIfReady(S), durable \subseteq durable'
  PROVE CheckpointAfterDurable'
<1> SUFFICES ASSUME NEW s \in Scopes
             PROVE checkpoint'[s] \ {Complete} \subseteq durable'
  BY DEF CheckpointAfterDurable
<1> DEFINE ready == {t \in S \ closed : /\ t \in crawlDone'
                                        /\ pendingBatches'[t] = 0
                                        /\ ~HasScope(t)}
<1>1. checkpoint'[s] = IF s \in ready THEN candidate'[s] ELSE checkpoint[s]
  BY DEF CompleteIfReady
<1>2. CASE s \in ready
  <2>1. s \in crawlDone' /\ pendingBatches'[s] = 0 /\ ~HasScope(s)
    BY <1>2
  <2> QED BY <1>1, <1>2, <2>1, ReadyIsDurable
<1>3. CASE s \notin ready
  BY <1>1, <1>3 DEF CheckpointAfterDurable
<1> QED BY <1>2, <1>3

(* No step saves a checkpoint ahead of the data: neither a flush item nor  *)
(* _complete_batch does, and after the tasks are cancelled nothing is      *)
(* saved.                                                                  *)
LEMMA CheckpointStep ==
  ASSUME AccountingInv, CheckpointAfterDurable, AccountingInv', Next,
         Live' => UntrackedInv' /\ CoverInv'
  PROVE CheckpointAfterDurable'
<1> USE DEF mainVars, crawlVars, writerVars, storeVars, scopeVars, batchVars, uploadVars, catalogVars
<1>1. ASSUME NEW B \in SUBSET BatchIds, AfterOffer(B), holding # <<>>, UNCHANGED <<main, durable>>
      PROVE CheckpointAfterDurable'
  <2>1. Head(holding).scope \in Scopes /\ Live'
    <3>1. holding \in Seq(Items) /\ Len(holding) <= writersUp /\ writersUp \in Nat
      BY DEF AccountingInv, TypeOK, WorkersInv
    <3>2. Head(holding) \in Items /\ writersUp # 0
      BY <1>1, <3>1
    <3> QED BY <1>1, <3>2 DEF Items, AccountingInv, WorkersInv, Live
  <2>2. CASE putting' # None
    BY <1>1, <2>2 DEF AfterOffer, CheckpointAfterDurable
  <2>3. CASE putting' = None
    <3>1. PICK S \in SUBSET Scopes : CompleteIfReady(S)
      BY <1>1, <2>1, <2>3 DEF AfterOffer
    <3> QED BY <1>1, <2>1, <3>1, CompleteKeeps
  <2> QED BY <2>2, <2>3
<1>2. CASE BufferRecord
  <2>1. PICK B \in SUBSET BatchIds : AfterOffer(B)
    <3>1. BufferOf(Head(holding).rec) \in BatchIds
      <4>1. Head(holding) \in [kind : {"record"}, scope : Scopes, rec : Records]
        BY <1>2 DEF AccountingInv, TypeOK, BufferRecord, LockHolder, Items
      <4> QED BY <1>2, <4>1, BufferFacts DEF AccountingInv, BufferRecord
    <3> QED BY <1>2, <3>1 DEF BufferRecord
  <2>2. holding # <<>> /\ UNCHANGED <<main, durable>>
    BY <1>2 DEF BufferRecord, LockHolder
  <2> QED BY <1>1, <2>1, <2>2
<1>3. CASE FlushScope
  BY <1>1, <1>3 DEF FlushScope, LockHolder, Popped
<1>4. CASE WriterPut
  BY <1>1, <1>4 DEF WriterPut, ResumePut, AccountingInv, QueueInv, Unsent
<1>5. ASSUME NEW k \in Catalogers, CompleteBatch(k) PROVE CheckpointAfterDurable'
  <2>1. /\ CompleteIfReady(owners[cataloging[k]]) /\ UNCHANGED <<main, durable>>
        /\ owners[cataloging[k]] \in SUBSET Scopes /\ k \in catalogersUp
    BY <1>5 DEF CompleteBatch, AccountingInv, TypeOK
  <2>2. Live'
    BY <2>1 DEF AccountingInv, WorkersInv, Live
  <2> QED BY <2>1, <2>2, CompleteKeeps
<1>6. CASE UNCHANGED checkpoint /\ durable \subseteq durable'
  BY <1>6 DEF CheckpointAfterDurable
<1>7. ASSUME NEW c \in Crawlers, Crawl(c) PROVE UNCHANGED <<checkpoint, durable>>
  BY <1>7 DEF Crawl, BeginScope, CrawlRecord, EndScope, PutItem, CrawlerReturns
<1>8. ASSUME NEW u \in Uploaders, UploadWorker(u) \/ UploadRaises(u)
      PROVE UNCHANGED <<checkpoint, durable>>
  BY <1>8 DEF UploadWorker, UploaderGet, UploaderSentinel, Upload, PutCatalogJob, UploadRaises
<1>9. ASSUME NEW k \in Catalogers,
             \/ CatalogerGet(k) \/ CatalogerSentinel(k) \/ CommitBatch(k) \/ CatalogRaises(k)
             \/ OrphanCommit(k)
      PROVE UNCHANGED checkpoint /\ durable \subseteq durable'
  BY <1>9 DEF CatalogerGet, CatalogerSentinel, CommitBatch, CatalogRaises, OrphanCommit
<1>10. CASE Main
  BY <1>6, <1>10 DEF Main, CrawlOver, PutSentinel, FlushAll, MainPut, ResumePut, UploadOver, CatalogOver,
                     FailFast, MainPutRaises, CancelTasks
<1>11. CASE SkipRecord \/ UnchangedRecord \/ WriterGet \/ WriterSentinel \/ DiscoverRaises
            \/ WriterRaises \/ HookRaises \/ RequestShutdown
  BY <1>6, <1>11 DEF SkipRecord, UnchangedRecord, WriterGet, WriterSentinel, DiscoverRaises, WriterRaises,
                     HookRaises, RequestShutdown
<1>12. CASE \/ \E plan \in SUBSET Resumable : Discover(plan)
            \/ \E c \in Crawlers : CrawlRaises(c)
            \/ \E b \in BatchIds : FinalFlush(b)
  BY <1>6, <1>12 DEF Discover, CrawlRaises, FinalFlush
<1> QED BY <1>2, <1>3, <1>4, <1>5, <1>6, <1>7, <1>8, <1>9, <1>10, <1>11, <1>12, StepKinds
     DEF Resumed, HolderRaises, Unforced, HoldLock, CatalogWorker

(* A run starts from checkpoints that cover durable records.               *)
LEMMA InitCheckpoint == ASSUME Init PROVE IInv
<1>1. AccountingInv
  BY InitAccounting
<1>2. CheckpointAfterDurable
  BY DEF Init, CheckpointAfterDurable
<1>3. OrderInv
  <2>1. Len(recordQueue) = 0 /\ Len(holding) = 0 /\ 1..0 = {}
    BY DEF Init
  <2>2. \A s \in Scopes : Untouched(s)
    BY <2>1, DataAssumption DEF Init, Untouched, NoItemOf
  <2>3. Fresh /\ OneCrawler /\ CrawledNotFlushed
    BY <2>2 DEF Init, Fresh, OneCrawler, CrawledNotFlushed
  <2> QED BY <2>1, <2>3 DEF OrderInv, FlushLast, NotDoneYet
<1>4. UntrackedInv
  BY DEF Init, UntrackedInv
<1>5. CoverInv
  BY DEF Init, CoverInv
<1> QED BY <1>1, <1>2, <1>3, <1>4, <1>5 DEF IInv

(* A run whose tasks were cancelled does not come back.                    *)
LEMMA EndedStays == ASSUME Next, ~Live PROVE ~Live'
<1> USE DEF mainVars, crawlVars, writerVars, storeVars, scopeVars, batchVars, uploadVars, catalogVars
<1>1. CASE Main
  BY <1>1 DEF Main, CrawlOver, PutSentinel, FlushAll, MainPut, MainAfterOffer, UploadOver, CatalogOver,
              StageOver, FailFast, MainPutRaises, Live
<1>2. ASSUME NEW c \in Crawlers, Crawl(c) PROVE UNCHANGED main
  BY <1>2 DEF Crawl, BeginScope, CrawlRecord, EndScope, PutItem, CrawlerReturns
<1>3. ASSUME WriterGet \/ WriterSentinel \/ HoldLock \/ WriterRaises \/ HookRaises PROVE UNCHANGED main
  BY <1>3 DEF WriterGet, WriterSentinel, HoldLock, SkipRecord, UnchangedRecord, BufferRecord, FlushScope,
              WriterPut, WriterRaises, HookRaises
<1>4. ASSUME NEW u \in Uploaders, UploadWorker(u) \/ UploadRaises(u) PROVE UNCHANGED main
  BY <1>4 DEF UploadWorker, UploaderGet, UploaderSentinel, Upload, PutCatalogJob, UploadRaises
<1>5. ASSUME NEW k \in Catalogers, CatalogWorker(k) \/ CatalogRaises(k) \/ OrphanCommit(k)
      PROVE UNCHANGED main
  BY <1>5 DEF CatalogWorker, CatalogerGet, CatalogerSentinel, CommitBatch, CompleteBatch, CatalogRaises,
              OrphanCommit
<1>6. ASSUME \/ DiscoverRaises \/ RequestShutdown
             \/ \E plan \in SUBSET Resumable : Discover(plan)
             \/ \E c \in Crawlers : CrawlRaises(c)
             \/ \E b \in BatchIds : FinalFlush(b)
      PROVE UNCHANGED main
  BY <1>6 DEF DiscoverRaises, RequestShutdown, Discover, CrawlRaises, FinalFlush
<1> QED BY <1>1, <1>2, <1>3, <1>4, <1>5, <1>6, StepKinds
     DEF Resumed, HolderRaises, Unforced, Live

(* The inductive step: IInv is kept by every step of the runtime when each *)
(* finished scope is flushed and there is one writer, or no failure.       *)
THEOREM SafetyStep == SafeSetting /\ IInv /\ [Next]_vars => IInv'
<1> SUFFICES ASSUME SafeSetting, IInv, [Next]_vars PROVE IInv'
  OBVIOUS
<1>1. AccountingInv'
  BY AccountingStep DEF IInv
<1>2. CASE UNCHANGED vars
  BY <1>1, <1>2 DEF vars, mainVars, crawlVars, writerVars, storeVars, scopeVars, batchVars, uploadVars,
     catalogVars, IInv, Live, CheckpointAfterDurable, OrderInv, Fresh, OneCrawler, CrawledNotFlushed,
     FlushLast, NotDoneYet, Untouched, NoItemOf, UntrackedInv, CoverInv, CountedWith
<1>3. CASE Next
  <2>1. Live' => Live
    BY <1>3, EndedStays
  <2>2. Live' => OrderInv' /\ UntrackedInv' /\ CoverInv'
    BY <1>1, <1>3, <2>1, OrderStep, KeptStep DEF IInv, AccountingInv
  <2>3. CheckpointAfterDurable'
    BY <1>1, <1>3, <2>2, CheckpointStep DEF IInv
  <2> QED BY <1>1, <2>2, <2>3 DEF IInv
<1> QED BY <1>2, <1>3

(* The inductive invariant holds in every run: the accounting is exact, the  *)
(* flush of a scope comes last, and what a candidate covers is durable or   *)
(* counted.                                                                 *)
THEOREM SafetyInvariant == ASSUME SafeSetting PROVE Spec => []IInv
<1>1. Init => IInv
  BY InitCheckpoint
<1>2. IInv /\ [Next]_vars => IInv'
  BY SafetyStep
<1> QED BY <1>1, <1>2, PTL DEF Spec

(* With a flush for every finished scope, and one writer or no failure, no *)
(* checkpoint ever covers a record that is not durable.                    *)
THEOREM CheckpointSafety == ASSUME SafeSetting PROVE Spec => []CheckpointAfterDurable
<1>1. IInv => CheckpointAfterDurable
  BY DEF IInv
<1> QED BY <1>1, SafetyInvariant, PTL

-----------------------------------------------------------------------------
(* The promise: a run implements DurableCrawl.                             *)

(* A candidate never loses a mark its stored checkpoint has.               *)
CandidateAhead == \A s \in Scopes : checkpoint[s] \subseteq candidate[s]

(* What a step may do to the abstract state: store, or save what is ahead. *)
StoresOrSaves ==
  /\ durable \subseteq durable'
  /\ \A s \in Scopes : checkpoint[s] \subseteq checkpoint'[s]
  /\ checkpoint' = checkpoint \/ durable' = durable

-----------------------------------------------------------------------------
(* A candidate that grows stays ahead, whether ready scopes are saved or   *)
(* nothing is.                                                             *)
LEMMA SavedAhead ==
  ASSUME CandidateAhead, durable' = durable,
         \A s \in Scopes : candidate[s] \subseteq candidate'[s],
         \/ UNCHANGED checkpoint
         \/ \E S \in SUBSET Scopes : CompleteIfReady(S)
  PROVE  CandidateAhead' /\ StoresOrSaves
BY DEF CandidateAhead, StoresOrSaves, CompleteIfReady

(* The writer's loop over popped batches ends with a look at its scope.    *)
LEMMA AfterOfferAhead ==
  ASSUME AccountingInv, CandidateAhead, holding # <<>>, durable' = durable,
         NEW B \in SUBSET BatchIds, AfterOffer(B),
         \A s \in Scopes : candidate[s] \subseteq candidate'[s]
  PROVE  CandidateAhead' /\ StoresOrSaves
<1>1. Head(holding).scope \in Scopes
  <2>1. holding \in Seq(Items)
    BY DEF AccountingInv, TypeOK
  <2>2. Head(holding) \in Items
    BY <2>1
  <2> QED BY <2>2 DEF Items
<1>2. UNCHANGED checkpoint \/ \E S \in SUBSET Scopes : CompleteIfReady(S)
  BY <1>1 DEF AfterOffer
<1> QED BY <1>2, SavedAhead

(* Every step of the runtime stores records or saves candidates.           *)
LEMMA AheadStep ==
  ASSUME AccountingInv, CandidateAhead, [Next]_vars
  PROVE  CandidateAhead' /\ StoresOrSaves
<1> USE DEF mainVars, crawlVars, writerVars, storeVars, scopeVars, batchVars, uploadVars, catalogVars
<1>0. /\ candidate \in [Scopes -> SUBSET Marks] /\ TypeOK
  BY DEF AccountingInv, TypeOK
<1>1. CASE UNCHANGED <<candidate, checkpoint>> /\ durable \subseteq durable'
  BY <1>1 DEF CandidateAhead, StoresOrSaves
<1>2. CASE SkipRecord
  BY <1>1, <1>2 DEF SkipRecord
<1>3. CASE UnchangedRecord
  <2>1. \A s \in Scopes : candidate[s] \subseteq candidate'[s]
    BY <1>0, <1>3 DEF UnchangedRecord
  <2> QED BY <1>3, <2>1, SavedAhead DEF UnchangedRecord
<1>4. CASE BufferRecord
  <2>1. PICK B \in SUBSET BatchIds : AfterOffer(B)
    <3>1. BufferOf(Head(holding).rec) \in BatchIds
      <4>1. Head(holding) \in [kind : {"record"}, scope : Scopes, rec : Records]
        BY <1>4 DEF AccountingInv, TypeOK, BufferRecord, LockHolder, Items
      <4> QED BY <1>4, <4>1, BufferFacts DEF AccountingInv, BufferRecord
    <3> QED BY <1>4, <3>1 DEF BufferRecord
  <2>2. \A s \in Scopes : candidate[s] \subseteq candidate'[s]
    BY <1>0, <1>4 DEF BufferRecord
  <2>3. holding # <<>> /\ durable' = durable
    BY <1>4 DEF BufferRecord, LockHolder
  <2> QED BY <2>1, <2>2, <2>3, AfterOfferAhead
<1>5. CASE FlushScope
  <2>1. \A s \in Scopes : candidate[s] \subseteq candidate'[s]
    BY <1>0, <1>5 DEF FlushScope, ScopeHook
  <2>2. /\ holding # <<>> /\ durable' = durable
        /\ \E B \in SUBSET BatchIds : AfterOffer(B)
    BY <1>5 DEF FlushScope, LockHolder, Popped
  <2> QED BY <2>1, <2>2, AfterOfferAhead
<1>6. CASE WriterPut
  <2>1. /\ holding # <<>> /\ durable' = durable /\ candidate' = candidate
        /\ AfterOffer(Unsent) /\ Unsent \in SUBSET BatchIds
    BY <1>6 DEF WriterPut, ResumePut, AccountingInv, QueueInv, Unsent
  <2> QED BY <2>1, AfterOfferAhead
<1>7. ASSUME NEW k \in Catalogers, CompleteBatch(k) PROVE CandidateAhead' /\ StoresOrSaves
  <2>1. /\ CompleteIfReady(owners[cataloging[k]]) /\ UNCHANGED <<candidate, durable>>
        /\ owners[cataloging[k]] \in SUBSET Scopes
    BY <1>7 DEF CompleteBatch, AccountingInv, TypeOK
  <2> QED BY <2>1, SavedAhead
<1>8. ASSUME NEW c \in Crawlers, Crawl(c) PROVE CandidateAhead' /\ StoresOrSaves
  <2>1. ASSUME NEW s \in Scopes, BeginScope(c, s) PROVE CandidateAhead' /\ StoresOrSaves
    BY <1>0, <2>1 DEF BeginScope, CandidateAhead, StoresOrSaves
  <2> QED BY <1>1, <1>8, <2>1 DEF Crawl, CrawlRecord, EndScope, PutItem, CrawlerReturns
<1>9. ASSUME NEW u \in Uploaders, UploadWorker(u) \/ UploadRaises(u)
      PROVE UNCHANGED <<candidate, checkpoint, durable>>
  BY <1>9 DEF UploadWorker, UploaderGet, UploaderSentinel, Upload, PutCatalogJob, UploadRaises
<1>10. ASSUME NEW k \in Catalogers,
              \/ CatalogerGet(k) \/ CatalogerSentinel(k) \/ CommitBatch(k) \/ CatalogRaises(k)
              \/ OrphanCommit(k)
       PROVE UNCHANGED <<candidate, checkpoint>> /\ durable \subseteq durable'
  BY <1>10 DEF CatalogerGet, CatalogerSentinel, CommitBatch, CatalogRaises, OrphanCommit
<1>11. CASE Main
  BY <1>1, <1>11 DEF Main, CrawlOver, PutSentinel, FlushAll, MainPut, ResumePut, UploadOver,
                     CatalogOver, FailFast, MainPutRaises, CancelTasks
<1>12. CASE \/ WriterGet \/ WriterSentinel \/ DiscoverRaises \/ WriterRaises \/ HookRaises
            \/ RequestShutdown \/ UNCHANGED vars
  BY <1>1, <1>12 DEF WriterGet, WriterSentinel, DiscoverRaises, WriterRaises, HookRaises,
                     RequestShutdown, vars
<1>13. CASE \/ \E plan \in SUBSET Resumable : Discover(plan)
            \/ \E c \in Crawlers : CrawlRaises(c)
            \/ \E b \in BatchIds : FinalFlush(b)
  BY <1>1, <1>13 DEF Discover, CrawlRaises, FinalFlush
<1> QED BY <1>1, <1>2, <1>3, <1>4, <1>5, <1>6, <1>7, <1>8, <1>9, <1>10, <1>11, <1>12, <1>13, StepKinds
     DEF Resumed, HolderRaises, Unforced, HoldLock, CatalogWorker

-----------------------------------------------------------------------------
(* The run keeps the crawl's promise: what is durable stays so, and a      *)
(* checkpoint is only ever replaced by one with more marks, all durable.   *)
THEOREM RunKeepsPromise == ASSUME SafeSetting PROVE Spec => KeepsPromise
<1> DEFINE Inv == IInv /\ CandidateAhead
<1>1. Init => Inv
  <2>1. ASSUME Init PROVE IInv /\ CandidateAhead
    BY <2>1, InitCheckpoint DEF Init, CandidateAhead
  <2> QED BY <2>1
<1>2. ASSUME Inv, [Next]_vars PROVE Inv' /\ StoresOrSaves
  <2>1. IInv'
    BY <1>2, SafetyStep
  <2>2. CandidateAhead' /\ StoresOrSaves
    BY <1>2, AheadStep DEF IInv
  <2> QED BY <2>1, <2>2
<1>3. IInv => /\ Promise!Covered(checkpoint) /\ durable \subseteq Records
  BY DEF IInv, AccountingInv, TypeOK, Marks, CheckpointAfterDurable, Promise!Covered
<1>4. Init => Promise!Init
  BY <1>1, <1>3 DEF Promise!Init
<1>5. ASSUME Inv, Inv', StoresOrSaves PROVE [Promise!Next]_<<durable, checkpoint>>
  <2>1. /\ checkpoint' \in [Scopes -> SUBSET Marks] /\ durable' \subseteq Records
        /\ \A s \in Scopes : checkpoint'[s] \ {Complete} \subseteq durable'
    BY <1>5 DEF IInv, AccountingInv, TypeOK, CheckpointAfterDurable
  <2>2. CASE checkpoint' = checkpoint
    BY <1>5, <2>1, <2>2 DEF StoresOrSaves, Promise!Next, Promise!Store
  <2>3. CASE durable' = durable
    BY <1>5, <2>1, <2>3 DEF StoresOrSaves, Promise!Next, Promise!Save, Promise!Covered, Marks
  <2> QED BY <1>5, <2>2, <2>3 DEF StoresOrSaves
<1>6. Inv /\ [Next]_vars => Inv' /\ [Promise!Next]_<<durable, checkpoint>>
  BY <1>2, <1>5
<1> HIDE DEF Inv
<1> QED BY <1>1, <1>4, <1>6, PTL DEF Spec, KeepsPromise, Promise!Spec

=============================================================================
