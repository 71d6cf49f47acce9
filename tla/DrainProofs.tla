------------------------------ MODULE DrainProofs ------------------------------
(***************************************************************************)
(* What a run of ConcurrentRuntime has done when it says it is done, for   *)
(* every set of scopes, records and workers and every queue size. A        *)
(* checkpoint marked complete covers the whole crawl of its scope, with one*)
(* writer or without failures (CompleteIsWhole). A run that ends normally  *)
(* has left nothing behind: whatever was buffered is durable, with any     *)
(* number of writers and any failures (DrainIsDurable). A run that has not *)
(* ended can take a step unless a worker has failed while main puts        *)
(* sentinels or batches (RunNeverStuck), and it takes finitely many        *)
(* (RunIsFinite).                                                          *)
(***************************************************************************)
EXTENDS ConcurrentRuntimeProofs

-----------------------------------------------------------------------------
(* The invariant behind CompleteCoversCrawl.                               *)

(* Record r of scope s is on its way to a writer, or in a writer's hands.  *)
Waiting(s, r) ==
  \/ \E c \in Crawlers : offer[c] = RecordItem(s, r)
  \/ \E i \in 1..Len(recordQueue) : recordQueue[i] = RecordItem(s, r)
  \/ \E i \in 1..Len(holding) : holding[i] = RecordItem(s, r)

(* While there is a writer, a record a crawl has yielded waits for it or   *)
(* is decided; the record whose batch is being put is decided too.         *)
NoRecordLost ==
  /\ writersUp > 0 =>
       \A s \in Scopes : \A r \in crawled[s] :
         r \in candidate[s] \cup skipped[s] \/ Waiting(s, r)
  /\ putting # None /\ holding # <<>> /\ Head(holding).kind = "record" =>
       Head(holding).rec \in candidate[Head(holding).scope]

(* A flush item that asks for the mark was put after the crawl ended by    *)
(* itself.                                                                 *)
MarkFollowsEnd ==
  /\ \A c \in Crawlers :
       offer[c] # None /\ offer[c].kind = "flush" /\ offer[c].checkpointScope
         => offer[c].scope \in exhausted
  /\ \A i \in 1..Len(recordQueue) :
       recordQueue[i].kind = "flush" /\ recordQueue[i].checkpointScope
         => recordQueue[i].scope \in exhausted
  /\ \A i \in 1..Len(holding) :
       holding[i].kind = "flush" /\ holding[i].checkpointScope
         => holding[i].scope \in exhausted

(* Only the flush of a scope marks it, and a marked candidate is whole.    *)
MarkedIsWhole ==
  \A s \in Scopes :
    /\ Complete \in candidate[s] \cup checkpoint[s] => s \in crawlDone
    /\ Complete \in candidate[s] =>
         s \in exhausted /\ crawled[s] \subseteq candidate[s] \cup skipped[s]

NotBegun ==
  \A s \in Scopes : discovery = "running" \/ s \in scopeQueue => crawled[s] = {}

WholeInv == NoRecordLost /\ MarkFollowsEnd /\ MarkedIsWhole /\ NotBegun

CompleteInv ==
  /\ AccountingInv
  /\ CompleteCoversCrawl
  /\ Live => OrderInv /\ WholeInv

-----------------------------------------------------------------------------
(* Every step keeps it.                                                    *)

Guarded == WriterCount = 1 \/ Faults = {}

(* The items of the queues are items, and a record item is its own name.   *)
LEMMA ItemFacts ==
  ASSUME TypeOK
  PROVE /\ \A c \in Crawlers : offer[c] \in Items \cup {None}
        /\ \A i \in 1..Len(recordQueue) : recordQueue[i] \in Items
        /\ \A i \in 1..Len(holding) : holding[i] \in Items
        /\ \A x \in Items : x.scope \in Scopes
        /\ \A x \in Items : x.kind = "record" =>
             x.rec \in Records /\ x = RecordItem(x.scope, x.rec)
        /\ \A s, r : /\ RecordItem(s, r).kind = "record" /\ RecordItem(s, r).scope = s
                     /\ RecordItem(s, r).rec = r
        /\ \A s \in Scopes, r \in Records : RecordItem(s, r) # None
  BY ItemTypes, ItemAssumption DEF TypeOK, Items, RecordItem

(* A crawl worker moves a record along, and what it newly yields is on its *)
(* way.                                                                    *)
LEMMA WaitingCrawl ==
  ASSUME TypeOK, NEW c \in Crawlers, Crawl(c)
  PROVE /\ \A t \in Scopes, x \in Records : Waiting(t, x) => Waiting(t, x)'
        /\ \A t \in Scopes : \A x \in crawled'[t] : x \in crawled[t] \/ Waiting(t, x)'
<1> USE DEF mainVars, crawlVars, writerVars, storeVars, scopeVars
<1> DEFINE Moved == \A t \in Scopes, x \in Records : Waiting(t, x) => Waiting(t, x)'
<1>1. ASSUME NEW r \in Records, CrawlRecord(c, r)
      PROVE Moved /\ \A t \in Scopes : \A x \in crawled'[t] : x \in crawled[t] \/ Waiting(t, x)'
  <2>0. PICK s \in Scopes : s = crawling[c]
    BY <1>1 DEF CrawlRecord, InCrawl, TypeOK
  <2>1. /\ \A t \in Scopes : crawled'[t] = IF t = s THEN crawled[t] \cup {r} ELSE crawled[t]
        /\ \A d \in Crawlers : offer'[d] = IF d = c THEN RecordItem(s, r) ELSE offer[d]
        /\ offer[c] = None /\ UNCHANGED <<recordQueue, holding>>
    BY <1>1, <2>0 DEF CrawlRecord, InCrawl, TypeOK
  <2>2. Waiting(s, r)'
    BY <2>1 DEF Waiting
  <2>3. ASSUME NEW t \in Scopes, NEW x \in Records, Waiting(t, x) PROVE Waiting(t, x)'
    <3>1. RecordItem(t, x) # None
      BY ItemFacts
    <3> QED BY <2>1, <2>3, <3>1 DEF Waiting
  <2> QED BY <2>1, <2>2, <2>3
<1>2. CASE EndScope(c)
  <2>1. /\ offer[c] = None /\ UNCHANGED <<crawled, recordQueue, holding>>
        /\ \A d \in Crawlers \ {c} : offer'[d] = offer[d]
    BY <1>2 DEF EndScope, InCrawl, TypeOK
  <2>2. ASSUME NEW t \in Scopes, NEW x \in Records, Waiting(t, x) PROVE Waiting(t, x)'
    <3>1. RecordItem(t, x) # None
      BY ItemFacts
    <3> QED BY <2>1, <2>2, <3>1 DEF Waiting
  <2> QED BY <2>1, <2>2
<1>3. CASE PutItem(c)
  <2>1. /\ offer[c] # None /\ offer[c] \in Items
        /\ recordQueue \in Seq(Items) /\ recordQueue' = Append(recordQueue, offer[c])
        /\ \A d \in Crawlers : offer'[d] = IF d = c THEN None ELSE offer[d]
        /\ UNCHANGED <<crawled, holding>>
    BY <1>3 DEF PutItem, TypeOK
  <2>2. /\ \A i \in 1..Len(recordQueue) :
             i \in 1..Len(recordQueue') /\ recordQueue'[i] = recordQueue[i]
        /\ \E i \in 1..Len(recordQueue') : recordQueue'[i] = offer[c]
    <3>1. Len(recordQueue) + 1 \in 1..Len(recordQueue')
      BY <2>1, AppendFacts
    <3> QED BY <2>1, <3>1, AppendFacts
  <2>3. ASSUME NEW t, NEW x, Waiting(t, x) PROVE Waiting(t, x)'
    <3>1. CASE offer[c] = RecordItem(t, x)
      BY <2>2, <3>1 DEF Waiting
    <3>2. CASE \E d \in Crawlers : d # c /\ offer[d] = RecordItem(t, x)
      BY <2>1, <3>2 DEF Waiting
    <3>3. CASE \E i \in 1..Len(recordQueue) : recordQueue[i] = RecordItem(t, x)
      BY <2>2, <3>3 DEF Waiting
    <3>4. CASE \E i \in 1..Len(holding) : holding[i] = RecordItem(t, x)
      BY <2>1, <3>4 DEF Waiting
    <3> QED BY <2>3, <3>1, <3>2, <3>3, <3>4 DEF Waiting
  <2> QED BY <2>1, <2>3
<1>4. ASSUME (\E s \in Scopes : BeginScope(c, s)) \/ CrawlerReturns(c)
      PROVE Moved /\ UNCHANGED crawled
  BY <1>4 DEF BeginScope, CrawlerReturns, Waiting
<1> QED BY <1>1, <1>2, <1>3, <1>4 DEF Crawl

(* A writer that does not return moves its record to the lock.             *)
LEMMA WaitingGet ==
  ASSUME TypeOK, recordQueue # <<>>, recordQueue' = Tail(recordQueue), UNCHANGED offer,
         holding' = Append(holding, Head(recordQueue)), NEW t, NEW x, Waiting(t, x)
  PROVE Waiting(t, x)'
<1>1. recordQueue \in Seq(Items) /\ holding \in Seq(Items) /\ Head(recordQueue) \in Items
  BY DEF TypeOK
<1>2. \A i \in 1..Len(recordQueue) :
        i = 1 \/ (i - 1 \in 1..Len(recordQueue') /\ recordQueue'[i - 1] = recordQueue[i])
  BY <1>1
<1>3. /\ \A i \in 1..Len(holding) : i \in 1..Len(holding') /\ holding'[i] = holding[i]
      /\ Len(holding) + 1 \in 1..Len(holding') /\ holding'[Len(holding) + 1] = Head(recordQueue)
  BY <1>1, AppendFacts
<1>4. Head(recordQueue) = recordQueue[1]
  BY <1>1
<1>5. CASE \E i \in 1..Len(recordQueue) : recordQueue[i] = RecordItem(t, x)
  BY <1>2, <1>3, <1>4, <1>5 DEF Waiting
<1>6. CASE \E i \in 1..Len(holding) : holding[i] = RecordItem(t, x)
  BY <1>3, <1>6 DEF Waiting
<1>7. CASE \E d \in Crawlers : offer[d] = RecordItem(t, x)
  BY <1>7 DEF Waiting
<1> QED BY <1>5, <1>6, <1>7 DEF Waiting

(* Letting go of the item at the lock loses no other.                      *)
LEMMA WaitingLock ==
  ASSUME TypeOK, holding # <<>>, UNCHANGED <<offer, recordQueue>>,
         holding' = Tail(holding) \/ holding' = holding, NEW t, NEW x, Waiting(t, x)
  PROVE \/ Waiting(t, x)'
        \/ /\ holding' = Tail(holding) /\ Head(holding).kind = "record"
           /\ Head(holding).scope = t /\ Head(holding).rec = x
<1>1. holding \in Seq(Items) /\ Head(holding) = holding[1]
  BY DEF TypeOK
<1>2. \A i \in 1..Len(holding) :
        \/ i = 1
        \/ i - 1 \in 1..Len(Tail(holding)) /\ Tail(holding)[i - 1] = holding[i]
  BY <1>1
<1>3. CASE (\E c \in Crawlers : offer[c] = RecordItem(t, x))
           \/ (\E i \in 1..Len(recordQueue) : recordQueue[i] = RecordItem(t, x))
           \/ holding' = holding
  BY <1>3 DEF Waiting
<1>4. ASSUME NEW i \in 1..Len(holding), holding[i] = RecordItem(t, x), i # 1,
             holding' = Tail(holding)
      PROVE Waiting(t, x)'
  BY <1>2, <1>4 DEF Waiting
<1>5. ASSUME holding[1] = RecordItem(t, x)
      PROVE /\ Head(holding).kind = "record" /\ Head(holding).scope = t
            /\ Head(holding).rec = x
  BY <1>1, <1>5, ItemFacts
<1> QED BY <1>3, <1>4, <1>5 DEF Waiting

(* A step that moves no item and decides nothing.                          *)
LEMMA WholeKept ==
  ASSUME TypeOK, WholeInv, writersUp' \in Nat, writersUp' <= writersUp,
         scopeQueue' \subseteq scopeQueue,
         discovery' = "running" => discovery = "running",
         UNCHANGED <<offer, crawled, exhausted, recordQueue, holding, crawlDone, skipped,
                     candidate, checkpoint>>,
         putting' = putting \/ holding = <<>>
  PROVE WholeInv'
<1>1. NoRecordLost'
  <2>1. writersUp \in Nat /\ (writersUp' > 0 => writersUp > 0)
    BY DEF TypeOK
  <2>2. \A s, r : Waiting(s, r)' <=> Waiting(s, r)
    BY DEF Waiting
  <2>3. putting' # None /\ holding # <<>> => putting' = putting
    OBVIOUS
  <2> QED BY <2>1, <2>2, <2>3 DEF WholeInv, NoRecordLost
<1>2. MarkFollowsEnd' /\ MarkedIsWhole' /\ NotBegun'
  BY DEF WholeInv, MarkFollowsEnd, MarkedIsWhole, NotBegun
<1> QED BY <1>1, <1>2 DEF WholeInv

(* The lock's holder: its record is decided before the item is let go, or  *)
(* there is no writer left; the flush item finds the crawl of its scope    *)
(* whole, and only then may the scope be marked.                           *)
LEMMA WholeLock ==
  ASSUME AccountingInv, OrderInv, WholeInv, holding # <<>>,
         UNCHANGED <<discovery, scopeQueue, offer, crawled, exhausted, recordQueue>>,
         writersUp' \in Nat, writersUp' <= writersUp,
         crawlDone \subseteq crawlDone',
         \A s \in Scopes : /\ candidate[s] \subseteq candidate'[s]
                           /\ skipped[s] \subseteq skipped'[s]
                           /\ checkpoint'[s] \in {checkpoint[s], candidate'[s]},
         \A s \in Scopes : Complete \in candidate'[s] =>
           \/ Complete \in candidate[s]
           \/ /\ Head(holding).kind = "flush" /\ Head(holding).checkpointScope
              /\ s = Head(holding).scope /\ s \in crawlDone',
         \/ holding' = Tail(holding) /\ putting' = None
         \/ holding' = holding /\ putting' # None,
         Head(holding).kind = "record" /\ writersUp' > 0 =>
           Head(holding).rec \in candidate'[Head(holding).scope] \cup skipped'[Head(holding).scope],
         Head(holding).kind = "record" /\ putting' # None =>
           Head(holding).rec \in candidate'[Head(holding).scope]
  PROVE WholeInv'
<1> DEFINE item == Head(holding)
<1>a. TypeOK
  BY DEF AccountingInv
<1>1. /\ item = holding[1] /\ 1 \in 1..Len(holding) /\ item \in Items /\ item.scope \in Scopes
      /\ holding \in Seq(Items)
  BY <1>a, TailFacts, ItemFacts DEF TypeOK
<1>2. writersUp > 0
  BY <1>1 DEF AccountingInv, WorkersInv, TypeOK
<1>4. \A i \in 1..Len(holding') : \E j \in 1..Len(holding) : holding'[i] = holding[j]
  BY <1>1, TailFacts
<1> HIDE DEF item
<1>5. ASSUME NEW s \in Scopes, NEW r \in crawled[s], writersUp' > 0
      PROVE r \in candidate'[s] \cup skipped'[s] \/ Waiting(s, r)'
  <2>1. r \in candidate[s] \cup skipped[s] \/ Waiting(s, r)
    BY <1>2 DEF WholeInv, NoRecordLost
  <2>2. CASE r \in candidate[s] \cup skipped[s]
    BY <2>2
  <2>3. CASE Waiting(s, r)
    <3>1. CASE Waiting(s, r)'
      BY <3>1
    <3>2. CASE item.kind = "record" /\ item.scope = s /\ item.rec = r
      BY <1>5, <3>2 DEF item
    <3> QED BY <1>a, <2>3, <3>1, <3>2, WaitingLock DEF item
  <2> QED BY <2>1, <2>2, <2>3
<1>6. NoRecordLost'
  <2>1. putting' # None /\ holding' # <<>> /\ Head(holding').kind = "record" =>
          Head(holding').rec \in candidate'[Head(holding').scope]
    OBVIOUS
  <2> QED BY <1>5, <2>1 DEF NoRecordLost
<1>7. MarkFollowsEnd'
  BY <1>4 DEF WholeInv, MarkFollowsEnd
<1>8. ASSUME NEW s \in Scopes, Complete \in candidate'[s]
      PROVE s \in exhausted /\ crawled[s] \subseteq candidate'[s] \cup skipped'[s]
                 /\ s \in crawlDone'
  <2>1. CASE Complete \in candidate[s]
    BY <2>1 DEF WholeInv, MarkedIsWhole
  <2>2. CASE item.kind = "flush" /\ item.checkpointScope /\ s = item.scope /\ s \in crawlDone'
    <3>0. crawled[s] \subseteq Records
      BY <1>a DEF TypeOK
    <3>1. s \in exhausted
      BY <1>1, <2>2 DEF WholeInv, MarkFollowsEnd
    <3>2. ASSUME NEW r \in crawled[s], Waiting(s, r) PROVE FALSE
      <4>1. /\ RecordItem(s, r).kind = "record" /\ RecordItem(s, r).scope = s
            /\ RecordItem(s, r) # item
        BY <2>2, <1>a, ItemFacts
      <4>2. \A c \in Crawlers : offer[c] # RecordItem(s, r)
        <5> SUFFICES ASSUME NEW c \in Crawlers, offer[c] = RecordItem(s, r) PROVE FALSE
          OBVIOUS
        <5>1. CASE offer[c] # None
          BY <5>1, <4>1, <1>1, <2>2 DEF OrderInv, OneCrawler, CrawledNotFlushed
        <5>2. CASE offer[c] = None
          BY <5>2, <3>0, <1>a, ItemFacts
        <5> QED BY <5>1, <5>2
      <4>3. \A i \in 1..Len(recordQueue) : recordQueue[i] # RecordItem(s, r)
        BY <4>1, <1>1, <2>2 DEF OrderInv, FlushLast
      <4>4. \A i \in 1..Len(holding) : holding[i] # RecordItem(s, r)
        <5> SUFFICES ASSUME NEW i \in 1..Len(holding), holding[i] = RecordItem(s, r)
                     PROVE FALSE
          OBVIOUS
        <5>1. i # 1
          BY <4>1, <1>1, <2>2
        <5>2. 1 < i
          BY <5>1
        <5> QED BY <5>2, <4>1, <1>1, <2>2 DEF OrderInv, FlushLast
      <4> QED BY <3>2, <4>2, <4>3, <4>4 DEF Waiting
    <3>3. crawled[s] \subseteq candidate[s] \cup skipped[s]
      BY <3>2, <1>2 DEF WholeInv, NoRecordLost
    <3> QED BY <2>2, <3>1, <3>3
  <2> QED BY <1>8, <2>1, <2>2 DEF item
<1>9. MarkedIsWhole'
  <2> SUFFICES ASSUME NEW s \in Scopes
               PROVE /\ Complete \in candidate'[s] \cup checkpoint'[s] => s \in crawlDone'
                     /\ Complete \in candidate'[s] =>
                          s \in exhausted /\ crawled[s] \subseteq candidate'[s] \cup skipped'[s]
    BY DEF MarkedIsWhole
  <2>1. Complete \in checkpoint[s] => s \in crawlDone'
    BY DEF WholeInv, MarkedIsWhole
  <2> QED BY <2>1, <1>8
<1>10. NotBegun'
  BY DEF WholeInv, NotBegun
<1> QED BY <1>6, <1>7, <1>9, <1>10 DEF WholeInv

(* Crawl workers: a scope begins with nothing crawled, a record is offered *)
(* as soon as it is crawled, and a flush item that asks for the mark is    *)
(* offered when the crawl has ended by itself.                             *)
LEMMA WholeCrawl ==
  ASSUME TypeOK, OrderInv, WholeInv, NEW c \in Crawlers, Crawl(c)
  PROVE WholeInv'
<1> USE DEF mainVars, crawlVars, writerVars, storeVars, scopeVars
<1>w. /\ \A t \in Scopes : crawled[t] \subseteq Records
      /\ \A t \in Scopes, x \in Records : Waiting(t, x) => Waiting(t, x)'
      /\ \A t \in Scopes : \A x \in crawled'[t] : x \in crawled[t] \/ Waiting(t, x)'
  BY WaitingCrawl DEF TypeOK
<1>1. ASSUME NEW s \in Scopes, BeginScope(c, s) PROVE WholeInv'
  <2>1. /\ Untouched(s) /\ crawled[s] = {} /\ scopeQueue' \subseteq scopeQueue
        /\ \A t \in Scopes : candidate'[t] = IF t = s THEN checkpoint[s] ELSE candidate[t]
        /\ UNCHANGED <<discovery, offer, crawled, exhausted, recordQueue, holding, putting,
                       writersUp, crawlDone, skipped, checkpoint>>
    BY <1>1 DEF BeginScope, OrderInv, Fresh, WholeInv, NotBegun, TypeOK
  <2>2. \A t, r : Waiting(t, r)' <=> Waiting(t, r)
    BY <2>1 DEF Waiting
  <2>3. holding # <<>> => Head(holding).scope # s /\ Head(holding).scope \in Scopes
    BY <2>1, TailFacts, ItemFacts, SMTT(30) DEF TypeOK, Untouched, NoItemOf
  <2>4. NoRecordLost'
    BY <2>1, <2>2, <2>3 DEF WholeInv, NoRecordLost
  <2>5. MarkFollowsEnd'
    BY <2>1 DEF WholeInv, MarkFollowsEnd
  <2>6. MarkedIsWhole'
    BY <2>1 DEF WholeInv, MarkedIsWhole, Untouched
  <2>7. NotBegun'
    BY <2>1 DEF WholeInv, NotBegun
  <2> QED BY <2>4, <2>5, <2>6, <2>7 DEF WholeInv
<1>2. ASSUME NEW r \in Records, CrawlRecord(c, r) PROVE WholeInv'
  <2>0. PICK s \in Scopes : s = crawling[c]
    BY <1>2 DEF CrawlRecord, InCrawl, TypeOK
  <2>1. /\ s \notin crawlDone /\ offer[c] = None
        /\ ~(discovery = "running") /\ s \notin scopeQueue
    BY <1>2, <2>0 DEF CrawlRecord, InCrawl, TypeOK, OrderInv, CrawledNotFlushed, Fresh, Untouched
  <2>2. /\ \A t \in Scopes : crawled'[t] = IF t = s THEN crawled[t] \cup {r} ELSE crawled[t]
        /\ \A d \in Crawlers : offer'[d] = IF d = c THEN RecordItem(s, r) ELSE offer[d]
        /\ UNCHANGED <<discovery, scopeQueue, exhausted, recordQueue, holding, putting,
                       writersUp, crawlDone, skipped, candidate, checkpoint>>
    BY <1>2, <2>0 DEF CrawlRecord, TypeOK
  <2>5. NoRecordLost'
    BY <2>2, <1>w DEF WholeInv, NoRecordLost
  <2>6. MarkFollowsEnd'
    <3>1. RecordItem(s, r).kind = "record"
      BY ItemFacts
    <3> QED BY <2>2, <3>1 DEF WholeInv, MarkFollowsEnd
  <2>7. MarkedIsWhole'
    BY <2>1, <2>2 DEF WholeInv, MarkedIsWhole
  <2>8. NotBegun'
    BY <2>1, <2>2 DEF WholeInv, NotBegun
  <2> QED BY <2>5, <2>6, <2>7, <2>8 DEF WholeInv
<1>3. CASE EndScope(c)
  <2>0. PICK s \in Scopes : s = crawling[c]
    BY <1>3 DEF EndScope, InCrawl, TypeOK
  <2>1. /\ offer[c] = None /\ exhausted \subseteq exhausted'
        /\ \A d \in Crawlers : offer'[d] = IF d = c THEN FlushItem(s, ~StopRequested) ELSE offer[d]
        /\ ~StopRequested => s \in exhausted'
        /\ UNCHANGED <<discovery, scopeQueue, crawled, recordQueue, holding, putting,
                       writersUp, crawlDone, skipped, candidate, checkpoint>>
    BY <1>3, <2>0 DEF EndScope, InCrawl, TypeOK
  <2>3. NoRecordLost'
    BY <2>1, <1>w DEF WholeInv, NoRecordLost
  <2>4. MarkFollowsEnd'
    <3>1. /\ FlushItem(s, ~StopRequested).scope = s
          /\ FlushItem(s, ~StopRequested).checkpointScope => ~StopRequested
      BY DEF FlushItem
    <3> QED BY <2>1, <3>1 DEF WholeInv, MarkFollowsEnd
  <2>5. MarkedIsWhole' /\ NotBegun'
    BY <2>1 DEF WholeInv, MarkedIsWhole, NotBegun
  <2> QED BY <2>3, <2>4, <2>5 DEF WholeInv
<1>4. CASE PutItem(c)
  <2>1. /\ offer[c] # None /\ offer[c] \in Items
        /\ recordQueue \in Seq(Items) /\ recordQueue' = Append(recordQueue, offer[c])
        /\ \A d \in Crawlers : offer'[d] = IF d = c THEN None ELSE offer[d]
        /\ UNCHANGED <<discovery, scopeQueue, crawled, exhausted, holding, putting,
                       writersUp, crawlDone, skipped, candidate, checkpoint>>
    BY <1>4 DEF PutItem, TypeOK
  <2>2. /\ \A i \in 1..Len(recordQueue) :
             i \in 1..Len(recordQueue') /\ recordQueue'[i] = recordQueue[i]
        /\ \A i \in 1..Len(recordQueue') :
             i \in 1..Len(recordQueue) \/ recordQueue'[i] = offer[c]
        /\ \E i \in 1..Len(recordQueue') : recordQueue'[i] = offer[c]
    <3>1. Len(recordQueue) + 1 \in 1..Len(recordQueue')
      BY <2>1, AppendFacts
    <3> QED BY <2>1, <3>1, AppendFacts
  <2>4. NoRecordLost'
    BY <2>1, <1>w DEF WholeInv, NoRecordLost
  <2>5. MarkFollowsEnd'
    BY <2>1, <2>2 DEF WholeInv, MarkFollowsEnd
  <2>6. MarkedIsWhole' /\ NotBegun'
    BY <2>1 DEF WholeInv, MarkedIsWhole, NotBegun
  <2> QED BY <2>4, <2>5, <2>6 DEF WholeInv
<1>5. CASE CrawlerReturns(c)
  BY <1>5, WholeKept DEF CrawlerReturns, TypeOK
<1> QED BY <1>1, <1>2, <1>3, <1>4, <1>5 DEF Crawl

(* A writer takes the head of the queue to the lock; once there is a       *)
(* failure the only writer returns with it.                                *)
LEMMA WholeWriterGet ==
  ASSUME Guarded, AccountingInv, WholeInv, WriterGet
  PROVE WholeInv'
<1> USE DEF mainVars, crawlVars, writerVars, storeVars, scopeVars
<1>1. /\ recordQueue \in Seq(Items) /\ recordQueue # <<>> /\ recordQueue' = Tail(recordQueue)
      /\ holding \in Seq(Items) /\ Head(recordQueue) \in Items
      /\ UNCHANGED <<discovery, scopeQueue, offer, crawled, exhausted, putting, crawlDone,
                     skipped, candidate, checkpoint>>
      /\ writersUp \in Nat /\ 0 < writersUp
  BY DEF WriterGet, IdleWriter, AccountingInv, TypeOK
<1>2. /\ \A i \in 1..Len(recordQueue') :
           i + 1 \in 1..Len(recordQueue) /\ recordQueue'[i] = recordQueue[i + 1]
      /\ Head(recordQueue) = recordQueue[1] /\ 1 \in 1..Len(recordQueue)
  BY <1>1
<1>3. /\ \A i \in 1..Len(holding) : i \in 1..Len(holding') /\ holding'[i] = holding[i]
      /\ \A i \in 1..Len(holding') :
           i \in 1..Len(holding) \/ holding'[i] = Head(recordQueue)
      /\ holding' # holding => \E i \in 1..Len(holding') : holding'[i] = Head(recordQueue)
      /\ holding # <<>> => Head(holding') = Head(holding)
  <2>1. CASE holding' = holding
    BY <2>1
  <2>2. CASE holding' = Append(holding, Head(recordQueue))
    <3>1. Len(holding) + 1 \in 1..Len(holding')
      BY <1>1, <2>2, AppendFacts
    <3> QED BY <1>1, <2>2, <3>1, AppendFacts
  <2> QED BY <2>1, <2>2 DEF WriterGet
<1>4. writersUp' > 0 => ~failureEvent /\ holding' = Append(holding, Head(recordQueue))
  BY DEF WriterGet, Guarded, AccountingInv, WorkersInv, TypeOK
<1>5. NoRecordLost'
  <2>1. ASSUME NEW t, NEW x, Waiting(t, x), writersUp' > 0 PROVE Waiting(t, x)'
    BY <1>1, <1>4, <2>1, WaitingGet DEF AccountingInv
  <2>2. holding' # <<>> /\ putting' # None => holding # <<>>
    <3>1. putting # None => main = "flushing" \/ holding # <<>>
      BY DEF AccountingInv, QueueInv
    <3>2. main # "flushing"
      BY <1>1 DEF AccountingInv, WorkersInv
    <3> QED BY <1>1, <3>1, <3>2
  <2> QED BY <1>1, <1>3, <2>1, <2>2 DEF WholeInv, NoRecordLost
<1>6. MarkFollowsEnd'
  BY <1>1, <1>2, <1>3 DEF WholeInv, MarkFollowsEnd
<1>7. MarkedIsWhole' /\ NotBegun'
  BY <1>1 DEF WholeInv, MarkedIsWhole, NotBegun
<1> QED BY <1>5, <1>6, <1>7 DEF WholeInv

(* After the loop over popped batches the item is let go or kept with a    *)
(* batch in hand; only candidates are saved.                               *)
LEMMA AfterOfferLock ==
  ASSUME AccountingInv, holding # <<>>, NEW B, AfterOffer(B)
  PROVE /\ writersUp' \in Nat /\ writersUp' <= writersUp
        /\ \/ holding' = Tail(holding) /\ putting' = None
           \/ holding' = holding /\ putting' # None
        /\ \A s \in Scopes : checkpoint'[s] \in {checkpoint[s], candidate'[s]}
<1>1. writersUp \in Nat /\ writersUp # 0
  BY DEF AccountingInv, TypeOK, WorkersInv
<1>2. writersUp' \in {writersUp, writersUp - 1}
  BY DEF AfterOffer, Release
<1>3. writersUp' \in Nat /\ writersUp' <= writersUp
  BY <1>1, <1>2
<1>4. \/ holding' = Tail(holding) /\ putting' = None
      \/ holding' = holding /\ putting' # None
  BY DEF AfterOffer, Release
<1>5. UNCHANGED checkpoint \/ \E S : CompleteIfReady(S)
  BY DEF AfterOffer
<1>6. \A s \in Scopes : checkpoint'[s] \in {checkpoint[s], candidate'[s]}
  BY <1>5 DEF CompleteIfReady
<1> QED BY <1>3, <1>4, <1>6

(* The lock's holder keeps the invariant.                                  *)
LEMMA WholeHolder ==
  ASSUME Guarded, AccountingInv, OrderInv, WholeInv, HoldLock \/ WriterRaises \/ HookRaises
  PROVE WholeInv'
<1> USE DEF mainVars, crawlVars, writerVars, storeVars, scopeVars
<1> DEFINE item == Head(holding)
<1>a. /\ holding # <<>>
      /\ UNCHANGED <<discovery, scopeQueue, offer, crawled, exhausted, recordQueue>>
  BY DEF HoldLock, SkipRecord, UnchangedRecord, BufferRecord, FlushScope, WriterPut, ResumePut,
         WriterRaises, HookRaises, LockHolder, AccountingInv, QueueInv
<1>b. /\ item \in Items /\ item.scope \in Scopes /\ item.kind \in {"record", "flush"}
      /\ item.kind = "record" => item.rec \in Records
      /\ candidate \in [Scopes -> SUBSET Marks] /\ skipped \in [Scopes -> SUBSET Records]
  <2>1. item \in Items
    BY <1>a DEF AccountingInv, TypeOK
  <2> QED BY <2>1 DEF Items, AccountingInv, TypeOK
<1>c. writersUp \in Nat /\ writersUp # 0 /\ writersUp <= WriterCount
  BY <1>a DEF AccountingInv, TypeOK, WorkersInv
<1>1. CASE SkipRecord
  <2>1. /\ item.kind = "record" /\ putting' = None
        /\ skipped' = [skipped EXCEPT ![item.scope] = @ \cup {item.rec}]
        /\ holding' = Tail(holding)
        /\ UNCHANGED <<writersUp, candidate, checkpoint, crawlDone>>
    BY <1>1 DEF SkipRecord, LockHolder, Release
  <2> QED BY <1>a, <1>b, <1>c, <2>1, WholeLock
<1>2. CASE UnchangedRecord
  <2>1. /\ item.kind = "record" /\ putting' = None
        /\ candidate' = [candidate EXCEPT ![item.scope] = @ \cup {item.rec}]
        /\ holding' = Tail(holding)
        /\ UNCHANGED <<writersUp, skipped, checkpoint, crawlDone>>
    BY <1>2 DEF UnchangedRecord, LockHolder, Release
  <2>2. \A s \in Scopes : candidate'[s] = IF s = item.scope THEN candidate[s] \cup {item.rec}
                                           ELSE candidate[s]
    BY <1>b, <2>1
  <2> QED BY <1>a, <1>b, <1>c, <2>1, <2>2, DataAssumption, WholeLock
<1>3. CASE BufferRecord
  <2>1. /\ item.kind = "record" /\ \E B : AfterOffer(B)
        /\ candidate' = [candidate EXCEPT ![item.scope] = @ \cup {item.rec}]
        /\ UNCHANGED <<skipped, crawlDone>>
    BY <1>3 DEF BufferRecord, LockHolder
  <2>2. \A s \in Scopes : candidate'[s] = IF s = item.scope THEN candidate[s] \cup {item.rec}
                                           ELSE candidate[s]
    BY <1>b, <2>1
  <2>3. /\ writersUp' \in Nat /\ writersUp' <= writersUp
        /\ \/ holding' = Tail(holding) /\ putting' = None
           \/ holding' = holding /\ putting' # None
        /\ \A s \in Scopes : checkpoint'[s] \in {checkpoint[s], candidate'[s]}
    BY <1>a, <2>1, AfterOfferLock
  <2> QED BY <1>a, <1>b, <2>1, <2>2, <2>3, DataAssumption, WholeLock
<1>4. CASE FlushScope
  <2>1. /\ item.kind = "flush" /\ \E B : AfterOffer(B)
        /\ candidate' = IF item.checkpointScope
                        THEN [candidate EXCEPT ![item.scope] = @ \cup {Complete}]
                        ELSE candidate
        /\ crawlDone' = crawlDone \cup {item.scope}
        /\ UNCHANGED skipped
    BY <1>4 DEF FlushScope, LockHolder, ScopeHook
  <2>2. \A s \in Scopes : candidate'[s] = IF s = item.scope /\ item.checkpointScope
                                           THEN candidate[s] \cup {Complete} ELSE candidate[s]
    BY <1>b, <2>1
  <2>3. /\ writersUp' \in Nat /\ writersUp' <= writersUp
        /\ \/ holding' = Tail(holding) /\ putting' = None
           \/ holding' = holding /\ putting' # None
        /\ \A s \in Scopes : checkpoint'[s] \in {checkpoint[s], candidate'[s]}
    BY <1>a, <2>1, AfterOfferLock
  <2> HIDE DEF item
  <2>4. \A s \in Scopes : Complete \in candidate'[s] =>
           \/ Complete \in candidate[s]
           \/ item.kind = "flush" /\ item.checkpointScope /\ s = item.scope /\ s \in crawlDone'
    BY <2>1, <2>2
  <2>5. \A s \in Scopes : candidate[s] \subseteq candidate'[s] /\ skipped[s] \subseteq skipped'[s]
    BY <2>1, <2>2
  <2>6. item.kind # "record" /\ crawlDone \subseteq crawlDone'
    BY <2>1
  <2> QED BY <1>a, <2>3, <2>4, <2>5, <2>6, WholeLock DEF item
<1>5. CASE WriterPut
  <2>1. /\ putting # None /\ \E B : AfterOffer(B)
        /\ UNCHANGED <<candidate, skipped, crawlDone>>
    BY <1>5 DEF WriterPut, ResumePut
  <2>2. /\ writersUp' \in Nat /\ writersUp' <= writersUp
        /\ \/ holding' = Tail(holding) /\ putting' = None
           \/ holding' = holding /\ putting' # None
        /\ \A s \in Scopes : checkpoint'[s] \in {checkpoint[s], candidate'[s]}
    BY <1>a, <2>1, AfterOfferLock
  <2>3. item.kind = "record" => item.rec \in candidate'[item.scope]
    BY <1>a, <2>1 DEF WholeInv, NoRecordLost
  <2> QED BY <1>a, <1>b, <2>1, <2>2, <2>3, WholeLock
<1>6. CASE WriterRaises \/ HookRaises
  <2>1. /\ holding' = Tail(holding) /\ putting' = None /\ writersUp' = writersUp - 1
        /\ failureEvent' /\ Faults # {}
        /\ UNCHANGED <<candidate, skipped, crawlDone, checkpoint>>
    BY <1>6 DEF WriterRaises, HookRaises, Release, LockHolder
  <2>2. writersUp' = 0
    BY <1>c, <2>1 DEF Guarded
  <2> QED BY <1>a, <1>b, <1>c, <2>1, <2>2, WholeLock
<1> QED BY <1>1, <1>2, <1>3, <1>4, <1>5, <1>6 DEF HoldLock

(* Every step of a run that goes on keeps the invariant.                   *)
LEMMA WholeStep ==
  ASSUME Guarded, AccountingInv, AccountingInv', OrderInv, WholeInv, Next, Live'
  PROVE WholeInv'
<1> USE DEF mainVars, crawlVars, writerVars, storeVars, scopeVars, batchVars, uploadVars, catalogVars
<1>a. TypeOK /\ TypeOK'
  BY DEF AccountingInv
<1>b. writersUp \in Nat /\ writersUp' \in Nat
  BY <1>a DEF TypeOK
<1>1. ASSUME NEW plan \in SUBSET Resumable, Discover(plan) PROVE WholeInv'
  <2>1. /\ \A s \in Scopes : crawled[s] = {}
        /\ UNCHANGED <<offer, crawled, exhausted, recordQueue, holding, putting, writersUp,
                       crawlDone, skipped, candidate, checkpoint>>
    BY <1>1 DEF Discover, WholeInv, NotBegun
  <2>2. \A t, r : Waiting(t, r)' <=> Waiting(t, r)
    BY <2>1 DEF Waiting
  <2> QED BY <2>1, <2>2 DEF WholeInv, NoRecordLost, MarkFollowsEnd, MarkedIsWhole, NotBegun
<1>2. ASSUME NEW c \in Crawlers, Crawl(c) PROVE WholeInv'
  BY <1>2, <1>a, WholeCrawl
<1>3. CASE WriterGet
  BY <1>3, WholeWriterGet
<1>4. CASE HoldLock \/ WriterRaises \/ HookRaises
  BY <1>4, WholeHolder
<1>5. ASSUME writersUp' <= writersUp, scopeQueue' \subseteq scopeQueue,
             discovery' = "running" => discovery = "running",
             UNCHANGED <<offer, crawled, exhausted, recordQueue, holding, crawlDone, skipped,
                         candidate, checkpoint>>,
             putting' = putting \/ holding = <<>>
      PROVE WholeInv'
  BY <1>a, <1>b, <1>5, WholeKept
<1>6. CASE WriterSentinel \/ DiscoverRaises \/ RequestShutdown
  BY <1>5, <1>6, <1>b DEF WriterSentinel, DiscoverRaises, RequestShutdown
<1>7. ASSUME NEW c \in Crawlers, CrawlRaises(c) PROVE WholeInv'
  BY <1>5, <1>7, <1>b DEF CrawlRaises
<1>8. ASSUME NEW u \in Uploaders, UploadWorker(u) \/ UploadRaises(u) PROVE WholeInv'
  <2>1. UNCHANGED <<crawlVars, recordQueue, writerVars, scopeVars>>
    BY <1>8 DEF UploadWorker, UploaderGet, UploaderSentinel, Upload, PutCatalogJob, UploadRaises
  <2> QED BY <1>5, <1>b, <2>1
<1>9. ASSUME NEW k \in Catalogers,
             \/ CatalogerGet(k) \/ CatalogerSentinel(k) \/ CommitBatch(k) \/ CatalogRaises(k)
             \/ OrphanCommit(k)
      PROVE WholeInv'
  <2>1. UNCHANGED <<crawlVars, recordQueue, writerVars, scopeVars>>
    BY <1>9 DEF CatalogerGet, CatalogerSentinel, CommitBatch, CatalogRaises, OrphanCommit
  <2> QED BY <1>5, <1>b, <2>1
<1>10. ASSUME NEW k \in Catalogers, CompleteBatch(k) PROVE WholeInv'
  <2>1. /\ UNCHANGED <<crawlVars, recordQueue, writerVars, crawlDone, skipped, candidate>>
        /\ \A s \in Scopes : checkpoint'[s] \in {checkpoint[s], candidate[s]}
    BY <1>10 DEF CompleteBatch, CompleteIfReady
  <2>2. \A t, r : Waiting(t, r)' <=> Waiting(t, r)
    BY <2>1 DEF Waiting
  <2>3. MarkedIsWhole'
    BY <2>1 DEF WholeInv, MarkedIsWhole
  <2> QED BY <2>1, <2>2, <2>3 DEF WholeInv, NoRecordLost, MarkFollowsEnd, NotBegun
<1>11. ASSUME NEW b \in BatchIds, FinalFlush(b) PROVE WholeInv'
  BY <1>5, <1>11, <1>b DEF FinalFlush
<1>12. CASE Main
  <2>1. UNCHANGED <<crawlVars, recordQueue, holding, writersUp, crawlDone, skipped, candidate,
                    checkpoint>>
    BY <1>12 DEF Main, CrawlOver, PutSentinel, FlushAll, MainPut, ResumePut, UploadOver, CatalogOver,
                 FailFast, MainPutRaises, Live
  <2>2. putting' = putting \/ holding = <<>>
    <3>1. CASE FlushAll \/ MainPut
      <4>1. writersUp = 0 /\ Len(holding) <= writersUp
        BY <3>1 DEF FlushAll, MainPut, StageOver, AccountingInv, WorkersInv
      <4> QED BY <1>a, <4>1 DEF TypeOK
    <3>2. CASE CrawlOver \/ PutSentinel \/ UploadOver \/ CatalogOver
      BY <3>2 DEF CrawlOver, PutSentinel, UploadOver, CatalogOver
    <3> QED BY <1>12, <3>1, <3>2 DEF Main, FailFast, MainPutRaises, Live
  <2> QED BY <1>5, <1>b, <2>1, <2>2
<1> QED BY <1>1, <1>2, <1>3, <1>4, <1>6, <1>7, <1>8, <1>9, <1>10, <1>11, <1>12, StepKinds
     DEF Resumed, HolderRaises, Unforced, CatalogWorker

(* What a step may do to a scope: its crawl goes on only while its crawl   *)
(* worker is in it, and what is saved is its candidate.                    *)
LEMMA ScopeSteps ==
  ASSUME AccountingInv, Next
  PROVE /\ exhausted \subseteq exhausted'
        /\ \A s \in Scopes :
             /\ skipped[s] \subseteq skipped'[s]
             /\ \/ crawled'[s] = crawled[s]
                \/ Live /\ \E c \in Crawlers : crawling[c] = s
             /\ \/ checkpoint'[s] = checkpoint[s]
                \/ Live' /\ checkpoint'[s] = candidate'[s]
<1> USE DEF mainVars, crawlVars, writerVars, storeVars, scopeVars, batchVars, uploadVars, catalogVars
<1> DEFINE Goal == /\ exhausted \subseteq exhausted'
                   /\ \A s \in Scopes :
                        /\ skipped[s] \subseteq skipped'[s]
                        /\ \/ crawled'[s] = crawled[s]
                           \/ Live /\ \E c \in Crawlers : crawling[c] = s
                        /\ \/ checkpoint'[s] = checkpoint[s]
                           \/ Live' /\ checkpoint'[s] = candidate'[s]
<1>a. TypeOK
  BY DEF AccountingInv
<1>1. CASE UNCHANGED <<exhausted, skipped, crawled, checkpoint>>
  BY <1>1
<1>2. ASSUME NEW c \in Crawlers, Crawl(c) PROVE Goal
  <2>1. /\ UNCHANGED <<skipped, checkpoint>> /\ exhausted \subseteq exhausted' /\ c \in crawlersUp
        /\ \/ UNCHANGED crawled
           \/ crawled' = [crawled EXCEPT ![crawling[c]] = crawled'[crawling[c]]]
    <3>1. ASSUME NEW r \in Records, CrawlRecord(c, r)
          PROVE crawled' = [crawled EXCEPT ![crawling[c]] = crawled'[crawling[c]]]
      BY <1>a, <3>1 DEF CrawlRecord, TypeOK
    <3> QED BY <1>2, <3>1 DEF Crawl, BeginScope, CrawlRecord, EndScope, PutItem, CrawlerReturns,
                              Idle, InCrawl
  <2>2. Live
    BY <2>1 DEF AccountingInv, WorkersInv
  <2> QED BY <1>a, <2>1, <2>2 DEF TypeOK
<1>3. CASE HoldLock
  <2>1. /\ holding # <<>> /\ UNCHANGED <<exhausted, crawled, main>>
    BY <1>3 DEF HoldLock, SkipRecord, UnchangedRecord, BufferRecord, FlushScope, WriterPut, ResumePut,
                LockHolder, AccountingInv, QueueInv
  <2>2. Live /\ Live'
    BY <1>a, <2>1 DEF AccountingInv, WorkersInv, TypeOK, Live
  <2>3. \A s \in Scopes : skipped[s] \subseteq skipped'[s]
    <3>1. CASE SkipRecord
      <4>1. skipped' = [skipped EXCEPT ![Head(holding).scope] = @ \cup {Head(holding).rec}]
        BY <3>1 DEF SkipRecord
      <4>2. skipped \in [Scopes -> SUBSET Records]
        BY <1>a DEF TypeOK
      <4> QED BY <4>1, <4>2
    <3>2. CASE UnchangedRecord \/ BufferRecord \/ FlushScope \/ WriterPut
      BY <3>2 DEF UnchangedRecord, BufferRecord, FlushScope, WriterPut, ResumePut
    <3> QED BY <1>3, <3>1, <3>2 DEF HoldLock
  <2>4. UNCHANGED checkpoint \/ \E B : AfterOffer(B)
    BY <1>3 DEF HoldLock, SkipRecord, UnchangedRecord, BufferRecord, FlushScope, WriterPut
  <2>5. \A s \in Scopes : checkpoint'[s] \in {checkpoint[s], candidate'[s]}
    BY <2>1, <2>4, AfterOfferLock
  <2> QED BY <2>1, <2>2, <2>3, <2>5
<1>4. ASSUME NEW k \in Catalogers, CompleteBatch(k) PROVE Goal
  <2>1. /\ UNCHANGED <<exhausted, crawled, main, skipped>> /\ k \in catalogersUp
        /\ \A s \in Scopes : checkpoint'[s] \in {checkpoint[s], candidate'[s]}
    BY <1>4 DEF CompleteBatch, CompleteIfReady
  <2>2. Live'
    BY <2>1 DEF AccountingInv, WorkersInv, Live
  <2> QED BY <2>1, <2>2
<1>5. ASSUME NEW u \in Uploaders, UploadWorker(u) \/ UploadRaises(u)
      PROVE UNCHANGED <<exhausted, skipped, crawled, checkpoint>>
  BY <1>5 DEF UploadWorker, UploaderGet, UploaderSentinel, Upload, PutCatalogJob, UploadRaises
<1>6. ASSUME NEW k \in Catalogers,
             \/ CatalogerGet(k) \/ CatalogerSentinel(k) \/ CommitBatch(k) \/ CatalogRaises(k)
             \/ OrphanCommit(k)
      PROVE UNCHANGED <<exhausted, skipped, crawled, checkpoint>>
  BY <1>6 DEF CatalogerGet, CatalogerSentinel, CommitBatch, CatalogRaises, OrphanCommit
<1>7. CASE Main
  BY <1>1, <1>7 DEF Main, CrawlOver, PutSentinel, FlushAll, MainPut, ResumePut, UploadOver, CatalogOver,
                    FailFast, MainPutRaises, CancelTasks
<1>8. CASE \/ WriterGet \/ WriterSentinel \/ DiscoverRaises \/ WriterRaises \/ HookRaises
           \/ RequestShutdown
  BY <1>1, <1>8 DEF WriterGet, WriterSentinel, DiscoverRaises, WriterRaises, HookRaises,
                    RequestShutdown
<1>9. CASE \/ \E plan \in SUBSET Resumable : Discover(plan)
           \/ \E c \in Crawlers : CrawlRaises(c)
           \/ \E b \in BatchIds : FinalFlush(b)
  BY <1>1, <1>9 DEF Discover, CrawlRaises, FinalFlush
<1> QED BY <1>1, <1>2, <1>3, <1>4, <1>5, <1>6, <1>7, <1>8, <1>9, StepKinds
     DEF Resumed, HolderRaises, Unforced, CatalogWorker

(* What is marked in the store is whole, whether or not the run goes on:   *)
(* a checkpoint is saved from a candidate, and a marked scope is crawled   *)
(* no more.                                                                *)
LEMMA WholeIsSaved ==
  ASSUME AccountingInv, CompleteCoversCrawl, Next, Live => OrderInv /\ WholeInv, Live' => WholeInv'
  PROVE CompleteCoversCrawl'
<1> SUFFICES ASSUME NEW s \in Scopes, Complete \in checkpoint'[s]
             PROVE s \in exhausted' /\ crawled'[s] \subseteq checkpoint'[s] \cup skipped'[s]
  BY DEF CompleteCoversCrawl
<1>1. CASE Live' /\ checkpoint'[s] = candidate'[s]
  BY <1>1 DEF WholeInv, MarkedIsWhole
<1>2. CASE checkpoint'[s] = checkpoint[s]
  <2>1. s \in exhausted /\ crawled[s] \subseteq checkpoint[s] \cup skipped[s]
    BY <1>2 DEF CompleteCoversCrawl
  <2>2. ASSUME Live, NEW c \in Crawlers, crawling[c] = s PROVE FALSE
    BY <1>2, <2>2, DataAssumption DEF WholeInv, MarkedIsWhole, OrderInv, CrawledNotFlushed
  <2>3. crawled'[s] = crawled[s] /\ skipped[s] \subseteq skipped'[s] /\ exhausted \subseteq exhausted'
    BY <2>2, ScopeSteps
  <2> QED BY <1>2, <2>1, <2>3
<1> QED BY <1>1, <1>2, ScopeSteps

(* The invariant is inductive when there is one writer or nothing fails.   *)
THEOREM CompleteStep == Guarded /\ CompleteInv /\ [Next]_vars => CompleteInv'
<1> SUFFICES ASSUME Guarded, CompleteInv, [Next]_vars PROVE CompleteInv'
  OBVIOUS
<1>1. AccountingInv'
  BY AccountingStep DEF CompleteInv
<1>2. CASE UNCHANGED vars
  BY <1>1, <1>2 DEF vars, mainVars, crawlVars, writerVars, storeVars, scopeVars, batchVars, uploadVars,
     catalogVars, CompleteInv, Live, CompleteCoversCrawl, OrderInv, Fresh, OneCrawler,
     CrawledNotFlushed, FlushLast, NotDoneYet, Untouched, NoItemOf, WholeInv, NoRecordLost,
     MarkFollowsEnd, MarkedIsWhole, NotBegun, Waiting
<1>3. CASE Next
  <2>1. Live' => Live
    BY <1>3, EndedStays
  <2>2. Live' => OrderInv' /\ WholeInv'
    BY <1>1, <1>3, <2>1, OrderStep, WholeStep DEF CompleteInv
  <2>3. CompleteCoversCrawl'
    BY <1>3, <2>2, WholeIsSaved DEF CompleteInv
  <2> QED BY <1>1, <2>2, <2>3 DEF CompleteInv
<1> QED BY <1>2, <1>3

(* A run starts with no mark and nothing crawled.                          *)
LEMMA InitComplete == ASSUME Init PROVE CompleteInv
<1>1. AccountingInv /\ (Live => OrderInv)
  BY InitCheckpoint DEF IInv
<1>2. /\ \A s \in Scopes : Complete \notin checkpoint[s] /\ crawled[s] = {}
      /\ candidate = checkpoint /\ putting = None
  BY DataAssumption DEF Init
<1>3. Len(recordQueue) = 0 /\ Len(holding) = 0 /\ 1..0 = {} /\ \A c \in Crawlers : offer[c] = None
  BY DEF Init
<1>4. CompleteCoversCrawl
  BY <1>2 DEF CompleteCoversCrawl
<1>5. WholeInv
  BY <1>2, <1>3 DEF WholeInv, NoRecordLost, MarkFollowsEnd, MarkedIsWhole, NotBegun
<1> QED BY <1>1, <1>4, <1>5 DEF CompleteInv

(* With one writer, or without failures, a checkpoint marked complete      *)
(* covers every record its scope's crawl yielded: neither a stop request,  *)
(* nor an abort, nor the order in which workers take the items lets the    *)
(* mark run ahead of the crawl.                                            *)
THEOREM CompleteIsWhole ==
  ASSUME WriterCount = 1 \/ Faults = {}
  PROVE  Spec => []CompleteCoversCrawl
<1>1. Init => CompleteInv
  BY InitComplete
<1>2. CompleteInv /\ [Next]_vars => CompleteInv'
  BY CompleteStep DEF Guarded
<1>3. CompleteInv => CompleteCoversCrawl
  BY DEF CompleteInv
<1> QED BY <1>1, <1>2, <1>3, PTL DEF Spec

-----------------------------------------------------------------------------
(* The invariant behind DrainedIsDurable, for as long as nothing fails.    *)

Clean == Live /\ ~failureEvent

(* A batch is where its stage says, with a worker that has not returned.   *)
BatchesAreHeld ==
  \A b \in BatchIds :
    /\ stage[b] \notin {"lost", "dropped"}
    /\ stage[b] = "held" => putting = b
    /\ stage[b] = "popped" => putting # None
    /\ stage[b] = "uploadQueue" => \E i \in 1..Len(uploadQueue) : uploadQueue[i] = b
    /\ stage[b] \in {"uploading", "uploaded"} => \E u \in uploadersUp : uploading[u] = b
    /\ stage[b] = "catalogQueue" => \E i \in 1..Len(catalogQueue) : catalogQueue[i] = b
    /\ stage[b] \in {"cataloging", "committed"} => \E k \in catalogersUp : cataloging[k] = b

AfterCataloging == {"cataloging", "done"}
AfterUploading == {"catalogPills"} \cup AfterCataloging
AfterFlushing == {"uploadPills", "uploading"} \cup AfterUploading
AfterWriting == {"flushing"} \cup AfterFlushing

(* The sentinels drain one stage after the other: a worker returns when    *)
(* its queue is empty and nobody is left to fill it.                       *)
StagesDrain ==
  /\ main # "crawling" => crawlersUp = {}
  /\ writersUp < WriterCount => main # "crawling" /\ recordQueue = <<>>
  /\ main \in AfterWriting => writersUp = 0 /\ \A b \in BatchIds : stage[b] # "buffered"
  /\ main \in AfterFlushing => putting = None
  /\ uploadersUp # Uploaders => main \in AfterFlushing /\ uploadQueue = <<>>
  /\ main \in AfterUploading \cup {"uploading"} => Uploaders # {}
  /\ main \in AfterUploading => uploadersUp = {}
  /\ catalogersUp # Catalogers => main \in AfterUploading /\ catalogQueue = <<>>
  /\ main \in AfterCataloging => Catalogers # {}
  /\ main = "done" => catalogersUp = {}

(* A record a crawl has yielded is on its way to a writer, in a batch,     *)
(* durable or skipped.                                                     *)
Batched(r) == \E b \in BatchIds : stage[b] # "free" /\ r \in recs[b]

RecordsAreKept ==
  /\ \A c \in Crawlers : offer[c] # None => c \in crawlersUp
  /\ \A s \in Scopes : \A r \in crawled[s] :
       r \in durable \cup skipped[s] \/ Batched(r) \/ Waiting(s, r)
  /\ putting # None /\ holding # <<>> /\ Head(holding).kind = "record" =>
       Batched(Head(holding).rec)
  /\ \A b \in BatchIds : stage[b] \in {"committed", "done"} => recs[b] \subseteq durable

(* A finished scope without a result is the flush item in hand, or has a   *)
(* batch that will look at it again.                                       *)
ScopesAreOwed ==
  /\ closed \subseteq crawlDone
  /\ \A s \in crawlDone \ closed :
       \/ \E b \in BatchIds : stage[b] \notin {"free", "done"} /\ s \in owners[b]
       \/ /\ putting # None /\ holding # <<>>
          /\ Head(holding).kind = "flush" /\ Head(holding).scope = s

DrainParts == BatchesAreHeld /\ StagesDrain /\ RecordsAreKept /\ ScopesAreOwed

DrainInv ==
  /\ AccountingInv
  /\ Live => OrderInv
  /\ Clean => DrainParts
  /\ main = "done" => ~failureEvent

(* A failure is never forgotten, and a run that ended stays ended.         *)
LEMMA CleanBefore == ASSUME Next, Clean' PROVE Clean
<1> USE DEF mainVars, crawlVars, writerVars, storeVars, scopeVars
<1>1. ASSUME Main PROVE failureEvent => failureEvent'
  BY <1>1 DEF Main, CrawlOver, PutSentinel, FlushAll, MainPut, UploadOver, CatalogOver, FailFast,
              MainPutRaises, CancelTasks
<1>2. ASSUME NEW c \in Crawlers, Crawl(c) \/ CrawlRaises(c) PROVE failureEvent => failureEvent'
  BY <1>2 DEF Crawl, BeginScope, CrawlRecord, EndScope, PutItem, CrawlerReturns, CrawlRaises
<1>3. ASSUME WriterGet \/ WriterSentinel \/ HoldLock \/ WriterRaises \/ HookRaises
      PROVE failureEvent => failureEvent'
  BY <1>3 DEF WriterGet, WriterSentinel, HoldLock, SkipRecord, UnchangedRecord, BufferRecord, FlushScope,
              WriterPut, WriterRaises, HookRaises
<1>4. ASSUME NEW u \in Uploaders, UploadWorker(u) \/ UploadRaises(u)
      PROVE failureEvent => failureEvent'
  BY <1>4 DEF UploadWorker, UploaderGet, UploaderSentinel, Upload, PutCatalogJob, UploadRaises
<1>5. ASSUME NEW k \in Catalogers, CatalogWorker(k) \/ CatalogRaises(k) \/ OrphanCommit(k)
      PROVE failureEvent => failureEvent'
  BY <1>5 DEF CatalogWorker, CatalogerGet, CatalogerSentinel, CommitBatch, CompleteBatch, CatalogRaises,
              OrphanCommit
<1>6. ASSUME \/ DiscoverRaises \/ RequestShutdown
             \/ \E plan \in SUBSET Resumable : Discover(plan)
             \/ \E b \in BatchIds : FinalFlush(b)
      PROVE failureEvent => failureEvent'
  BY <1>6 DEF DiscoverRaises, RequestShutdown, Discover, FinalFlush
<1>7. failureEvent => failureEvent'
  BY <1>1, <1>2, <1>3, <1>4, <1>5, <1>6, StepKinds
     DEF Resumed, HolderRaises, Unforced
<1> QED BY <1>7, EndedStays DEF Clean

(* What the put loop puts in upload_queue is there, and so is what the     *)
(* queue held before.                                                      *)
LEMMA OfferFills ==
  ASSUME NEW B \in SUBSET BatchIds, NEW base \in Seq(BatchIds), NEW st \in [BatchIds -> Stages],
         Len(base) <= UploadQueueSize, failureEvent \in BOOLEAN,
         \A x \in BatchIds : st[x] = "uploadQueue" => \E i \in 1..Len(base) : base[i] = x,
         OfferBatches(B, base, st)
  PROVE \A x \in BatchIds : stage'[x] = "uploadQueue" =>
          \E i \in 1..Len(uploadQueue') : uploadQueue'[i] = x
<1>1. IsFiniteSet(B) /\ Cardinality(B) \in Nat
  BY FS_Subset, FS_CardinalityType, DataAssumption
<1>2. PICK order \in SetToSeqs(B) : OfferBatches(B, base, st)!(order)
  BY DEF OfferBatches
<1> DEFINE room == RoomAfter(base)
           n    == IF Len(order) <= room THEN Len(order) ELSE room
           put  == {order[i] : i \in 1..n}
           next == IF n = Len(order) THEN {} ELSE {order[n + 1]}
<1>3. order \in Seq(B)
  BY <1>1 DEF SetToSeqs
<1>4. room \in Nat
  BY SizeAssumption DEF RoomAfter
<1>5. n \in 0..Len(order)
  BY <1>3, <1>4
<1>6. /\ uploadQueue' = base \o SubSeq(order, 1, n)
      /\ \A x \in BatchIds : stage'[x] =
           IF x \in put THEN "uploadQueue"
           ELSE IF x \in next THEN (IF failureEvent THEN "lost" ELSE "held")
           ELSE IF x \in B THEN (IF failureEvent THEN "dropped" ELSE "popped")
           ELSE st[x]
  BY <1>2
<1> DEFINE tail == SubSeq(order, 1, n)
<1>7. tail \in Seq(BatchIds) /\ Len(tail) = n /\ \A i \in 1..n : tail[i] = order[i]
  BY <1>3, <1>5
<1> HIDE DEF tail, n
<1>8. /\ Len(uploadQueue') = Len(base) + n
      /\ \A i \in 1..Len(base) : uploadQueue'[i] = base[i]
      /\ \A i \in 1..n : uploadQueue'[Len(base) + i] = order[i]
  BY <1>6, <1>7, <1>5 DEF tail
<1> SUFFICES ASSUME NEW x \in BatchIds, stage'[x] = "uploadQueue"
             PROVE \E i \in 1..Len(uploadQueue') : uploadQueue'[i] = x
  OBVIOUS
<1>9. CASE x \in put
  <2>1. PICK i \in 1..n : order[i] = x
    BY <1>9
  <2>2. Len(base) + i \in 1..Len(uploadQueue')
    BY <1>8, <1>5
  <2> QED BY <2>1, <2>2, <1>8
<1>10. CASE x \notin put
  <2>1. st[x] = "uploadQueue"
    BY <1>6, <1>10
  <2>2. PICK i \in 1..Len(base) : base[i] = x
    BY <2>1
  <2>3. i \in 1..Len(uploadQueue')
    BY <1>8, <1>5
  <2> QED BY <2>2, <2>3, <1>8
<1> QED BY <1>9, <1>10

(* Without a failure the put loop leaves every batch it was given in the   *)
(* queue, in hand or behind the one in hand.                               *)
LEMMA OfferHeld ==
  ASSUME AccountingInv, ~failureEvent, BatchesAreHeld, NEW B, NEW base, NEW st,
         OfferBatches(B, base, st), Offerable(B, base, st),
         \A x \in BatchIds : st[x] = "uploadQueue" => \E i \in 1..Len(base) : base[i] = x,
         \A x \in BatchIds \ B : st[x] \notin {"held", "popped", "lost", "dropped"},
         \A x \in BatchIds : st[x] \in {"uploading", "uploaded", "catalogQueue", "cataloging",
                                        "committed"} => st[x] = stage[x],
         UNCHANGED <<uploadVars, catalogVars>>
  PROVE /\ BatchesAreHeld'
        /\ \A x \in BatchIds :
             IF x \in B THEN stage'[x] \in {"uploadQueue", "held", "popped"}
             ELSE stage'[x] = st[x]
<1> USE DEF Offerable, uploadVars, catalogVars
<1>1. PICK put \in SUBSET B, next \in SUBSET B : Offered(B, st, put, next)
  BY OfferedFacts
<1>2. \A x \in BatchIds : stage'[x] = IF x \in put THEN "uploadQueue"
                                      ELSE IF x \in next THEN "held"
                                      ELSE IF x \in B THEN "popped" ELSE st[x]
  BY <1>1 DEF Offered
<1>3. failureEvent \in BOOLEAN
  BY DEF AccountingInv, TypeOK
<1>4. \A x \in BatchIds : stage'[x] = "uploadQueue" =>
          \E i \in 1..Len(uploadQueue') : uploadQueue'[i] = x
  BY <1>3, OfferFills
<1>5. /\ \A x \in next : putting' = x
      /\ next # {} => putting' # None
      /\ next = {} => put = B
  BY <1>1 DEF Offered
<1>6. ASSUME NEW x \in BatchIds
      PROVE /\ stage'[x] \notin {"lost", "dropped"}
            /\ stage'[x] = "held" => putting' = x
            /\ stage'[x] = "popped" => putting' # None
            /\ stage'[x] \in {"uploading", "uploaded", "catalogQueue", "cataloging", "committed"}
                 => stage'[x] = stage[x]
  BY <1>2, <1>5
<1>7. BatchesAreHeld'
  BY <1>4, <1>6 DEF BatchesAreHeld
<1> QED BY <1>2, <1>7

(* No batch moves and nothing is looked at.                                *)
LEMMA BatchesKept ==
  ASSUME BatchesAreHeld, putting' = putting, uploadersUp' = uploadersUp,
         catalogersUp' = catalogersUp,
         UNCHANGED <<stage, uploadQueue, uploading, catalogQueue, cataloging>>
  PROVE BatchesAreHeld'
  BY DEF BatchesAreHeld

(* A finished scope without a result stays owed one, as long as its        *)
(* batches and the flush item in hand are there.                           *)
LEMMA OwedKept ==
  ASSUME ScopesAreOwed, UNCHANGED <<closed, crawlDone>>,
         \A b \in BatchIds : stage[b] \notin {"free", "done"} =>
           stage'[b] \notin {"free", "done"} /\ owners[b] \subseteq owners'[b],
         putting # None /\ holding # <<>> =>
           putting' # None /\ holding' # <<>> /\ Head(holding') = Head(holding)
  PROVE ScopesAreOwed'
  BY DEF ScopesAreOwed

(* The steps before the buffer: discovery, crawl workers, and the writers' *)
(* steps that touch no batch.                                              *)
LEMMA DrainCrawl ==
  ASSUME AccountingInv, Live => OrderInv, DrainParts, Clean, Clean', NEW c \in Crawlers,
         Crawl(c) \/ CrawlRaises(c)
  PROVE DrainParts'
<1> USE DEF mainVars, crawlVars, writerVars, storeVars, scopeVars, batchVars, uploadVars, catalogVars
<1>a. TypeOK /\ OneCrawler
  BY DEF AccountingInv, OrderInv, Clean
<1>1. /\ c \in crawlersUp /\ crawlersUp' \subseteq crawlersUp
      /\ UNCHANGED <<main, holding, writersUp, putting, stage, recs, owners, uploadQueue,
                     uploadersUp, uploading, catalogQueue, catalogersUp, cataloging, durable,
                     skipped, crawlDone, closed>>
  BY DEF Crawl, BeginScope, CrawlRecord, EndScope, PutItem, CrawlerReturns, CrawlRaises, Idle, InCrawl
<1>2. main = "crawling" /\ writersUp = WriterCount
  <2>1. main = "crawling"
    BY <1>1 DEF DrainParts, StagesDrain
  <2>2. writersUp <= WriterCount /\ writersUp \in Nat
    BY <1>a DEF AccountingInv, WorkersInv, TypeOK
  <2> QED BY <2>1, <2>2, SizeAssumption DEF DrainParts, StagesDrain
<1>3. StagesDrain'
  BY <1>1, <1>2, SizeAssumption
     DEF DrainParts, StagesDrain, AfterWriting, AfterFlushing, AfterUploading, AfterCataloging
<1>4. BatchesAreHeld' /\ ScopesAreOwed'
  BY <1>1, BatchesKept, OwedKept DEF DrainParts
<1>5. \A d \in Crawlers : offer'[d] # None => d \in crawlersUp'
  <2>1. ASSUME NEW d \in Crawlers, offer'[d] # None, d # c PROVE d \in crawlersUp'
    <3>1. offer'[d] = offer[d] /\ (d \in crawlersUp => d \in crawlersUp')
      BY <2>1, <1>a DEF TypeOK, Crawl, BeginScope, CrawlRecord, EndScope, PutItem, CrawlerReturns,
                        CrawlRaises
    <3> QED BY <2>1, <3>1 DEF DrainParts, RecordsAreKept
  <2>2. ASSUME offer'[c] # None PROVE c \in crawlersUp'
    <3>1. CASE CrawlerReturns(c) \/ CrawlRaises(c)
      BY <2>2, <3>1, <1>a DEF CrawlerReturns, CrawlRaises, Idle, InCrawl, OneCrawler
    <3>2. CASE ~(CrawlerReturns(c) \/ CrawlRaises(c))
      BY <3>2, <1>1 DEF Crawl, BeginScope, CrawlRecord, EndScope, PutItem
    <3> QED BY <3>1, <3>2
  <2> QED BY <2>1, <2>2
<1>6. \A s \in Scopes : \A r \in crawled'[s] :
        r \in durable' \cup skipped'[s] \/ Batched(r)' \/ Waiting(s, r)'
  <2>1. \A t \in Scopes : crawled[t] \subseteq Records
    BY <1>a DEF TypeOK
  <2>2. \A r : Batched(r)' <=> Batched(r)
    BY <1>1 DEF Batched
  <2>3. CASE Crawl(c)
    <3>1. /\ \A t \in Scopes, x \in Records : Waiting(t, x) => Waiting(t, x)'
          /\ \A t \in Scopes : \A x \in crawled'[t] : x \in crawled[t] \/ Waiting(t, x)'
      BY <1>a, <2>3, WaitingCrawl
    <3> QED BY <1>1, <2>1, <2>2, <3>1 DEF DrainParts, RecordsAreKept
  <2>4. CASE CrawlRaises(c)
    <3>1. UNCHANGED <<crawled, offer, recordQueue, holding>>
      BY <2>4 DEF CrawlRaises
    <3>2. \A t, r : Waiting(t, r)' <=> Waiting(t, r)
      BY <3>1 DEF Waiting
    <3> QED BY <1>1, <2>2, <3>1, <3>2 DEF DrainParts, RecordsAreKept
  <2> QED BY <2>3, <2>4
<1>7. RecordsAreKept'
  <2>1. \A r : Batched(r)' <=> Batched(r)
    BY <1>1 DEF Batched
  <2> QED BY <1>1, <1>5, <1>6, <2>1 DEF DrainParts, RecordsAreKept
<1> QED BY <1>3, <1>4, <1>7 DEF DrainParts

(* A writer takes an item to the lock.                                     *)
LEMMA DrainGet ==
  ASSUME AccountingInv, DrainParts, Clean, Clean', WriterGet
  PROVE DrainParts'
<1> USE DEF mainVars, crawlVars, writerVars, storeVars, scopeVars, batchVars, uploadVars, catalogVars
<1>1. /\ recordQueue # <<>> /\ recordQueue' = Tail(recordQueue)
      /\ holding' = Append(holding, Head(recordQueue))
      /\ UNCHANGED <<main, crawlersUp, offer, crawled, writersUp, putting, stage, recs, owners,
                     uploadQueue, uploadersUp, uploading, catalogQueue, catalogersUp, cataloging,
                     durable, skipped, crawlDone, closed>>
  BY DEF WriterGet, Clean
<1>2. holding \in Seq(Items) /\ Head(recordQueue) \in Items /\ TypeOK
  BY <1>1 DEF AccountingInv, TypeOK
<1>3. holding # <<>> => holding' # <<>> /\ Head(holding') = Head(holding)
  BY <1>1, <1>2
<1>4. putting # None => holding # <<>>
  BY <1>2 DEF WriterGet, IdleWriter, AccountingInv, QueueInv, WorkersInv
<1>5. BatchesAreHeld' /\ ScopesAreOwed'
  BY <1>1, <1>3, BatchesKept, OwedKept DEF DrainParts
<1>6. StagesDrain'
  <2>1. ~(writersUp < WriterCount)
    BY <1>1 DEF DrainParts, StagesDrain
  <2> QED BY <1>1, <2>1
          DEF DrainParts, StagesDrain, AfterWriting, AfterFlushing, AfterUploading, AfterCataloging
<1>7. RecordsAreKept'
  <2>1. \A t, r : Waiting(t, r) => Waiting(t, r)'
    BY <1>1, <1>2, WaitingGet
  <2>2. \A r : Batched(r)' <=> Batched(r)
    BY <1>1 DEF Batched
  <2> QED BY <1>1, <1>3, <1>4, <2>1, <2>2 DEF DrainParts, RecordsAreKept
<1> QED BY <1>5, <1>6, <1>7 DEF DrainParts

(* What buffering, popping and putting batches may do to them: none is     *)
(* lost, nothing is taken out of one, and an upload or catalog worker      *)
(* keeps its batch.                                                        *)
InWork == {"uploading", "uploaded", "cataloging", "committed"}

BatchMoves ==
  \A x \in BatchIds :
    /\ stage[x] # "free" => stage'[x] # "free"
    /\ stage[x] \notin {"free", "done"} => stage'[x] # "done"
    /\ stage'[x] \in {"committed", "done"} => stage'[x] = stage[x] /\ recs'[x] = recs[x]
    /\ recs[x] \subseteq recs'[x] /\ owners[x] \subseteq owners'[x]
    /\ stage[x] \in InWork => stage'[x] = stage[x]

(* Buffering a record, and putting the partition it filled.                *)
LEMMA RecordMoves ==
  ASSUME AccountingInv, ~failureEvent, BatchesAreHeld, BufferRecord
  PROVE /\ BatchesAreHeld' /\ BatchMoves
        /\ \A r : r = Head(holding).rec => Batched(r)'
<1> DEFINE item == Head(holding)
           b == BufferOf(item.rec)
           st == [stage EXCEPT ![b] = "buffered"]
<1>1. /\ putting = None
      /\ item \in [kind : {"record"}, scope : Scopes, rec : Records]
  BY DEF AccountingInv, TypeOK, BufferRecord, LockHolder, Items
<1>2. /\ b \in BatchIds /\ stage[b] \in {"free", "buffered"}
      /\ \A x \in BatchIds \ {b} : recs'[x] = recs[x] /\ owners'[x] = owners[x]
      /\ recs'[b] = recs[b] \cup {item.rec} /\ owners'[b] = owners[b] \cup {item.scope}
  BY <1>1, BufferFacts DEF AccountingInv, BufferRecord
<1>3. PICK B \in {{}, {b}} : OfferBatches(B, uploadQueue, st)
  BY DEF BufferRecord
<1>4. st \in [BatchIds -> Stages] /\ \A x \in BatchIds : st[x] = IF x = b THEN "buffered" ELSE stage[x]
  BY <1>2 DEF AccountingInv, TypeOK, Stages
<1>5. UNCHANGED <<catalogQueue, uploadVars, catalogVars>>
  BY DEF BufferRecord
<1> HIDE DEF item, b, st
<1>6. Offerable(B, uploadQueue, st)
  <2>1. /\ uploadQueue \in Seq(BatchIds) /\ Len(uploadQueue) <= UploadQueueSize
        /\ \A i, j \in 1..Len(uploadQueue) : uploadQueue[i] = uploadQueue[j] => i = j
    BY DEF AccountingInv, TypeOK, QueueInv
  <2>2. \A i \in 1..Len(uploadQueue) : st[uploadQueue[i]] = "uploadQueue" /\ uploadQueue[i] \notin B
    BY <1>2, <1>3, <1>4, <2>1 DEF AccountingInv, QueueInv
  <2>3. /\ \A x \in B : stage[x] \in {"free", "buffered", "popped"}
        /\ \A x \in BatchIds \ B : st[x] \in Tracked <=> stage[x] \in Tracked
        /\ \A x \in BatchIds : stage[x] = "catalogQueue" => st[x] = "catalogQueue"
        /\ \A x \in BatchIds : stage[x] \in Tracked => owners'[x] = owners[x]
    BY <1>2, <1>3, <1>4 DEF Tracked
  <2> QED BY <1>2, <1>3, <1>4, <1>5, <2>1, <2>2, <2>3 DEF Offerable
<1>7. /\ BatchesAreHeld'
      /\ \A x \in BatchIds : IF x \in B THEN stage'[x] \in {"uploadQueue", "held", "popped"}
                              ELSE stage'[x] = st[x]
  <2>1. \A x \in BatchIds : st[x] = "uploadQueue" => \E i \in 1..Len(uploadQueue) : uploadQueue[i] = x
    BY <1>4 DEF BatchesAreHeld
  <2>2. \A x \in BatchIds \ B : st[x] \notin {"held", "popped", "lost", "dropped"}
    BY <1>1, <1>4, DataAssumption DEF BatchesAreHeld
  <2>3. \A x \in BatchIds : st[x] \in {"uploading", "uploaded", "catalogQueue", "cataloging",
                                       "committed"} => st[x] = stage[x]
    BY <1>4
  <2> QED BY <1>3, <1>5, <1>6, <2>1, <2>2, <2>3, OfferHeld
<1>8. BatchMoves
  BY <1>2, <1>3, <1>4, <1>7 DEF BatchMoves, InWork
<1>9. ASSUME NEW r, r = Head(holding).rec PROVE Batched(r)'
  <2>1. stage'[b] # "free" /\ item.rec \in recs'[b]
    BY <1>2, <1>3, <1>4, <1>7
  <2> QED BY <1>2, <1>9, <2>1 DEF Batched, item
<1> QED BY <1>7, <1>8, <1>9

(* Popping buffered batches and putting them.                              *)
LEMMA FlushMoves ==
  ASSUME AccountingInv, ~failureEvent, BatchesAreHeld, putting = None, NEW B \in SUBSET BatchIds,
         \A x \in B : stage[x] = "buffered", OfferBatches(B, uploadQueue, stage),
         UNCHANGED <<recs, owners, catalogQueue, uploadVars, catalogVars>>
  PROVE /\ BatchesAreHeld' /\ BatchMoves
        /\ \A x \in BatchIds : stage'[x] = "buffered" => stage[x] = "buffered" /\ x \notin B
<1>1. Offerable(B, uploadQueue, stage)
  BY DEF Offerable, AccountingInv, TypeOK, QueueInv
<1>2. /\ BatchesAreHeld'
      /\ \A x \in BatchIds : IF x \in B THEN stage'[x] \in {"uploadQueue", "held", "popped"}
                              ELSE stage'[x] = stage[x]
  <2>1. \A x \in BatchIds : stage[x] = "uploadQueue" => \E i \in 1..Len(uploadQueue) : uploadQueue[i] = x
    BY DEF BatchesAreHeld
  <2>2. \A x \in BatchIds \ B : stage[x] \notin {"held", "popped", "lost", "dropped"}
    BY DataAssumption DEF BatchesAreHeld
  <2> QED BY <1>1, <2>1, <2>2, OfferHeld
<1> QED BY <1>2 DEF BatchMoves, InWork

(* Putting the batch in hand, and the batches behind it.                   *)
LEMMA ResumeMoves ==
  ASSUME AccountingInv, ~failureEvent, BatchesAreHeld, ResumePut,
         UNCHANGED <<catalogQueue, uploadVars, catalogVars>>
  PROVE /\ BatchesAreHeld' /\ BatchMoves
        /\ \A x \in BatchIds : stage'[x] = "buffered" => stage[x] = "buffered"
<1> DEFINE base == Append(uploadQueue, putting)
           st == [stage EXCEPT ![putting] = "uploadQueue"]
<1>1. OfferBatches(Unsent, base, st) /\ Offerable(Unsent, base, st)
  BY ResumeOfferable
<1>2. putting \in BatchIds /\ stage[putting] = "held" /\ uploadQueue \in Seq(BatchIds)
  BY DEF ResumePut, AccountingInv, TypeOK, QueueInv
<1>3. \A x \in BatchIds : st[x] = IF x = putting THEN "uploadQueue" ELSE stage[x]
  BY <1>2 DEF AccountingInv, TypeOK
<1>4. \A x \in BatchIds : st[x] = "uploadQueue" => \E i \in 1..Len(base) : base[i] = x
  <2>1. /\ \A i \in 1..Len(uploadQueue) : i \in 1..Len(base) /\ base[i] = uploadQueue[i]
        /\ Len(uploadQueue) + 1 \in 1..Len(base) /\ base[Len(uploadQueue) + 1] = putting
    BY <1>2, AppendFacts
  <2> HIDE DEF base, st
  <2> QED BY <1>3, <2>1 DEF BatchesAreHeld
<1> HIDE DEF base, st
<1>5. \A x \in BatchIds \ Unsent : st[x] \notin {"held", "popped", "lost", "dropped"}
  BY <1>3 DEF BatchesAreHeld, Unsent
<1>6. \A x \in BatchIds : st[x] \in {"uploading", "uploaded", "catalogQueue", "cataloging",
                                     "committed"} => st[x] = stage[x]
  BY <1>3
<1>7. /\ BatchesAreHeld'
      /\ \A x \in BatchIds : IF x \in Unsent THEN stage'[x] \in {"uploadQueue", "held", "popped"}
                              ELSE stage'[x] = st[x]
  BY <1>1, <1>4, <1>5, <1>6, OfferHeld
<1>8. UNCHANGED <<recs, owners>>
  BY DEF ResumePut
<1> QED BY <1>2, <1>3, <1>7, <1>8 DEF BatchMoves, InWork, Unsent

-----------------------------------------------------------------------------
(* The lock's holder.                                                      *)

(* What the lock's holder does keeps the drain: its record is decided      *)
(* before it lets go of it.                                                *)
LEMMA HolderDrains ==
  ASSUME AccountingInv, DrainParts, BatchesAreHeld', ScopesAreOwed', BatchMoves, holding # <<>>,
         UNCHANGED <<main, crawlersUp, offer, crawled, recordQueue, writersUp, uploadersUp,
                     catalogersUp, catalogQueue, durable>>,
         \A s \in Scopes : skipped[s] \subseteq skipped'[s],
         \/ holding' = Tail(holding) /\ putting' = None
         \/ holding' = holding /\ putting' # None,
         \A r : Head(holding).kind = "record" /\ r = Head(holding).rec =>
           Batched(r)' \/ (putting' = None /\ r \in durable \cup skipped'[Head(holding).scope])
  PROVE DrainParts'
<1>1. main \notin AfterWriting
  <2>1. writersUp # 0
    BY DEF AccountingInv, TypeOK, WorkersInv
  <2> QED BY <2>1 DEF DrainParts, StagesDrain
<1>2. uploadersUp = Uploaders /\ catalogersUp = Catalogers
  BY <1>1 DEF DrainParts, StagesDrain, AfterWriting, AfterFlushing
<1>3. StagesDrain'
  BY <1>1, <1>2 DEF DrainParts, StagesDrain, AfterWriting, AfterFlushing, AfterUploading, AfterCataloging
<1>4. \A r : Batched(r) => Batched(r)'
  BY DEF Batched, BatchMoves
<1>5. ASSUME NEW s \in Scopes, NEW r \in crawled[s]
      PROVE r \in durable \cup skipped'[s] \/ Batched(r)' \/ Waiting(s, r)'
  <2>1. r \in durable \cup skipped[s] \/ Batched(r) \/ Waiting(s, r)
    BY DEF DrainParts, RecordsAreKept
  <2>2. CASE Waiting(s, r)
    <3>1. TypeOK
      BY DEF AccountingInv
    <3> QED BY <2>2, <3>1, WaitingLock
  <2> QED BY <2>1, <2>2, <1>4
<1>6. RecordsAreKept'
  <2>1. \A b \in BatchIds : stage'[b] \in {"committed", "done"} => recs'[b] \subseteq durable'
    BY DEF DrainParts, RecordsAreKept, BatchMoves
  <2>2. (putting # None /\ holding # <<>> /\ Head(holding).kind = "record" =>
          Batched(Head(holding).rec))'
    <3>1. PICK r : r = Head(holding).rec
      OBVIOUS
    <3>2. putting' # None /\ Head(holding).kind = "record" =>
            \E b \in BatchIds : stage'[b] # "free" /\ r \in recs'[b]
      BY <3>1 DEF Batched
    <3>3. putting' # None => holding' = holding
      OBVIOUS
    <3> QED BY <3>1, <3>2, <3>3 DEF Batched
  <2> QED BY <1>5, <2>1, <2>2 DEF DrainParts, RecordsAreKept
<1> QED BY <1>3, <1>6 DEF DrainParts

(* A scope that is not ready has a batch that is not done.                 *)
LEMMA NotReady ==
  ASSUME AccountingInv', NEW s \in Scopes, pendingBatches'[s] # 0 \/ HasScope(s)
  PROVE \E b \in BatchIds : stage'[b] \notin {"free", "done"} /\ s \in owners'[b]
<1>1. CASE HasScope(s)
  BY <1>1 DEF HasScope
<1>2. CASE pendingBatches'[s] # 0
  <2>1. Cardinality(PendingOf(s)') # 0
    BY <1>2 DEF AccountingInv, PendingAccounting
  <2>2. PendingOf(s)' # {}
    BY <2>1, FS_EmptySet
  <2>3. PICK b \in BatchIds : stage'[b] \in Tracked /\ s \in owners'[b]
    BY <2>2 DEF PendingOf
  <2> QED BY <2>3 DEF Tracked
<1> QED BY <1>1, <1>2

(* The holder that lets go of a flush item has looked at its scope.        *)
LEMMA OwedHolder ==
  ASSUME AccountingInv, AccountingInv', ScopesAreOwed, BatchMoves, ~failureEvent, holding # <<>>,
         NEW B, AfterOffer(B), crawlDone \subseteq crawlDone',
         \A s \in crawlDone' \ crawlDone : Head(holding).kind = "flush" /\ s = Head(holding).scope
  PROVE ScopesAreOwed'
<1> DEFINE item == Head(holding)
           S == IF item.kind = "flush" THEN {item.scope} ELSE {}
           Held(s) == \E b \in BatchIds : stage'[b] \notin {"free", "done"} /\ s \in owners'[b]
<1>1. \A s \in crawlDone \ closed : Held(s) \/ (item.kind = "flush" /\ item.scope = s)
  BY DEF ScopesAreOwed, BatchMoves
<1>2. CASE putting' # None
  <2>1. holding' = holding /\ closed' = closed
    BY <1>2 DEF AfterOffer
  <2> QED BY <1>1, <1>2, <2>1 DEF ScopesAreOwed
<1>3. CASE putting' = None
  <2> DEFINE ready == {s \in S \ closed : /\ s \in crawlDone'
                                           /\ pendingBatches'[s] = 0
                                           /\ ~HasScope(s)}
  <2>1. closed' = closed \cup ready
    BY <1>3 DEF AfterOffer, CompleteIfReady
  <2>2. crawlDone' \subseteq Scopes
    BY DEF AccountingInv, TypeOK
  <2>3. ASSUME NEW s \in crawlDone' \ closed' PROVE Held(s)
    <3>1. CASE item.kind = "flush" /\ s = item.scope
      <4>1. pendingBatches'[s] # 0 \/ HasScope(s)
        BY <2>1, <2>3, <3>1
      <4> QED BY <2>2, <4>1, NotReady
    <3>2. CASE ~(item.kind = "flush" /\ s = item.scope)
      BY <1>1, <2>1, <3>2
    <3> QED BY <3>1, <3>2
  <2>4. closed' \subseteq crawlDone'
    BY <2>1 DEF ScopesAreOwed
  <2> QED BY <2>3, <2>4 DEF ScopesAreOwed
<1> QED BY <1>2, <1>3

(* The steps of the lock's holder keep the drain.                          *)
LEMMA DrainHolder ==
  ASSUME AccountingInv, AccountingInv', DrainParts, Clean, HoldLock
  PROVE DrainParts'
<1> USE DEF mainVars, crawlVars, writerVars, storeVars, scopeVars, batchVars, uploadVars, catalogVars
<1> DEFINE item == Head(holding)
<1>a. /\ holding # <<>> /\ ~failureEvent
      /\ UNCHANGED <<main, crawlersUp, offer, crawled, recordQueue, uploadersUp, uploading,
                     catalogersUp, cataloging, catalogQueue, durable>>
  BY DEF HoldLock, SkipRecord, UnchangedRecord, BufferRecord, FlushScope, WriterPut, ResumePut,
         LockHolder, AccountingInv, QueueInv, Clean
<1>b. /\ item \in Items /\ item.scope \in Scopes /\ item.kind \in {"record", "flush"}
      /\ skipped \in [Scopes -> SUBSET Records]
  <2>1. item \in Items
    BY <1>a DEF AccountingInv, TypeOK
  <2> QED BY <2>1 DEF Items, AccountingInv, TypeOK
<1>c. ASSUME NEW B, AfterOffer(B)
      PROVE /\ writersUp' = writersUp
            /\ \/ holding' = Tail(holding) /\ putting' = None
               \/ holding' = holding /\ putting' # None
  BY <1>a, <1>c DEF AfterOffer, Release
<1>1. CASE SkipRecord
  <2>1. /\ item.kind = "record" /\ putting = None /\ putting' = None
        /\ skipped' = [skipped EXCEPT ![item.scope] = @ \cup {item.rec}]
        /\ holding' = Tail(holding)
        /\ UNCHANGED <<stage, recs, owners, uploadQueue, closed, crawlDone, writersUp>>
    BY <1>1 DEF SkipRecord, LockHolder, Release
  <2>2. BatchesAreHeld' /\ BatchMoves /\ ScopesAreOwed'
    BY <1>a, <2>1, BatchesKept, OwedKept DEF DrainParts, BatchMoves
  <2>3. \A s \in Scopes : skipped[s] \subseteq skipped'[s]
    BY <1>b, <2>1
  <2>4. item.rec \in skipped'[item.scope]
    BY <1>b, <2>1
  <2> QED BY <1>a, <2>1, <2>2, <2>3, <2>4, HolderDrains
<1>2. CASE UnchangedRecord
  <2>1. /\ item.kind = "record" /\ putting = None /\ putting' = None /\ item.rec \in durable
        /\ holding' = Tail(holding)
        /\ UNCHANGED <<stage, recs, owners, uploadQueue, closed, crawlDone, skipped, writersUp>>
    BY <1>2 DEF UnchangedRecord, LockHolder, Release
  <2>2. BatchesAreHeld' /\ BatchMoves /\ ScopesAreOwed'
    BY <1>a, <2>1, BatchesKept, OwedKept DEF DrainParts, BatchMoves
  <2> QED BY <1>a, <2>1, <2>2, HolderDrains
<1>3. CASE BufferRecord
  <2>1. UNCHANGED <<skipped, crawlDone>> /\ \E B : AfterOffer(B)
    BY <1>3 DEF BufferRecord
  <2>2. /\ BatchesAreHeld' /\ BatchMoves
        /\ \A r : r = item.rec => Batched(r)'
    BY <1>3, <1>a, RecordMoves DEF DrainParts
  <2>3. ScopesAreOwed'
    BY <1>a, <2>1, <2>2, OwedHolder DEF DrainParts
  <2> QED BY <1>a, <1>c, <2>1, <2>2, <2>3, HolderDrains
<1>4. CASE FlushScope
  <2>1. /\ item.kind = "flush" /\ putting = None
        /\ OfferBatches(Popped(item.scope), uploadQueue, stage) /\ AfterOffer(Popped(item.scope))
        /\ Popped(item.scope) \in SUBSET BatchIds
        /\ \A x \in Popped(item.scope) : stage[x] = "buffered"
        /\ UNCHANGED <<skipped, recs, owners>> /\ crawlDone' = crawlDone \cup {item.scope}
    BY <1>4 DEF FlushScope, LockHolder, Popped
  <2>2. BatchesAreHeld' /\ BatchMoves
    BY <1>a, <2>1, FlushMoves DEF DrainParts
  <2>3. ScopesAreOwed'
    BY <1>a, <2>1, <2>2, OwedHolder DEF DrainParts
  <2> QED BY <1>a, <1>c, <2>1, <2>2, <2>3, HolderDrains
<1>5. CASE WriterPut
  <2>1. /\ putting # None /\ ResumePut /\ AfterOffer(Unsent)
        /\ UNCHANGED <<skipped, crawlDone>>
    BY <1>5 DEF WriterPut, ResumePut
  <2>2. BatchesAreHeld' /\ BatchMoves
    BY <1>a, <2>1, ResumeMoves DEF DrainParts
  <2>3. ScopesAreOwed'
    BY <1>a, <2>1, <2>2, OwedHolder DEF DrainParts
  <2>4. \A r : item.kind = "record" /\ r = item.rec => Batched(r)'
    <3>1. \A r : Batched(r) => Batched(r)'
      BY <2>2 DEF Batched, BatchMoves
    <3> QED BY <1>a, <2>1, <3>1 DEF DrainParts, RecordsAreKept
  <2> QED BY <1>a, <1>c, <2>1, <2>2, <2>3, <2>4, HolderDrains
<1> QED BY <1>1, <1>2, <1>3, <1>4, <1>5 DEF HoldLock

-----------------------------------------------------------------------------
(* Upload and catalog workers.                                             *)

(* One batch goes from stage to stage, and the other parts of the run keep *)
(* their records and scopes.                                               *)
LEMMA DrainMove ==
  ASSUME TypeOK, DrainParts, NEW b \in BatchIds, NEW to \in Stages \ {"free", "done"},
         stage' = [stage EXCEPT ![b] = to], stage[b] # "free",
         to = "committed" => recs[b] \subseteq durable', durable \subseteq durable',
         UNCHANGED <<crawlersUp, offer, crawled, recordQueue, holding, putting, recs, owners, skipped,
                     crawlDone, closed>>
  PROVE RecordsAreKept' /\ (stage[b] # "done" => ScopesAreOwed')
<1>1. \A x \in BatchIds : stage'[x] = IF x = b THEN to ELSE stage[x]
  BY DEF TypeOK
<1>2. \A r : Batched(r) => Batched(r)'
  BY <1>1 DEF Batched
<1>3. \A t, r : Waiting(t, r)' <=> Waiting(t, r)
  BY DEF Waiting
<1>4. RecordsAreKept'
  <2>1. (putting # None /\ holding # <<>> /\ Head(holding).kind = "record" =>
          Batched(Head(holding).rec))'
    <3>1. PICK r : r = Head(holding).rec
      OBVIOUS
    <3>2. putting # None /\ holding # <<>> /\ Head(holding).kind = "record" =>
            \E x \in BatchIds : stage'[x] # "free" /\ r \in recs'[x]
      BY <3>1, <1>2 DEF DrainParts, RecordsAreKept, Batched
    <3> QED BY <3>1, <3>2 DEF Batched
  <2>2. \A x \in BatchIds : stage'[x] \in {"committed", "done"} => recs'[x] \subseteq durable'
    BY <1>1 DEF DrainParts, RecordsAreKept
  <2> QED BY <1>2, <1>3, <2>1, <2>2 DEF DrainParts, RecordsAreKept
<1>5. ASSUME stage[b] # "done" PROVE ScopesAreOwed'
  BY <1>1, <1>5, OwedKept DEF DrainParts
<1> QED BY <1>4, <1>5

LEMMA DrainUpload ==
  ASSUME AccountingInv, DrainParts, Clean, Clean', NEW u \in Uploaders,
         UploadWorker(u) \/ UploadRaises(u)
  PROVE DrainParts'
<1> USE DEF mainVars, crawlVars, writerVars, storeVars, scopeVars, batchVars, uploadVars, catalogVars
<1>a. TypeOK /\ None \notin BatchIds
  BY DataAssumption DEF AccountingInv
<1>b. /\ uploading \in [Uploaders -> BatchIds \cup {None}] /\ stage \in [BatchIds -> Stages]
      /\ uploadQueue \in Seq(BatchIds) /\ catalogQueue \in Seq(BatchIds)
  BY <1>a DEF TypeOK
<1>c. ~failureEvent /\ ~failureEvent'
  BY DEF Clean
<1>1. CASE UploaderGet(u)
  <2> DEFINE b == Head(uploadQueue)
  <2>1. /\ u \in uploadersUp /\ uploading[u] = None /\ uploadQueue # <<>>
        /\ uploadQueue' = Tail(uploadQueue) /\ uploadersUp' = uploadersUp
        /\ stage' = [stage EXCEPT ![b] = "uploading"] /\ uploading' = [uploading EXCEPT ![u] = b]
        /\ UNCHANGED <<main, crawlersUp, offer, crawled, recordQueue, holding, writersUp, putting, recs,
                       owners, skipped, crawlDone, closed, durable, catalogQueue, catalogersUp, cataloging>>
    BY <1>1, <1>c DEF UploaderGet
  <2>2. b = uploadQueue[1] /\ 1 \in 1..Len(uploadQueue) /\ b \in BatchIds
    BY <1>b, <2>1
  <2>3. stage[b] = "uploadQueue"
    BY <2>2 DEF AccountingInv, QueueInv
  <2> HIDE DEF b
  <2>4. RecordsAreKept' /\ ScopesAreOwed'
    BY <1>a, <2>1, <2>2, <2>3, DrainMove DEF Stages
  <2>5. \A i \in 1..Len(uploadQueue) :
          i = 1 \/ (i - 1 \in 1..Len(uploadQueue') /\ uploadQueue'[i - 1] = uploadQueue[i])
    <3>1. Len(Tail(uploadQueue)) = Len(uploadQueue) - 1 /\ Len(uploadQueue) \in Nat
      BY <1>b, <2>1
    <3>2. ASSUME NEW i \in 1..Len(uploadQueue), i # 1
          PROVE i - 1 \in 1..Len(Tail(uploadQueue)) /\ Tail(uploadQueue)[i - 1] = uploadQueue[i]
      BY <1>b, <2>1, <3>1, <3>2
    <3> QED BY <2>1, <3>2
  <2>6. BatchesAreHeld'
    <3>1. \A x \in BatchIds : stage'[x] = IF x = b THEN "uploading" ELSE stage[x]
      BY <1>b, <2>1
    <3>2. uploading'[u] = b /\ \A v \in Uploaders \ {u} : uploading'[v] = uploading[v]
      BY <1>b, <2>1
    <3>3. uploadersUp \subseteq Uploaders
      BY <1>a DEF TypeOK
    <3>4. ASSUME NEW x \in BatchIds, x # b, stage[x] = "uploadQueue"
          PROVE \E i \in 1..Len(uploadQueue') : uploadQueue'[i] = x
      BY <2>2, <2>5, <3>4 DEF DrainParts, BatchesAreHeld
    <3>5. ASSUME NEW x \in BatchIds, stage'[x] \in {"uploading", "uploaded"}
          PROVE \E v \in uploadersUp' : uploading'[v] = x
      BY <1>a, <2>1, <3>1, <3>2, <3>3, <3>5 DEF DrainParts, BatchesAreHeld
    <3> QED BY <2>1, <3>1, <3>4, <3>5 DEF DrainParts, BatchesAreHeld
  <2>7. StagesDrain'
    <3>1. \A x \in BatchIds : stage'[x] = "buffered" => stage[x] = "buffered"
      BY <1>b, <2>1, <2>2
    <3> QED BY <2>1, <3>1
            DEF DrainParts, StagesDrain, AfterWriting, AfterFlushing, AfterUploading, AfterCataloging
  <2> QED BY <2>4, <2>6, <2>7 DEF DrainParts
<1>2. CASE UploaderSentinel(u)
  <2>1. /\ uploading[u] = None /\ uploadQueue = <<>> /\ main \in {"uploadPills", "uploading"}
        /\ uploadersUp' = uploadersUp \ {u}
        /\ UNCHANGED <<main, crawlersUp, offer, crawled, recordQueue, holding, writersUp, putting, stage,
                       recs, owners, skipped, crawlDone, closed, durable, uploadQueue, uploading,
                       catalogQueue, catalogersUp, cataloging>>
    BY <1>2 DEF UploaderSentinel
  <2>2. BatchesAreHeld'
    <3>1. ASSUME NEW x \in BatchIds, stage[x] \in {"uploading", "uploaded"}
          PROVE \E v \in uploadersUp' : uploading[v] = x
      BY <1>a, <2>1, <3>1 DEF DrainParts, BatchesAreHeld
    <3> QED BY <2>1, <3>1 DEF DrainParts, BatchesAreHeld
  <2>3. StagesDrain'
    BY <2>1 DEF DrainParts, StagesDrain, AfterWriting, AfterFlushing, AfterUploading, AfterCataloging
  <2>4. RecordsAreKept' /\ ScopesAreOwed'
    <3>1. \A r : Batched(r)' <=> Batched(r)
      BY <2>1 DEF Batched
    <3>2. \A t, r : Waiting(t, r)' <=> Waiting(t, r)
      BY <2>1 DEF Waiting
    <3> QED BY <2>1, <3>1, <3>2, OwedKept DEF DrainParts, RecordsAreKept
  <2> QED BY <2>2, <2>3, <2>4 DEF DrainParts
<1>3. CASE Upload(u)
  <2> DEFINE b == uploading[u]
  <2>1. /\ b # None /\ stage[b] = "uploading" /\ stage' = [stage EXCEPT ![b] = "uploaded"]
        /\ UNCHANGED <<main, crawlersUp, offer, crawled, recordQueue, holding, writersUp, putting, recs,
                       owners, skipped, crawlDone, closed, durable, uploadQueue, uploadersUp, uploading,
                       catalogQueue, catalogersUp, cataloging>>
    BY <1>3, <1>c DEF Upload
  <2>2. b \in BatchIds
    BY <1>b, <2>1
  <2> HIDE DEF b
  <2>3. \A x \in BatchIds : stage'[x] = IF x = b THEN "uploaded" ELSE stage[x]
    BY <1>b, <2>1
  <2>4. RecordsAreKept' /\ ScopesAreOwed'
    BY <1>a, <2>1, <2>2, DrainMove DEF Stages
  <2>5. BatchesAreHeld'
    BY <2>1, <2>2, <2>3 DEF DrainParts, BatchesAreHeld
  <2>6. StagesDrain'
    BY <2>1, <2>3 DEF DrainParts, StagesDrain, AfterWriting, AfterFlushing, AfterUploading, AfterCataloging
  <2> QED BY <2>4, <2>5, <2>6 DEF DrainParts
<1>4. CASE PutCatalogJob(u)
  <2> DEFINE b == uploading[u]
  <2>1. /\ u \in uploadersUp /\ b # None /\ stage[b] = "uploaded"
        /\ stage' = [stage EXCEPT ![b] = "catalogQueue"]
        /\ catalogQueue' = Append(catalogQueue, b) /\ uploading' = [uploading EXCEPT ![u] = None]
        /\ UNCHANGED <<main, crawlersUp, offer, crawled, recordQueue, holding, writersUp, putting, recs,
                       owners, skipped, crawlDone, closed, durable, uploadQueue, uploadersUp,
                       catalogersUp, cataloging>>
    BY <1>4 DEF PutCatalogJob
  <2>2. b \in BatchIds
    BY <1>b, <2>1
  <2>3. \A x \in BatchIds : stage'[x] = IF x = b THEN "catalogQueue" ELSE stage[x]
    BY <1>b, <2>1
  <2>4. /\ \A i \in 1..Len(catalogQueue) : i \in 1..Len(catalogQueue') /\ catalogQueue'[i] = catalogQueue[i]
        /\ Len(catalogQueue) + 1 \in 1..Len(catalogQueue') /\ catalogQueue'[Len(catalogQueue) + 1] = b
    BY <1>b, <2>1, <2>2, AppendFacts
  <2>5. RecordsAreKept' /\ ScopesAreOwed'
    BY <1>a, <2>1, <2>2, DrainMove DEF Stages
  <2>6. BatchesAreHeld'
    <3>1. ASSUME NEW x \in BatchIds, stage'[x] \in {"uploading", "uploaded"}
          PROVE \E v \in uploadersUp' : uploading'[v] = x
      <4>1. x # b /\ stage[x] \in {"uploading", "uploaded"}
        BY <2>3, <3>1
      <4>2. PICK v \in uploadersUp : uploading[v] = x
        BY <4>1 DEF DrainParts, BatchesAreHeld
      <4>3. v # u /\ v \in Uploaders
        BY <1>a, <4>1, <4>2 DEF TypeOK
      <4> QED BY <1>b, <2>1, <4>2, <4>3
    <3>2. ASSUME NEW x \in BatchIds, stage'[x] = "catalogQueue"
          PROVE \E i \in 1..Len(catalogQueue') : catalogQueue'[i] = x
      BY <2>3, <2>4, <3>2 DEF DrainParts, BatchesAreHeld
    <3> HIDE DEF b
    <3> QED BY <2>1, <2>2, <2>3, <3>1, <3>2 DEF DrainParts, BatchesAreHeld
  <2>7. StagesDrain'
    <3>1. main \notin AfterUploading
      BY <2>1 DEF DrainParts, StagesDrain
    <3> HIDE DEF b
    <3> QED BY <2>1, <2>3, <3>1
            DEF DrainParts, StagesDrain, AfterWriting, AfterFlushing, AfterUploading, AfterCataloging
  <2> QED BY <2>5, <2>6, <2>7 DEF DrainParts
<1>5. CASE UploadRaises(u)
  BY <1>5, <1>c DEF UploadRaises
<1> QED BY <1>1, <1>2, <1>3, <1>4, <1>5 DEF UploadWorker

(* The last batch of a scope looks at the scope again.                     *)
LEMMA OwedComplete ==
  ASSUME AccountingInv, AccountingInv', ScopesAreOwed, NEW b \in BatchIds, stage[b] = "committed",
         stage' = [stage EXCEPT ![b] = "done"], CompleteIfReady(owners[b]),
         UNCHANGED <<crawlDone, owners, putting, holding>>
  PROVE ScopesAreOwed'
<1> DEFINE ready == {s \in owners[b] \ closed : /\ s \in crawlDone'
                                                /\ pendingBatches'[s] = 0
                                                /\ ~HasScope(s)}
           Held(s) == \E x \in BatchIds : stage'[x] \notin {"free", "done"} /\ s \in owners'[x]
<1>1. closed' = closed \cup ready
  BY DEF CompleteIfReady
<1>2. \A x \in BatchIds : stage'[x] = IF x = b THEN "done" ELSE stage[x]
  BY DEF AccountingInv, TypeOK
<1>3. crawlDone \subseteq Scopes
  BY DEF AccountingInv, TypeOK
<1>4. ASSUME NEW s \in crawlDone \ closed', s \in owners[b] PROVE Held(s)
  <2>1. pendingBatches'[s] # 0 \/ HasScope(s)
    BY <1>1, <1>4
  <2> QED BY <1>3, <2>1, NotReady
<1>5. ASSUME NEW s \in crawlDone \ closed', s \notin owners[b]
      PROVE \/ Held(s)
            \/ /\ putting # None /\ holding # <<>>
               /\ Head(holding).kind = "flush" /\ Head(holding).scope = s
  BY <1>1, <1>2, <1>5 DEF ScopesAreOwed
<1> QED BY <1>1, <1>4, <1>5 DEF ScopesAreOwed

LEMMA DrainCatalog ==
  ASSUME AccountingInv, AccountingInv', DrainParts, Clean, Clean', NEW k \in Catalogers,
         CatalogWorker(k) \/ CatalogRaises(k)
  PROVE DrainParts'
<1> USE DEF mainVars, crawlVars, writerVars, storeVars, scopeVars, batchVars, uploadVars, catalogVars
<1>a. TypeOK /\ None \notin BatchIds
  BY DataAssumption DEF AccountingInv
<1>b. /\ cataloging \in [Catalogers -> BatchIds \cup {None}] /\ stage \in [BatchIds -> Stages]
      /\ catalogQueue \in Seq(BatchIds) /\ catalogersUp \subseteq Catalogers
  BY <1>a DEF TypeOK
<1>c. ~failureEvent /\ ~failureEvent'
  BY DEF Clean
<1>1. CASE CatalogerGet(k)
  <2> DEFINE b == Head(catalogQueue)
  <2>1. /\ k \in catalogersUp /\ cataloging[k] = None /\ catalogQueue # <<>>
        /\ catalogQueue' = Tail(catalogQueue) /\ catalogersUp' = catalogersUp
        /\ stage' = [stage EXCEPT ![b] = "cataloging"] /\ cataloging' = [cataloging EXCEPT ![k] = b]
        /\ UNCHANGED <<main, crawlersUp, offer, crawled, recordQueue, holding, writersUp, putting, recs,
                       owners, skipped, crawlDone, closed, durable, uploadQueue, uploadersUp, uploading>>
    BY <1>1, <1>c DEF CatalogerGet
  <2>2. b = catalogQueue[1] /\ 1 \in 1..Len(catalogQueue) /\ b \in BatchIds
    BY <1>b, <2>1
  <2>3. stage[b] = "catalogQueue"
    BY <2>2 DEF AccountingInv, QueueInv
  <2> HIDE DEF b
  <2>4. RecordsAreKept' /\ ScopesAreOwed'
    BY <1>a, <2>1, <2>2, <2>3, DrainMove DEF Stages
  <2>5. \A i \in 1..Len(catalogQueue) :
          i = 1 \/ (i - 1 \in 1..Len(catalogQueue') /\ catalogQueue'[i - 1] = catalogQueue[i])
    <3>1. Len(Tail(catalogQueue)) = Len(catalogQueue) - 1 /\ Len(catalogQueue) \in Nat
      BY <1>b, <2>1
    <3>2. ASSUME NEW i \in 1..Len(catalogQueue), i # 1
          PROVE i - 1 \in 1..Len(Tail(catalogQueue)) /\ Tail(catalogQueue)[i - 1] = catalogQueue[i]
      BY <1>b, <2>1, <3>1, <3>2
    <3> QED BY <2>1, <3>2
  <2>6. \A x \in BatchIds : stage'[x] = IF x = b THEN "cataloging" ELSE stage[x]
    BY <1>b, <2>1
  <2>7. BatchesAreHeld'
    <3>1. cataloging'[k] = b /\ \A v \in Catalogers \ {k} : cataloging'[v] = cataloging[v]
      BY <1>b, <2>1
    <3>2. ASSUME NEW x \in BatchIds, x # b, stage[x] = "catalogQueue"
          PROVE \E i \in 1..Len(catalogQueue') : catalogQueue'[i] = x
      BY <2>2, <2>5, <3>2 DEF DrainParts, BatchesAreHeld
    <3>3. ASSUME NEW x \in BatchIds, stage'[x] \in {"cataloging", "committed"}
          PROVE \E v \in catalogersUp' : cataloging'[v] = x
      BY <1>a, <1>b, <2>1, <2>6, <3>1, <3>3 DEF DrainParts, BatchesAreHeld
    <3> QED BY <2>1, <2>6, <3>2, <3>3 DEF DrainParts, BatchesAreHeld
  <2>8. StagesDrain'
    BY <2>1, <2>6 DEF DrainParts, StagesDrain, AfterWriting, AfterFlushing, AfterUploading, AfterCataloging
  <2> QED BY <2>4, <2>7, <2>8 DEF DrainParts
<1>2. CASE CatalogerSentinel(k)
  <2>1. /\ cataloging[k] = None /\ catalogQueue = <<>> /\ main \in {"catalogPills", "cataloging"}
        /\ catalogersUp' = catalogersUp \ {k}
        /\ UNCHANGED <<main, crawlersUp, offer, crawled, recordQueue, holding, writersUp, putting, stage,
                       recs, owners, skipped, crawlDone, closed, durable, uploadQueue, uploadersUp,
                       uploading, catalogQueue, cataloging>>
    BY <1>2 DEF CatalogerSentinel
  <2>2. BatchesAreHeld'
    <3>1. ASSUME NEW x \in BatchIds, stage[x] \in {"cataloging", "committed"}
          PROVE \E v \in catalogersUp' : cataloging[v] = x
      BY <1>a, <2>1, <3>1 DEF DrainParts, BatchesAreHeld
    <3> QED BY <2>1, <3>1 DEF DrainParts, BatchesAreHeld
  <2>3. StagesDrain'
    BY <2>1 DEF DrainParts, StagesDrain, AfterWriting, AfterFlushing, AfterUploading, AfterCataloging
  <2>4. RecordsAreKept' /\ ScopesAreOwed'
    <3>1. \A r : Batched(r)' <=> Batched(r)
      BY <2>1 DEF Batched
    <3>2. \A t, r : Waiting(t, r)' <=> Waiting(t, r)
      BY <2>1 DEF Waiting
    <3> QED BY <2>1, <3>1, <3>2, OwedKept DEF DrainParts, RecordsAreKept
  <2> QED BY <2>2, <2>3, <2>4 DEF DrainParts
<1>3. CASE CommitBatch(k)
  <2> DEFINE b == cataloging[k]
  <2>1. /\ b # None /\ stage[b] = "cataloging" /\ stage' = [stage EXCEPT ![b] = "committed"]
        /\ durable' = durable \cup recs[b]
        /\ UNCHANGED <<main, crawlersUp, offer, crawled, recordQueue, holding, writersUp, putting, recs,
                       owners, skipped, crawlDone, closed, uploadQueue, uploadersUp, uploading,
                       catalogQueue, catalogersUp, cataloging>>
    BY <1>3 DEF CommitBatch
  <2>2. b \in BatchIds
    BY <1>b, <2>1
  <2> HIDE DEF b
  <2>3. \A x \in BatchIds : stage'[x] = IF x = b THEN "committed" ELSE stage[x]
    BY <1>b, <2>1
  <2>4. RecordsAreKept' /\ ScopesAreOwed'
    BY <1>a, <2>1, <2>2, DrainMove DEF Stages
  <2>5. BatchesAreHeld'
    BY <2>1, <2>2, <2>3 DEF DrainParts, BatchesAreHeld
  <2>6. StagesDrain'
    BY <2>1, <2>3 DEF DrainParts, StagesDrain, AfterWriting, AfterFlushing, AfterUploading, AfterCataloging
  <2> QED BY <2>4, <2>5, <2>6 DEF DrainParts
<1>4. CASE CompleteBatch(k)
  <2>1. PICK b \in BatchIds : b = cataloging[k]
    BY <1>4, <1>b DEF CompleteBatch
  <2>2. /\ stage[b] = "committed" /\ stage' = [stage EXCEPT ![b] = "done"]
        /\ cataloging' = [cataloging EXCEPT ![k] = None] /\ CompleteIfReady(owners[b])
        /\ UNCHANGED <<main, crawlersUp, offer, crawled, recordQueue, holding, writersUp, putting, recs,
                       owners, skipped, crawlDone, durable, uploadQueue, uploadersUp, uploading,
                       catalogQueue, catalogersUp>>
    BY <1>4, <2>1 DEF CompleteBatch
  <2>3. \A x \in BatchIds : stage'[x] = IF x = b THEN "done" ELSE stage[x]
    BY <1>b, <2>2
  <2>4. ScopesAreOwed'
    BY <2>2, OwedComplete DEF DrainParts
  <2>5. RecordsAreKept'
    <3>1. \A r : Batched(r)' <=> Batched(r)
      BY <2>2, <2>3 DEF Batched
    <3>2. \A t, r : Waiting(t, r)' <=> Waiting(t, r)
      BY <2>2 DEF Waiting
    <3> QED BY <2>2, <2>3, <3>1, <3>2 DEF DrainParts, RecordsAreKept
  <2>6. BatchesAreHeld'
    <3>1. ASSUME NEW x \in BatchIds, stage'[x] \in {"cataloging", "committed"}
          PROVE \E v \in catalogersUp' : cataloging'[v] = x
      <4>1. x # b /\ stage[x] \in {"cataloging", "committed"}
        BY <2>3, <3>1
      <4>2. PICK v \in catalogersUp : cataloging[v] = x
        BY <4>1 DEF DrainParts, BatchesAreHeld
      <4>3. v # k /\ v \in Catalogers
        BY <1>b, <2>1, <4>1, <4>2
      <4> QED BY <1>b, <2>2, <4>2, <4>3
    <3> QED BY <2>2, <2>3, <3>1 DEF DrainParts, BatchesAreHeld
  <2>7. StagesDrain'
    BY <2>2, <2>3 DEF DrainParts, StagesDrain, AfterWriting, AfterFlushing, AfterUploading, AfterCataloging
  <2> QED BY <2>4, <2>5, <2>6, <2>7 DEF DrainParts
<1>5. CASE CatalogRaises(k)
  BY <1>5, <1>c DEF CatalogRaises
<1> QED BY <1>1, <1>2, <1>3, <1>4, <1>5 DEF CatalogWorker

-----------------------------------------------------------------------------
(* The main coroutine, and the steps that touch no batch.                  *)

(* No record, batch or scope moves.                                        *)
LEMMA DrainKept ==
  ASSUME DrainParts, StagesDrain', UNCHANGED <<crawlersUp, offer, crawled, recordQueue, holding, putting,
         stage, recs, owners, skipped, crawlDone, closed, durable, uploadQueue, uploadersUp, uploading,
         catalogQueue, catalogersUp, cataloging>>
  PROVE DrainParts'
<1>1. \A r : Batched(r)' <=> Batched(r)
  BY DEF Batched
<1>2. \A t, r : Waiting(t, r)' <=> Waiting(t, r)
  BY DEF Waiting
<1>3. RecordsAreKept'
  BY <1>1, <1>2 DEF DrainParts, RecordsAreKept
<1> QED BY <1>3, BatchesKept, OwedKept DEF DrainParts

(* flush_all leaves nothing in the buffer, and main goes on when nothing   *)
(* is left in its hand.                                                    *)
LEMMA DrainFlush ==
  ASSUME AccountingInv, DrainParts, Clean, Clean', FlushAll \/ MainPut
  PROVE DrainParts'
<1> USE DEF mainVars, crawlVars, writerVars, storeVars, scopeVars, batchVars, uploadVars, catalogVars
<1>1. /\ ~failureEvent /\ holding = <<>> /\ writersUp = 0
      /\ UNCHANGED <<crawlersUp, offer, crawled, recordQueue, holding, writersUp, recs, owners, skipped,
                     crawlDone, closed, durable, uploadersUp, uploading, catalogQueue, catalogersUp,
                     cataloging>>
      /\ main \in {"writing", "flushing"}
      /\ main' = IF putting' # None THEN "flushing" ELSE "uploadPills"
  <2>1. /\ main \in {"writing", "flushing"} /\ writersUp = 0
        /\ main' = IF putting' # None THEN "flushing" ELSE "uploadPills"
        /\ UNCHANGED <<crawlersUp, offer, crawled, recordQueue, holding, writersUp, recs, owners, skipped,
                       crawlDone, closed, durable, uploadersUp, uploading, catalogQueue, catalogersUp,
                       cataloging>>
    BY DEF FlushAll, MainPut, StageOver, MainAfterOffer, ResumePut, AccountingInv, WorkersInv
  <2>2. holding = <<>>
    BY <2>1 DEF AccountingInv, TypeOK, WorkersInv
  <2> QED BY <2>1, <2>2 DEF Clean
<1>2. BatchesAreHeld' /\ BatchMoves /\ \A x \in BatchIds : stage'[x] # "buffered"
  <2>1. CASE FlushAll
    <3>1. putting = None
      BY <2>1, <1>1 DEF FlushAll, StageOver, AccountingInv, QueueInv
    <3>2. /\ OfferBatches(Leftover, uploadQueue, stage)
          /\ Leftover \in SUBSET BatchIds /\ \A x \in Leftover : stage[x] = "buffered"
      BY <2>1 DEF FlushAll, Leftover
    <3>3. /\ BatchesAreHeld' /\ BatchMoves
          /\ \A x \in BatchIds : stage'[x] = "buffered" => stage[x] = "buffered" /\ x \notin Leftover
      BY <1>1, <3>1, <3>2, FlushMoves DEF DrainParts
    <3> QED BY <3>3 DEF Leftover
  <2>2. CASE MainPut
    <3>1. ResumePut /\ main = "flushing"
      BY <2>2 DEF MainPut
    <3> QED BY <1>1, <3>1, ResumeMoves DEF DrainParts, StagesDrain, AfterWriting
  <2> QED BY <2>1, <2>2
<1>3. ScopesAreOwed'
  BY <1>1, <1>2, OwedKept DEF DrainParts, BatchMoves
<1>4. RecordsAreKept'
  <2>1. \A r : Batched(r) => Batched(r)'
    BY <1>2 DEF Batched, BatchMoves
  <2>2. \A t, r : Waiting(t, r)' <=> Waiting(t, r)
    BY <1>1 DEF Waiting
  <2>3. \A b \in BatchIds : stage'[b] \in {"committed", "done"} => recs'[b] \subseteq durable'
    BY <1>1, <1>2 DEF DrainParts, RecordsAreKept, BatchMoves
  <2> QED BY <1>1, <2>1, <2>2, <2>3 DEF DrainParts, RecordsAreKept
<1>5. StagesDrain'
  BY <1>1, <1>2
     DEF DrainParts, StagesDrain, AfterWriting, AfterFlushing, AfterUploading, AfterCataloging
<1> QED BY <1>2, <1>3, <1>4, <1>5 DEF DrainParts

LEMMA DrainMain ==
  ASSUME AccountingInv, DrainParts, Clean, Clean', Main
  PROVE DrainParts'
<1> USE DEF mainVars, crawlVars, writerVars, storeVars, scopeVars, batchVars, uploadVars, catalogVars
<1>1. CASE FlushAll \/ MainPut
  BY <1>1, DrainFlush
<1>2. CASE PutSentinel
  <2>1. /\ UNCHANGED <<crawlVars, recordQueue, writerVars, storeVars, scopeVars>>
        /\ \/ main = "writerPills" /\ main' \in {"writerPills", "writing"}
           \/ main = "uploadPills" /\ main' = "uploadPills"
           \/ main = "uploadPills" /\ main' = "uploading" /\ sent + 1 = Cardinality(Uploaders)
           \/ main = "catalogPills" /\ main' = "catalogPills"
           \/ main = "catalogPills" /\ main' = "cataloging" /\ sent + 1 = Cardinality(Catalogers)
    BY <1>2 DEF PutSentinel
  <2>2. /\ sent + 1 = Cardinality(Uploaders) => Uploaders # {}
        /\ sent + 1 = Cardinality(Catalogers) => Catalogers # {}
    <3>1. Cardinality({}) = 0 /\ sent + 1 # 0
      BY FS_EmptySet DEF AccountingInv, TypeOK
    <3> QED BY <3>1
  <2>3. StagesDrain'
    BY <2>1, <2>2 DEF DrainParts, StagesDrain, AfterWriting, AfterFlushing, AfterUploading, AfterCataloging
  <2> QED BY <2>1, <2>3, DrainKept
<1>3. CASE CrawlOver \/ UploadOver \/ CatalogOver
  <2>1. /\ UNCHANGED <<crawlVars, recordQueue, writerVars, storeVars, scopeVars>>
        /\ \/ main = "crawling" /\ main' = "writerPills" /\ crawlersUp = {}
           \/ main = "uploading" /\ main' = "catalogPills" /\ uploadersUp = {}
           \/ main = "cataloging" /\ main' = "done" /\ catalogersUp = {}
    BY <1>3 DEF CrawlOver, UploadOver, CatalogOver, StageOver
  <2>2. StagesDrain'
    BY <2>1 DEF DrainParts, StagesDrain, AfterWriting, AfterFlushing, AfterUploading, AfterCataloging
  <2> QED BY <2>1, <2>2, DrainKept
<1>4. CASE FailFast \/ MainPutRaises
  BY <1>4 DEF FailFast, MainPutRaises, Clean, Live
<1> QED BY <1>1, <1>2, <1>3, <1>4 DEF Main

LEMMA DrainOther ==
  ASSUME AccountingInv, DrainParts, Clean, Clean',
         \/ WriterSentinel \/ DiscoverRaises \/ RequestShutdown \/ WriterRaises \/ HookRaises
         \/ \E plan \in SUBSET Resumable : Discover(plan)
         \/ \E k \in Catalogers : OrphanCommit(k)
         \/ \E b \in BatchIds : FinalFlush(b)
  PROVE DrainParts'
<1> USE DEF mainVars, crawlVars, writerVars, storeVars, scopeVars, batchVars, uploadVars, catalogVars
<1>1. CASE WriterSentinel
  <2>1. /\ recordQueue = <<>> /\ main \in {"writerPills", "writing"} /\ writersUp' = writersUp - 1
        /\ UNCHANGED <<main, crawlVars, recordQueue, holding, putting, sinceFlush, storeVars, scopeVars>>
    BY <1>1 DEF WriterSentinel
  <2>2. StagesDrain'
    BY <2>1 DEF DrainParts, StagesDrain, AfterWriting, AfterFlushing, AfterUploading, AfterCataloging
  <2> QED BY <2>1, <2>2, DrainKept
<1>2. CASE DiscoverRaises \/ RequestShutdown \/ \E plan \in SUBSET Resumable : Discover(plan)
  <2>1. UNCHANGED <<main, crawlersUp, offer, crawled, recordQueue, writerVars, storeVars, scopeVars>>
    BY <1>2 DEF DiscoverRaises, RequestShutdown, Discover
  <2>2. StagesDrain'
    BY <2>1 DEF DrainParts, StagesDrain, AfterWriting, AfterFlushing, AfterUploading, AfterCataloging
  <2> QED BY <2>1, <2>2, DrainKept
<1>3. CASE WriterRaises \/ HookRaises
  BY <1>3 DEF WriterRaises, HookRaises, Clean
<1>4. CASE \E k \in Catalogers : OrphanCommit(k)
  BY <1>4 DEF OrphanCommit, Clean, Live
<1>5. CASE \E b \in BatchIds : FinalFlush(b)
  BY <1>5 DEF FinalFlush, Clean, Live, DrainParts, StagesDrain, AfterWriting, AfterFlushing,
              AfterUploading, AfterCataloging
<1> QED BY <1>1, <1>2, <1>3, <1>4, <1>5

-----------------------------------------------------------------------------
(* Nobody is left to fail once the run is done.                            *)
LEMMA DoneIsClean ==
  ASSUME AccountingInv, Clean => DrainParts, main = "done" => ~failureEvent, Next, main' = "done"
  PROVE ~failureEvent'
<1> USE DEF mainVars, crawlVars, writerVars, storeVars, scopeVars, batchVars, uploadVars, catalogVars
<1>1. CASE Main
  BY <1>1 DEF Main, CrawlOver, PutSentinel, FlushAll, MainPut, MainAfterOffer, UploadOver, CatalogOver,
              StageOver, FailFast, MainPutRaises, CancelTasks
<1>2. CASE ~Main
  <2>1. UNCHANGED main
    <3>1. ASSUME NEW c \in Crawlers, Crawl(c) \/ CrawlRaises(c) PROVE UNCHANGED main
      BY <3>1 DEF Crawl, BeginScope, CrawlRecord, EndScope, PutItem, CrawlerReturns, CrawlRaises
    <3>2. ASSUME WriterGet \/ WriterSentinel \/ HoldLock \/ WriterRaises \/ HookRaises PROVE UNCHANGED main
      BY <3>2 DEF WriterGet, WriterSentinel, HoldLock, SkipRecord, UnchangedRecord, BufferRecord,
                  FlushScope, WriterPut, WriterRaises, HookRaises
    <3>3. ASSUME NEW u \in Uploaders, UploadWorker(u) \/ UploadRaises(u) PROVE UNCHANGED main
      BY <3>3 DEF UploadWorker, UploaderGet, UploaderSentinel, Upload, PutCatalogJob, UploadRaises
    <3>4. ASSUME NEW k \in Catalogers, CatalogWorker(k) \/ CatalogRaises(k) \/ OrphanCommit(k)
          PROVE UNCHANGED main
      BY <3>4 DEF CatalogWorker, CatalogerGet, CatalogerSentinel, CommitBatch, CompleteBatch,
                  CatalogRaises, OrphanCommit
    <3>5. ASSUME \/ DiscoverRaises \/ RequestShutdown
                 \/ \E plan \in SUBSET Resumable : Discover(plan)
                 \/ \E b \in BatchIds : FinalFlush(b)
          PROVE UNCHANGED main
      BY <3>5 DEF DiscoverRaises, RequestShutdown, Discover, FinalFlush
    <3> QED BY <1>2, <3>1, <3>2, <3>3, <3>4, <3>5, StepKinds
     DEF Resumed, HolderRaises, Unforced
  <2>2. main = "done" /\ ~failureEvent
    BY <2>1
  <2>3. crawlersUp = {} /\ writersUp = 0 /\ uploadersUp = {} /\ catalogersUp = {}
    BY <2>2 DEF Clean, Live, DrainParts, StagesDrain, AfterWriting, AfterFlushing, AfterUploading,
                AfterCataloging
  <2>4. holding = <<>>
    BY <2>3 DEF AccountingInv, TypeOK, WorkersInv
  <2>5. ASSUME NEW c \in Crawlers, Crawl(c) \/ CrawlRaises(c) PROVE ~failureEvent'
    BY <2>2, <2>3, <2>5 DEF Crawl, BeginScope, CrawlRecord, EndScope, PutItem, CrawlerReturns, CrawlRaises,
                            Idle, InCrawl
  <2>6. ASSUME WriterGet \/ WriterSentinel \/ HoldLock \/ WriterRaises \/ HookRaises PROVE ~failureEvent'
    BY <2>2, <2>4, <2>6 DEF WriterGet, WriterSentinel, HoldLock, SkipRecord, UnchangedRecord, BufferRecord,
                FlushScope, WriterPut, WriterRaises, HookRaises, LockHolder
  <2>7. ASSUME NEW u \in Uploaders, UploadWorker(u) \/ UploadRaises(u) PROVE ~failureEvent'
    BY <2>2, <2>3, <2>7 DEF UploadWorker, UploaderGet, UploaderSentinel, Upload, PutCatalogJob, UploadRaises
  <2>8. ASSUME NEW k \in Catalogers, CatalogWorker(k) \/ CatalogRaises(k) \/ OrphanCommit(k)
        PROVE ~failureEvent'
    BY <2>2, <2>3, <2>8 DEF CatalogWorker, CatalogerGet, CatalogerSentinel, CommitBatch, CompleteBatch,
                CatalogRaises, OrphanCommit
  <2>9. ASSUME \/ DiscoverRaises \/ RequestShutdown
               \/ \E plan \in SUBSET Resumable : Discover(plan)
               \/ \E b \in BatchIds : FinalFlush(b)
        PROVE ~failureEvent'
    BY <2>2, <2>9 DEF DiscoverRaises, RequestShutdown, Discover, FinalFlush
  <2> QED BY <1>2, <2>5, <2>6, <2>7, <2>8, <2>9, StepKinds
     DEF Resumed, HolderRaises, Unforced
<1> QED BY <1>1, <1>2

(* Every step keeps the drain, in every setting.                           *)
THEOREM DrainStep == DrainInv /\ [Next]_vars => DrainInv'
<1> SUFFICES ASSUME DrainInv, [Next]_vars PROVE DrainInv'
  OBVIOUS
<1>1. CASE UNCHANGED vars
  <2>1. AccountingInv'
    BY AccountingStep DEF DrainInv
  <2> USE <1>1 DEF vars, mainVars, crawlVars, writerVars, storeVars, scopeVars, batchVars, uploadVars,
                   catalogVars
  <2>2. (Live <=> Live') /\ (Clean <=> Clean')
    BY DEF Clean, Live
  <2>3. Live => OrderInv'
    BY OrderKept DEF DrainInv
  <2>4. DrainParts => DrainParts'
    <3>1. StagesDrain <=> StagesDrain'
      BY DEF StagesDrain, AfterWriting, AfterFlushing, AfterUploading, AfterCataloging
    <3> QED BY <3>1, DrainKept DEF DrainParts
  <2> QED BY <2>1, <2>2, <2>3, <2>4 DEF DrainInv
<1>2. CASE Next
  <2>1. AccountingInv /\ AccountingInv'
    BY AccountingStep DEF DrainInv
  <2>2. Live' => Live /\ OrderInv'
    BY <1>2, <2>1, EndedStays, OrderStep DEF DrainInv
  <2>3. ASSUME Clean' PROVE DrainParts'
    <3>1. Clean /\ DrainParts /\ (Live => OrderInv)
      BY <1>2, <2>3, CleanBefore DEF DrainInv
    <3>2. ASSUME NEW c \in Crawlers, Crawl(c) \/ CrawlRaises(c) PROVE DrainParts'
      BY <2>1, <2>3, <3>1, <3>2, DrainCrawl
    <3>3. CASE WriterGet
      BY <2>1, <2>3, <3>1, <3>3, DrainGet
    <3>4. CASE HoldLock
      BY <2>1, <3>1, <3>4, DrainHolder
    <3>5. ASSUME NEW u \in Uploaders, UploadWorker(u) \/ UploadRaises(u) PROVE DrainParts'
      BY <2>1, <2>3, <3>1, <3>5, DrainUpload
    <3>6. ASSUME NEW k \in Catalogers, CatalogWorker(k) \/ CatalogRaises(k) PROVE DrainParts'
      BY <2>1, <2>3, <3>1, <3>6, DrainCatalog
    <3>7. CASE Main
      BY <2>1, <2>3, <3>1, <3>7, DrainMain
    <3>8. CASE \/ WriterSentinel \/ DiscoverRaises \/ RequestShutdown \/ WriterRaises \/ HookRaises
               \/ \E plan \in SUBSET Resumable : Discover(plan)
               \/ \E k \in Catalogers : OrphanCommit(k)
               \/ \E b \in BatchIds : FinalFlush(b)
      BY <2>1, <2>3, <3>1, <3>8, DrainOther
    <3> QED BY <1>2, <3>2, <3>3, <3>4, <3>5, <3>6, <3>7, <3>8, StepKinds
     DEF Resumed, HolderRaises, Unforced
  <2>4. main' = "done" => ~failureEvent'
    BY <1>2, <2>1, DoneIsClean DEF DrainInv
  <2> QED BY <2>1, <2>2, <2>3, <2>4 DEF DrainInv
<1> QED BY <1>1, <1>2

LEMMA InitDrain == ASSUME Init PROVE DrainInv
<1>1. AccountingInv
  BY InitAccounting
<1>2. OrderInv
  BY InitComplete DEF CompleteInv, Init, Live
<1>3. BatchesAreHeld /\ ScopesAreOwed
  BY DEF Init, BatchesAreHeld, ScopesAreOwed
<1>4. StagesDrain
  BY SizeAssumption DEF Init, StagesDrain, AfterWriting, AfterFlushing, AfterUploading, AfterCataloging
<1>5. RecordsAreKept
  BY DEF Init, RecordsAreKept
<1> QED BY <1>1, <1>2, <1>3, <1>4, <1>5 DEF DrainInv, DrainParts, Init

(* When every worker has returned, every queue is empty and nothing is     *)
(* left in anybody's hands.                                                *)
LEMMA DrainedAtEnd == ASSUME DrainInv PROVE DrainedIsDurable
<1> SUFFICES ASSUME main = "done"
             PROVE /\ \A s \in Scopes : crawled[s] \subseteq durable \cup skipped[s]
                   /\ crawlDone = closed
                   /\ \A b \in BatchIds : stage[b] \in {"free", "done"}
  BY DEF DrainedIsDurable
<1>1. DrainParts /\ AccountingInv
  BY DEF DrainInv, Clean, Live
<1>2. /\ crawlersUp = {} /\ writersUp = 0 /\ uploadersUp = {} /\ catalogersUp = {}
      /\ putting = None /\ uploadQueue = <<>> /\ catalogQueue = <<>> /\ recordQueue = <<>>
      /\ \A b \in BatchIds : stage[b] # "buffered"
  BY <1>1, SizeAssumption
     DEF DrainParts, StagesDrain, AfterWriting, AfterFlushing, AfterUploading, AfterCataloging
<1>3. holding = <<>>
  BY <1>1, <1>2 DEF AccountingInv, TypeOK, WorkersInv
<1>4. ASSUME NEW b \in BatchIds PROVE stage[b] \in {"free", "done"}
  <2>1. stage[b] \in Stages
    BY <1>1 DEF AccountingInv, TypeOK
  <2>2. b # None
    BY DataAssumption
  <2> QED BY <1>1, <1>2, <2>1, <2>2 DEF DrainParts, BatchesAreHeld, Stages
<1>5. \A s \in crawlDone \ closed : FALSE
  BY <1>1, <1>2, <1>4 DEF DrainParts, ScopesAreOwed
<1>6. ASSUME NEW s \in Scopes, NEW r \in crawled[s] PROVE r \in durable \cup skipped[s]
  <2>1. ~Waiting(s, r)
    <3>1. r \in Records
      BY <1>1 DEF AccountingInv, TypeOK
    <3>2. RecordItem(s, r) # None
      BY <3>1, ItemAssumption DEF RecordItem, Items
    <3>3. \A c \in Crawlers : offer[c] = None
      BY <1>1, <1>2 DEF DrainParts, RecordsAreKept
    <3> QED BY <1>2, <1>3, <3>2, <3>3 DEF Waiting
  <2>2. Batched(r) => r \in durable
    BY <1>1, <1>4 DEF Batched, DrainParts, RecordsAreKept
  <2> QED BY <1>1, <2>1, <2>2 DEF DrainParts, RecordsAreKept
<1> QED BY <1>1, <1>4, <1>5, <1>6 DEF DrainParts, ScopesAreOwed

(* A run that ends normally has made every record it accepted durable and  *)
(* has given every flushed scope its result, whatever the order of its     *)
(* workers, with every kind of failure and stop request allowed.           *)
THEOREM DrainIsDurable == Spec => []DrainedIsDurable
<1>1. Init => DrainInv
  BY InitDrain
<1>2. DrainInv /\ [Next]_vars => DrainInv'
  BY DrainStep
<1>3. DrainInv => DrainedIsDurable
  BY DrainedAtEnd
<1> QED BY <1>1, <1>2, <1>3, PTL DEF Spec

-----------------------------------------------------------------------------
(* A run in which nothing has failed can always go on.                     *)

(* An upload or catalog worker that has a batch has it to itself, and it   *)
(* is in a stage the worker can take it out of.                            *)
WorkersBusy ==
  /\ \A u \in uploadersUp :
       uploading[u] # None => stage[uploading[u]] \in {"uploading", "uploaded"}
  /\ \A u, v \in uploadersUp : uploading[u] # None /\ uploading[u] = uploading[v] => u = v
  /\ \A k \in catalogersUp :
       cataloging[k] # None => stage[cataloging[k]] \in {"cataloging", "committed"}
  /\ \A k, l \in catalogersUp : cataloging[k] # None /\ cataloging[k] = cataloging[l] => k = l

(* There is one sentinel for each worker of the stage main drains: in the  *)
(* queue, taken by a worker that returned, or still to be put.             *)
SentinelsCounted ==
  /\ main \in {"crawling", "flushing"} => pills = 0
  /\ main \in {"writerPills", "writing"} => writersUp + sent = WriterCount + pills
  /\ main = "writerPills" => sent < WriterCount
  /\ main = "writing" => sent = WriterCount
  /\ main = "flushing" => putting # None
  /\ main \in {"uploadPills", "uploading"} =>
       Cardinality(uploadersUp) + sent = Cardinality(Uploaders) + pills
  /\ main = "uploadPills" => sent < Cardinality(Uploaders)
  /\ main = "uploading" => sent = Cardinality(Uploaders)
  /\ main \in {"catalogPills", "cataloging"} =>
       Cardinality(catalogersUp) + sent = Cardinality(Catalogers) + pills
  /\ main = "catalogPills" => sent < Cardinality(Catalogers)
  /\ main = "cataloging" => sent = Cardinality(Catalogers)

ProgressInv == DrainInv /\ (Clean => WorkersBusy /\ SentinelsCounted)

(* A step in which no upload or catalog worker takes, moves or lets go of  *)
(* a batch.                                                                *)
LEMMA BusyKept ==
  ASSUME TypeOK, WorkersBusy, uploadersUp' \subseteq uploadersUp, catalogersUp' \subseteq catalogersUp,
         UNCHANGED <<uploading, cataloging>>,
         \A x \in BatchIds : stage[x] \in InWork => stage'[x] = stage[x]
  PROVE WorkersBusy'
<1>1. /\ \A u \in uploadersUp : uploading[u] \in BatchIds \cup {None}
      /\ \A k \in catalogersUp : cataloging[k] \in BatchIds \cup {None}
  BY DEF TypeOK
<1> QED BY <1>1 DEF WorkersBusy, InWork

(* The steps of an upload worker.                                          *)
LEMMA BusyUpload ==
  ASSUME AccountingInv, WorkersBusy, ~failureEvent, NEW u \in Uploaders, UploadWorker(u)
  PROVE WorkersBusy'
<1> USE DEF mainVars, crawlVars, writerVars, storeVars, scopeVars, batchVars, uploadVars, catalogVars
<1>1. /\ uploading \in [Uploaders -> BatchIds \cup {None}] /\ stage \in [BatchIds -> Stages]
      /\ cataloging \in [Catalogers -> BatchIds \cup {None}]
      /\ uploadersUp \subseteq Uploaders /\ catalogersUp \subseteq Catalogers
      /\ None \notin BatchIds /\ TypeOK
  BY DataAssumption DEF AccountingInv, TypeOK
<1>2. CASE UploaderGet(u)
  <2>1. PICK b : b = Head(uploadQueue)
    OBVIOUS
  <2>2. /\ u \in uploadersUp /\ uploadQueue # <<>>
        /\ stage' = [stage EXCEPT ![b] = "uploading"] /\ uploading' = [uploading EXCEPT ![u] = b]
        /\ UNCHANGED <<uploadersUp, catalogersUp, cataloging>>
    BY <1>2, <2>1 DEF UploaderGet
  <2>3. b \in BatchIds /\ stage[b] = "uploadQueue"
    <3>1. b = uploadQueue[1] /\ 1 \in 1..Len(uploadQueue) /\ b \in BatchIds
      BY <1>1, <2>1, <2>2 DEF TypeOK
    <3> QED BY <3>1 DEF AccountingInv, QueueInv
  <2> QED BY <1>1, <2>2, <2>3 DEF WorkersBusy
<1>3. CASE UploaderSentinel(u)
  <2>1. uploadersUp' \subseteq uploadersUp /\ UNCHANGED <<uploading, catalogersUp, cataloging, stage>>
    BY <1>3 DEF UploaderSentinel
  <2> QED BY <1>1, <2>1, BusyKept
<1>4. CASE Upload(u)
  <2>1. /\ u \in uploadersUp /\ uploading[u] # None /\ stage[uploading[u]] = "uploading"
        /\ stage' = [stage EXCEPT ![uploading[u]] = "uploaded"]
        /\ UNCHANGED <<uploading, uploadersUp, catalogersUp, cataloging>>
    BY <1>4 DEF Upload
  <2> QED BY <1>1, <2>1 DEF WorkersBusy
<1>5. CASE PutCatalogJob(u)
  <2>1. /\ u \in uploadersUp /\ uploading[u] # None /\ stage[uploading[u]] = "uploaded"
        /\ stage' = [stage EXCEPT ![uploading[u]] = "catalogQueue"]
        /\ uploading' = [uploading EXCEPT ![u] = None]
        /\ UNCHANGED <<uploadersUp, catalogersUp, cataloging>>
    BY <1>5 DEF PutCatalogJob
  <2> QED BY <1>1, <2>1 DEF WorkersBusy
<1> QED BY <1>2, <1>3, <1>4, <1>5 DEF UploadWorker

(* The steps of a catalog worker.                                          *)
LEMMA BusyCatalog ==
  ASSUME AccountingInv, WorkersBusy, ~failureEvent, NEW k \in Catalogers, CatalogWorker(k)
  PROVE WorkersBusy'
<1> USE DEF mainVars, crawlVars, writerVars, storeVars, scopeVars, batchVars, uploadVars, catalogVars
<1>1. /\ uploading \in [Uploaders -> BatchIds \cup {None}] /\ stage \in [BatchIds -> Stages]
      /\ cataloging \in [Catalogers -> BatchIds \cup {None}]
      /\ uploadersUp \subseteq Uploaders /\ catalogersUp \subseteq Catalogers
      /\ None \notin BatchIds /\ TypeOK
  BY DataAssumption DEF AccountingInv, TypeOK
<1>2. CASE CatalogerGet(k)
  <2>1. PICK b : b = Head(catalogQueue)
    OBVIOUS
  <2>2. /\ k \in catalogersUp /\ catalogQueue # <<>>
        /\ stage' = [stage EXCEPT ![b] = "cataloging"] /\ cataloging' = [cataloging EXCEPT ![k] = b]
        /\ UNCHANGED <<catalogersUp, uploadersUp, uploading>>
    BY <1>2, <2>1 DEF CatalogerGet
  <2>3. b \in BatchIds /\ stage[b] = "catalogQueue"
    <3>1. b = catalogQueue[1] /\ 1 \in 1..Len(catalogQueue) /\ b \in BatchIds
      BY <1>1, <2>1, <2>2 DEF TypeOK
    <3> QED BY <3>1 DEF AccountingInv, QueueInv
  <2> QED BY <1>1, <2>2, <2>3 DEF WorkersBusy
<1>3. CASE CatalogerSentinel(k)
  <2>1. catalogersUp' \subseteq catalogersUp /\ UNCHANGED <<uploading, uploadersUp, cataloging, stage>>
    BY <1>3 DEF CatalogerSentinel
  <2> QED BY <1>1, <2>1, BusyKept
<1>4. CASE CommitBatch(k)
  <2>1. /\ k \in catalogersUp /\ cataloging[k] # None /\ stage[cataloging[k]] = "cataloging"
        /\ stage' = [stage EXCEPT ![cataloging[k]] = "committed"]
        /\ UNCHANGED <<uploading, uploadersUp, catalogersUp, cataloging>>
    BY <1>4 DEF CommitBatch
  <2> QED BY <1>1, <2>1 DEF WorkersBusy
<1>5. CASE CompleteBatch(k)
  <2>1. /\ k \in catalogersUp /\ cataloging[k] # None /\ stage[cataloging[k]] = "committed"
        /\ stage' = [stage EXCEPT ![cataloging[k]] = "done"]
        /\ cataloging' = [cataloging EXCEPT ![k] = None]
        /\ UNCHANGED <<uploadersUp, catalogersUp, uploading>>
    BY <1>5 DEF CompleteBatch
  <2> QED BY <1>1, <2>1 DEF WorkersBusy
<1> QED BY <1>2, <1>3, <1>4, <1>5 DEF CatalogWorker

(* A step that puts and takes no sentinel.                                 *)
LEMMA SentinelsKept ==
  ASSUME SentinelsCounted, UNCHANGED <<main, pills, sent, writersUp, uploadersUp, catalogersUp>>,
         main = "flushing" => putting' # None
  PROVE SentinelsCounted'
  BY DEF SentinelsCounted

(* The lock's holder.                                                      *)
LEMMA ProgressHolder ==
  ASSUME AccountingInv, DrainParts, Clean, WorkersBusy, SentinelsCounted, HoldLock
  PROVE WorkersBusy' /\ SentinelsCounted'
<1> USE DEF mainVars, crawlVars, writerVars, storeVars, scopeVars, batchVars, uploadVars, catalogVars
<1>1. /\ holding # <<>> /\ ~failureEvent
      /\ UNCHANGED <<main, pills, sent, uploadersUp, uploading, catalogersUp, cataloging, catalogQueue>>
  BY DEF HoldLock, SkipRecord, UnchangedRecord, BufferRecord, FlushScope, WriterPut, ResumePut,
         LockHolder, AccountingInv, QueueInv, Clean
<1>2. ASSUME NEW B, AfterOffer(B) PROVE writersUp' = writersUp
  BY <1>1, <1>2 DEF AfterOffer, Release
<1>3. writersUp' = writersUp
  BY <1>2 DEF HoldLock, SkipRecord, UnchangedRecord, BufferRecord, FlushScope, WriterPut, Release
<1>4. main # "flushing"
  BY <1>1 DEF AccountingInv, TypeOK, WorkersInv
<1>5. \A x \in BatchIds : stage[x] \in InWork => stage'[x] = stage[x]
  <2>1. CASE SkipRecord \/ UnchangedRecord
    BY <2>1 DEF SkipRecord, UnchangedRecord
  <2>2. CASE BufferRecord
    BY <2>2, <1>1, RecordMoves DEF DrainParts, BatchMoves
  <2>3. CASE FlushScope
    <3> DEFINE B == Popped(Head(holding).scope)
    <3>1. /\ OfferBatches(B, uploadQueue, stage) /\ putting = None
          /\ B \in SUBSET BatchIds /\ \A x \in B : stage[x] = "buffered"
          /\ UNCHANGED <<recs, owners>>
      BY <2>3 DEF FlushScope, LockHolder, Popped
    <3> HIDE DEF B
    <3> QED BY <3>1, <1>1, FlushMoves DEF DrainParts, BatchMoves
  <2>4. CASE WriterPut
    <3>1. ResumePut
      BY <2>4 DEF WriterPut
    <3> QED BY <3>1, <1>1, ResumeMoves DEF DrainParts, BatchMoves
  <2> QED BY <2>1, <2>2, <2>3, <2>4 DEF HoldLock
<1>6. WorkersBusy'
  BY <1>1, <1>5, BusyKept DEF AccountingInv
<1> QED BY <1>1, <1>3, <1>4, <1>6, SentinelsKept

(* A worker that takes a sentinel returns.                                 *)
LEMMA ProgressSentinel ==
  ASSUME AccountingInv, DrainParts, SentinelsCounted, WriterSentinel
  PROVE SentinelsCounted'
<1> USE DEF mainVars, crawlVars, writerVars, storeVars, scopeVars
<1>1. /\ main \in {"writerPills", "writing"} /\ pills > 0
      /\ pills' = pills - 1 /\ writersUp' = writersUp - 1 /\ UNCHANGED <<main, sent>>
  BY DEF WriterSentinel
<1>2. pills \in Nat /\ sent \in Nat /\ writersUp \in Nat /\ WriterCount \in Nat
  BY SizeAssumption DEF AccountingInv, TypeOK
<1>3. writersUp + sent = WriterCount + pills
  BY <1>1 DEF SentinelsCounted
<1>4. writersUp' + sent' = WriterCount + pills'
  BY <1>1, <1>2, <1>3
<1> QED BY <1>1, <1>4 DEF SentinelsCounted

LEMMA UploadersReturn ==
  ASSUME AccountingInv, SentinelsCounted, ~failureEvent, NEW u \in Uploaders, UploadWorker(u)
  PROVE SentinelsCounted'
<1> USE DEF mainVars, crawlVars, writerVars, storeVars, scopeVars, batchVars, uploadVars, catalogVars
<1>1. CASE UploaderSentinel(u)
  <2>1. /\ main \in {"uploadPills", "uploading"} /\ pills > 0 /\ u \in uploadersUp
        /\ pills' = pills - 1 /\ uploadersUp' = uploadersUp \ {u} /\ UNCHANGED <<main, sent>>
    BY <1>1 DEF UploaderSentinel
  <2>2. IsFiniteSet(uploadersUp)
    BY WorkerAssumption, FS_Subset DEF AccountingInv, TypeOK
  <2>3. Cardinality(uploadersUp') = Cardinality(uploadersUp) - 1 /\ Cardinality(uploadersUp) \in Nat
    BY <2>1, <2>2, FS_RemoveElement, FS_CardinalityType
  <2>4. pills \in Nat /\ sent \in Nat /\ Cardinality(Uploaders) \in Nat
    BY WorkerAssumption, FS_CardinalityType DEF AccountingInv, TypeOK
  <2>5. Cardinality(uploadersUp) + sent = Cardinality(Uploaders) + pills
    BY <2>1 DEF SentinelsCounted
  <2>6. Cardinality(uploadersUp') + sent' = Cardinality(Uploaders) + pills'
    BY <2>1, <2>3, <2>4, <2>5
  <2> QED BY <2>1, <2>6 DEF SentinelsCounted
<1>2. CASE UploaderGet(u) \/ Upload(u) \/ PutCatalogJob(u)
  <2>1. UNCHANGED <<main, pills, sent, writersUp, uploadersUp, catalogersUp, putting>>
    BY <1>2 DEF UploaderGet, Upload, PutCatalogJob
  <2> QED BY <2>1, SentinelsKept DEF SentinelsCounted
<1> QED BY <1>1, <1>2 DEF UploadWorker

LEMMA CatalogersReturn ==
  ASSUME AccountingInv, SentinelsCounted, ~failureEvent, NEW k \in Catalogers, CatalogWorker(k)
  PROVE SentinelsCounted'
<1> USE DEF mainVars, crawlVars, writerVars, storeVars, scopeVars, batchVars, uploadVars, catalogVars
<1>1. CASE CatalogerSentinel(k)
  <2>1. /\ main \in {"catalogPills", "cataloging"} /\ pills > 0 /\ k \in catalogersUp
        /\ pills' = pills - 1 /\ catalogersUp' = catalogersUp \ {k} /\ UNCHANGED <<main, sent>>
    BY <1>1 DEF CatalogerSentinel
  <2>2. IsFiniteSet(catalogersUp)
    BY WorkerAssumption, FS_Subset DEF AccountingInv, TypeOK
  <2>3. Cardinality(catalogersUp') = Cardinality(catalogersUp) - 1 /\ Cardinality(catalogersUp) \in Nat
    BY <2>1, <2>2, FS_RemoveElement, FS_CardinalityType
  <2>4. pills \in Nat /\ sent \in Nat /\ Cardinality(Catalogers) \in Nat
    BY WorkerAssumption, FS_CardinalityType DEF AccountingInv, TypeOK
  <2>5. Cardinality(catalogersUp) + sent = Cardinality(Catalogers) + pills
    BY <2>1 DEF SentinelsCounted
  <2>6. Cardinality(catalogersUp') + sent' = Cardinality(Catalogers) + pills'
    BY <2>1, <2>3, <2>4, <2>5
  <2> QED BY <2>1, <2>6 DEF SentinelsCounted
<1>2. CASE CatalogerGet(k) \/ CommitBatch(k) \/ CompleteBatch(k)
  <2>1. UNCHANGED <<main, pills, sent, writersUp, uploadersUp, catalogersUp, putting>>
    BY <1>2 DEF CatalogerGet, CommitBatch, CompleteBatch
  <2> QED BY <2>1, SentinelsKept DEF SentinelsCounted
<1> QED BY <1>1, <1>2 DEF CatalogWorker

(* The main coroutine: a sentinel for each worker, then the next stage.    *)
LEMMA ProgressMain ==
  ASSUME AccountingInv, DrainParts, Clean, Clean', WorkersBusy, SentinelsCounted, Main
  PROVE WorkersBusy' /\ SentinelsCounted'
<1> USE DEF mainVars, crawlVars, writerVars, storeVars, scopeVars, batchVars, uploadVars, catalogVars
<1>a. /\ pills \in Nat /\ sent \in Nat /\ writersUp \in Nat /\ WriterCount \in Nat \ {0}
      /\ WorkersInv /\ TypeOK
  BY SizeAssumption DEF AccountingInv, TypeOK
<1>b. /\ Cardinality(Uploaders) \in Nat \ {0} /\ Cardinality(Catalogers) \in Nat \ {0}
      /\ Cardinality(uploadersUp) \in Nat /\ Cardinality(catalogersUp) \in Nat
      /\ Cardinality({}) = 0
  <2>1. IsFiniteSet(uploadersUp) /\ IsFiniteSet(catalogersUp)
    BY <1>a, WorkerAssumption, FS_Subset DEF TypeOK
  <2> QED BY <2>1, WorkerAssumption, FS_EmptySet, FS_CardinalityType
<1>1. CASE PutSentinel
  <2>1. /\ pills' = pills + 1 /\ sent' = sent + 1
        /\ UNCHANGED <<writersUp, putting, stage, uploadersUp, uploading, catalogersUp, cataloging>>
        /\ \/ main = "writerPills" /\ main' = IF sent + 1 = WriterCount THEN "writing" ELSE main
           \/ /\ main = "uploadPills"
              /\ main' = IF sent + 1 = Cardinality(Uploaders) THEN "uploading" ELSE main
           \/ /\ main = "catalogPills"
              /\ main' = IF sent + 1 = Cardinality(Catalogers) THEN "cataloging" ELSE main
    BY <1>1 DEF PutSentinel
  <2>2. WorkersBusy'
    BY <1>a, <2>1, BusyKept
  <2>3. CASE main = "writerPills"
    <3>1. sent < WriterCount /\ writersUp + sent = WriterCount + pills
      BY <2>3 DEF SentinelsCounted
    <3>2. main' = IF sent + 1 = WriterCount THEN "writing" ELSE "writerPills"
      BY <2>1, <2>3
    <3>3. CASE sent + 1 = WriterCount
      <4>1. main' = "writing" /\ sent' = WriterCount
        BY <2>1, <3>2, <3>3
      <4>2. writersUp' + sent' = WriterCount + pills'
        BY <1>a, <1>b, <2>1, <3>1
      <4> QED BY <2>2, <4>1, <4>2 DEF SentinelsCounted
    <3>4. CASE sent + 1 # WriterCount
      <4>1. main' = "writerPills"
        BY <3>2, <3>4
      <4>2. writersUp' + sent' = WriterCount + pills' /\ sent' < WriterCount
        BY <1>a, <1>b, <2>1, <3>1, <3>4
      <4> QED BY <2>2, <4>1, <4>2 DEF SentinelsCounted
    <3> QED BY <3>3, <3>4
  <2>4. CASE main = "uploadPills"
    <3>1. sent < Cardinality(Uploaders) /\ Cardinality(uploadersUp) + sent = Cardinality(Uploaders) + pills
      BY <2>4 DEF SentinelsCounted
    <3>2. main' = IF sent + 1 = Cardinality(Uploaders) THEN "uploading" ELSE "uploadPills"
      BY <2>1, <2>4
    <3>3. CASE sent + 1 = Cardinality(Uploaders)
      <4>1. main' = "uploading" /\ sent' = Cardinality(Uploaders)
        BY <2>1, <3>2, <3>3
      <4>2. Cardinality(uploadersUp)' + sent' = Cardinality(Uploaders) + pills'
        BY <1>a, <1>b, <2>1, <3>1
      <4> QED BY <2>2, <4>1, <4>2 DEF SentinelsCounted
    <3>4. CASE sent + 1 # Cardinality(Uploaders)
      <4>1. main' = "uploadPills"
        BY <3>2, <3>4
      <4>2. Cardinality(uploadersUp)' + sent' = Cardinality(Uploaders) + pills' /\ sent' < Cardinality(Uploaders)
        BY <1>a, <1>b, <2>1, <3>1, <3>4
      <4> QED BY <2>2, <4>1, <4>2 DEF SentinelsCounted
    <3> QED BY <3>3, <3>4
  <2>5. CASE main = "catalogPills"
    <3>1. sent < Cardinality(Catalogers) /\ Cardinality(catalogersUp) + sent = Cardinality(Catalogers) + pills
      BY <2>5 DEF SentinelsCounted
    <3>2. main' = IF sent + 1 = Cardinality(Catalogers) THEN "cataloging" ELSE "catalogPills"
      BY <2>1, <2>5
    <3>3. CASE sent + 1 = Cardinality(Catalogers)
      <4>1. main' = "cataloging" /\ sent' = Cardinality(Catalogers)
        BY <2>1, <3>2, <3>3
      <4>2. Cardinality(catalogersUp)' + sent' = Cardinality(Catalogers) + pills'
        BY <1>a, <1>b, <2>1, <3>1
      <4> QED BY <2>2, <4>1, <4>2 DEF SentinelsCounted
    <3>4. CASE sent + 1 # Cardinality(Catalogers)
      <4>1. main' = "catalogPills"
        BY <3>2, <3>4
      <4>2. Cardinality(catalogersUp)' + sent' = Cardinality(Catalogers) + pills' /\ sent' < Cardinality(Catalogers)
        BY <1>a, <1>b, <2>1, <3>1, <3>4
      <4> QED BY <2>2, <4>1, <4>2 DEF SentinelsCounted
    <3> QED BY <3>3, <3>4
  <2> QED BY <2>1, <2>2, <2>3, <2>4, <2>5
<1>2. CASE CrawlOver
  <2>1. /\ main = "crawling" /\ main' = "writerPills" /\ sent' = 0
        /\ UNCHANGED <<pills, writersUp, stage, uploadersUp, uploading, catalogersUp, cataloging>>
    BY <1>2 DEF CrawlOver, StageOver
  <2>2. writersUp = WriterCount /\ pills = 0
    BY <1>a, <2>1 DEF DrainParts, StagesDrain, SentinelsCounted, WorkersInv
  <2>3. writersUp' + sent' = WriterCount + pills' /\ sent' < WriterCount
    BY <1>a, <2>1, <2>2
  <2> QED BY <1>a, <2>1, <2>3, BusyKept DEF SentinelsCounted
<1>3. CASE FlushAll \/ MainPut
  <2>1. /\ main \in {"writing", "flushing"} /\ writersUp = 0 /\ ~failureEvent
        /\ UNCHANGED <<pills, writersUp, recs, owners, uploadersUp, uploading, catalogersUp, cataloging,
                       catalogQueue>>
        /\ \/ putting' # None /\ main' = "flushing"
           \/ putting' = None /\ main' = "uploadPills" /\ sent' = 0
    BY <1>3, <1>a DEF FlushAll, MainPut, StageOver, MainAfterOffer, ResumePut, WorkersInv, Clean
  <2>2. pills = 0
    <3>1. main = "writing" => sent = WriterCount /\ writersUp + sent = WriterCount + pills
      BY DEF SentinelsCounted
    <3>2. main = "flushing" => pills = 0
      BY DEF SentinelsCounted
    <3> QED BY <1>a, <2>1, <3>1, <3>2
  <2>3. uploadersUp = Uploaders
    BY <2>1 DEF DrainParts, StagesDrain, AfterFlushing, AfterUploading, AfterCataloging
  <2>4. \A x \in BatchIds : stage[x] \in InWork => stage'[x] = stage[x]
    <3>1. CASE FlushAll
      <4>1. main = "writing" /\ OfferBatches(Leftover, uploadQueue, stage)
        BY <3>1 DEF FlushAll, StageOver
      <4>2. putting = None
        BY <1>a, <2>1, <4>1 DEF AccountingInv, QueueInv, WorkersInv, TypeOK
      <4>3. Leftover \in SUBSET BatchIds /\ \A x \in Leftover : stage[x] = "buffered"
        BY DEF Leftover
      <4> QED BY <2>1, <4>1, <4>2, <4>3, FlushMoves DEF DrainParts, BatchMoves
    <3>2. CASE MainPut
      <4>1. ResumePut
        BY <3>2 DEF MainPut
      <4> QED BY <2>1, <4>1, ResumeMoves DEF DrainParts, BatchMoves
    <3> QED BY <1>3, <3>1, <3>2
  <2>5. main' = "uploadPills" =>
          /\ Cardinality(uploadersUp') + sent' = Cardinality(Uploaders) + pills'
          /\ sent' < Cardinality(Uploaders)
    BY <1>a, <1>b, <2>1, <2>2, <2>3
  <2>6. SentinelsCounted'
    BY <2>1, <2>2, <2>5 DEF SentinelsCounted
  <2> QED BY <1>a, <2>1, <2>4, <2>6, BusyKept
<1>4. CASE UploadOver
  <2>1. /\ main = "uploading" /\ main' = "catalogPills" /\ sent' = 0 /\ uploadersUp = {}
        /\ UNCHANGED <<pills, writersUp, stage, uploadersUp, uploading, catalogersUp, cataloging>>
    BY <1>4 DEF UploadOver, StageOver
  <2>2. catalogersUp = Catalogers
    BY <2>1 DEF DrainParts, StagesDrain, AfterUploading, AfterCataloging
  <2>3. sent = Cardinality(Uploaders) /\ Cardinality(uploadersUp) + sent = Cardinality(Uploaders) + pills
    BY <2>1 DEF SentinelsCounted
  <2>4. pills = 0
    BY <1>a, <1>b, <2>1, <2>3
  <2>5. /\ Cardinality(catalogersUp') + sent' = Cardinality(Catalogers) + pills'
        /\ sent' < Cardinality(Catalogers)
    BY <1>b, <2>1, <2>2, <2>4
  <2> QED BY <1>a, <2>1, <2>5, BusyKept DEF SentinelsCounted
<1>5. CASE CatalogOver
  <2>1. /\ main' = "done" /\ UNCHANGED <<stage, uploadersUp, uploading, catalogersUp, cataloging>>
    BY <1>5 DEF CatalogOver
  <2> QED BY <1>a, <2>1, BusyKept DEF SentinelsCounted
<1>6. CASE FailFast \/ MainPutRaises
  BY <1>6 DEF FailFast, MainPutRaises, Clean, Live
<1> QED BY <1>1, <1>2, <1>3, <1>4, <1>5, <1>6 DEF Main

(* The steps that move no batch from or to an upload or catalog worker.    *)
LEMMA ProgressOther ==
  ASSUME AccountingInv, DrainParts, Clean, Clean', WorkersBusy, SentinelsCounted,
         \/ WriterGet \/ DiscoverRaises \/ RequestShutdown \/ WriterRaises \/ HookRaises
         \/ \E c \in Crawlers : Crawl(c) \/ CrawlRaises(c)
         \/ \E plan \in SUBSET Resumable : Discover(plan)
         \/ \E u \in Uploaders : UploadRaises(u)
         \/ \E k \in Catalogers : CatalogRaises(k) \/ OrphanCommit(k)
         \/ \E b \in BatchIds : FinalFlush(b)
  PROVE WorkersBusy' /\ SentinelsCounted'
<1> USE DEF mainVars, crawlVars, writerVars, storeVars, scopeVars, batchVars, uploadVars, catalogVars
<1>1. ~failureEvent /\ ~failureEvent' /\ Live /\ TypeOK
  BY DEF Clean, AccountingInv
<1>2. ASSUME UNCHANGED <<main, pills, sent, writersUp, putting, stage, uploadersUp, uploading,
                         catalogersUp, cataloging>>
      PROVE WorkersBusy' /\ SentinelsCounted'
  BY <1>1, <1>2, BusyKept, SentinelsKept DEF SentinelsCounted
<1>3. CASE WriterGet
  BY <1>1, <1>2, <1>3 DEF WriterGet
<1>4. CASE DiscoverRaises \/ RequestShutdown \/ \E plan \in SUBSET Resumable : Discover(plan)
  BY <1>2, <1>4 DEF DiscoverRaises, RequestShutdown, Discover
<1>5. CASE \E c \in Crawlers : Crawl(c) \/ CrawlRaises(c)
  BY <1>2, <1>5 DEF Crawl, BeginScope, CrawlRecord, EndScope, PutItem, CrawlerReturns, CrawlRaises
<1>6. CASE \/ WriterRaises \/ HookRaises \/ \E u \in Uploaders : UploadRaises(u)
           \/ \E k \in Catalogers : CatalogRaises(k) \/ OrphanCommit(k)
  BY <1>1, <1>6 DEF WriterRaises, HookRaises, UploadRaises, CatalogRaises, OrphanCommit, Live
<1>7. CASE \E b \in BatchIds : FinalFlush(b)
  <2>1. PICK b \in BatchIds : FinalFlush(b)
    BY <1>7
  <2>2. /\ main = "done" /\ stage[b] = "buffered" /\ stage' = [stage EXCEPT ![b] = "done"]
        /\ UNCHANGED <<main, uploadersUp, uploading, catalogersUp, cataloging>>
    BY <1>1, <2>1 DEF FinalFlush, Live
  <2>3. \A x \in BatchIds : stage[x] \in InWork => stage'[x] = stage[x]
    BY <1>1, <2>2 DEF TypeOK, InWork
  <2> QED BY <1>1, <2>2, <2>3, BusyKept DEF SentinelsCounted
<1> QED BY <1>3, <1>4, <1>5, <1>6, <1>7

LEMMA ProgressStep == ProgressInv /\ [Next]_vars => ProgressInv'
<1> SUFFICES ASSUME ProgressInv, [Next]_vars PROVE ProgressInv'
  OBVIOUS
<1>1. DrainInv /\ DrainInv' /\ AccountingInv
  BY DrainStep DEF ProgressInv, DrainInv
<1>2. CASE UNCHANGED vars
  BY <1>1, <1>2, BusyKept, SentinelsKept
     DEF ProgressInv, Clean, Live, vars, mainVars, writerVars, storeVars, batchVars, uploadVars, catalogVars,
         AccountingInv, SentinelsCounted
<1>3. CASE Next
  <2> SUFFICES ASSUME Clean' PROVE WorkersBusy' /\ SentinelsCounted'
    BY <1>1 DEF ProgressInv
  <2>1. Clean /\ DrainParts /\ WorkersBusy /\ SentinelsCounted /\ ~failureEvent
    BY <1>1, <1>3, CleanBefore DEF ProgressInv, DrainInv, Clean
  <2>2. CASE HoldLock
    BY <1>1, <2>1, <2>2, ProgressHolder
  <2>3. CASE WriterSentinel
    <3>1. WorkersBusy'
      BY <1>1, <2>1, <2>3, BusyKept
         DEF WriterSentinel, storeVars, batchVars, uploadVars, catalogVars, AccountingInv
    <3> QED BY <1>1, <2>1, <2>3, <3>1, ProgressSentinel
  <2>4. ASSUME NEW u \in Uploaders, UploadWorker(u) PROVE WorkersBusy' /\ SentinelsCounted'
    BY <1>1, <2>1, <2>4, BusyUpload, UploadersReturn
  <2>5. ASSUME NEW k \in Catalogers, CatalogWorker(k) PROVE WorkersBusy' /\ SentinelsCounted'
    BY <1>1, <2>1, <2>5, BusyCatalog, CatalogersReturn
  <2>6. CASE Main
    BY <1>1, <2>1, <2>6, ProgressMain
  <2>7. CASE \/ WriterGet \/ DiscoverRaises \/ RequestShutdown \/ WriterRaises \/ HookRaises
             \/ \E c \in Crawlers : Crawl(c) \/ CrawlRaises(c)
             \/ \E plan \in SUBSET Resumable : Discover(plan)
             \/ \E u \in Uploaders : UploadRaises(u)
             \/ \E k \in Catalogers : CatalogRaises(k) \/ OrphanCommit(k)
             \/ \E b \in BatchIds : FinalFlush(b)
    BY <1>1, <2>1, <2>7, ProgressOther
  <2> QED BY <1>3, <2>2, <2>3, <2>4, <2>5, <2>6, <2>7, StepKinds
     DEF Resumed, HolderRaises, Unforced
<1> QED BY <1>2, <1>3

LEMMA InitProgress == ASSUME Init PROVE ProgressInv
  BY InitDrain DEF Init, ProgressInv, WorkersBusy, SentinelsCounted

(* What a task waits for, action by action: the run goes on when the guard *)
(* of one of them holds.  A crawl worker takes a scope, goes on with its   *)
(* crawl, returns, or puts its item.                                       *)
CrawlGoesOn ==
  \/ discovery = "running"
  \/ \E c \in crawlersUp :
       \/ crawling[c] = None /\ (scopeQueue # {} \/ discovery # "running")
       \/ crawling[c] # None /\ offer[c] = None
       \/ offer[c] # None /\ Len(recordQueue) < RecordQueueSize

(* A writer gets an item or its sentinel, works on its item, or puts the   *)
(* batch in its hand.                                                      *)
WritersGoOn ==
  \/ IdleWriter /\ recordQueue # <<>>
  \/ IdleWriter /\ main \in {"writerPills", "writing"} /\ pills > 0
  \/ holding # <<>> /\ putting = None
  \/ holding # <<>> /\ putting # None /\ main # "flushing" /\ Len(uploadQueue) < UploadQueueSize

UploadGoesOn ==
  \E u \in uploadersUp :
    \/ uploading[u] = None /\ uploadQueue # <<>>
    \/ uploading[u] = None /\ main \in {"uploadPills", "uploading"} /\ pills > 0
    \/ uploading[u] # None /\ stage[uploading[u]] = "uploading"
    \/ /\ uploading[u] # None /\ stage[uploading[u]] = "uploaded"
       /\ Len(catalogQueue) < CatalogQueueSize

CatalogGoesOn ==
  \E k \in catalogersUp :
    \/ cataloging[k] = None /\ catalogQueue # <<>>
    \/ cataloging[k] = None /\ main \in {"catalogPills", "cataloging"} /\ pills > 0
    \/ cataloging[k] # None /\ stage[cataloging[k]] \in {"cataloging", "committed"}

(* main waits for a stage in fail_fast_tasks, which a failure or an abort  *)
(* ends, and puts sentinels and batches without looking at either.         *)
Watched == {"crawling", "writing", "uploading", "cataloging"}
MainGoesOn ==
  \/ main \in Watched /\ (failureEvent \/ AbortRequested)
  \/ main = "crawling" /\ discovery = "failed"
  \/ main = "crawling" /\ discovery = "done" /\ crawlersUp = {}
  \/ main = "writerPills" /\ Len(recordQueue) + pills < RecordQueueSize
  \/ main = "writing" /\ writersUp = 0
  \/ main = "flushing" /\ Len(uploadQueue) < UploadQueueSize
  \/ main = "uploadPills" /\ Len(uploadQueue) + pills < UploadQueueSize
  \/ main = "uploading" /\ uploadersUp = {}
  \/ main = "catalogPills" /\ Len(catalogQueue) + pills < CatalogQueueSize
  \/ main = "cataloging" /\ catalogersUp = {}

TasksGoOn == CrawlGoesOn \/ WritersGoOn \/ UploadGoesOn \/ CatalogGoesOn \/ MainGoesOn

(* A writer that runs is the only task that can go on, to its next item or *)
(* with the item it has.                                                   *)
GoesOn ==
  CASE running = "none" -> TasksGoOn
    [] running = "taking" -> IdleWriter /\ recordQueue # <<>>
    [] OTHER -> holding # <<>> /\ putting = None

(* Only a failure stops a run that has not ended, and only while main puts *)
(* sentinels or batches: it does not look at failure_event there.          *)
OnlyFailuresStop == ~Ended /\ ~GoesOn => failureEvent /\ main \notin Watched

(* Where the catalog workers are up, what waits for them moves.            *)
LEMMA CatalogMoves ==
  ASSUME AccountingInv, WorkersBusy, NEW k \in catalogersUp,
         \/ cataloging[k] # None
         \/ catalogQueue # <<>>
         \/ main \in {"catalogPills", "cataloging"} /\ pills > 0
  PROVE CatalogGoesOn
  BY DEF WorkersBusy, CatalogGoesOn

(* So does what waits for the upload workers: a full catalog queue is not  *)
(* empty.                                                                  *)
LEMMA UploadMoves ==
  ASSUME AccountingInv, WorkersBusy, catalogersUp # {}, NEW u \in uploadersUp,
         \/ uploading[u] # None
         \/ uploadQueue # <<>>
         \/ main \in {"uploadPills", "uploading"} /\ pills > 0
  PROVE TasksGoOn
<1>1. Len(catalogQueue) < CatalogQueueSize \/ catalogQueue # <<>>
  <2>1. catalogQueue = <<>> => Len(catalogQueue) = 0
    OBVIOUS
  <2> QED BY <2>1, SizeAssumption
<1>2. PICK k : k \in catalogersUp
  OBVIOUS
<1>3. CASE catalogQueue # <<>>
  BY <1>2, <1>3, CatalogMoves DEF TasksGoOn
<1>4. CASE Len(catalogQueue) < CatalogQueueSize
  BY <1>4 DEF TasksGoOn, UploadGoesOn, WorkersBusy
<1> QED BY <1>1, <1>3, <1>4

(* And what waits for the writers.                                         *)
LEMMA WriterMoves ==
  ASSUME AccountingInv, WorkersBusy, catalogersUp # {}, uploadersUp # {}, writersUp > 0,
         main # "flushing",
         \/ recordQueue # <<>>
         \/ main \in {"writerPills", "writing"} /\ pills > 0
  PROVE TasksGoOn
<1>1. Len(holding) < writersUp \/ holding # <<>>
  <2>1. holding = <<>> => Len(holding) = 0
    OBVIOUS
  <2> QED BY <2>1
<1>2. CASE Len(holding) < writersUp
  BY <1>2 DEF TasksGoOn, WritersGoOn, IdleWriter
<1>3. CASE holding # <<>>
  <2>1. Len(uploadQueue) < UploadQueueSize \/ uploadQueue # <<>>
    <3>1. uploadQueue = <<>> => Len(uploadQueue) = 0
      OBVIOUS
    <3> QED BY <3>1, SizeAssumption
  <2>2. PICK u : u \in uploadersUp
    OBVIOUS
  <2>3. CASE uploadQueue # <<>>
    BY <2>2, <2>3, UploadMoves
  <2>4. CASE Len(uploadQueue) < UploadQueueSize
    BY <1>3, <2>4 DEF TasksGoOn, WritersGoOn
  <2> QED BY <2>1, <2>3, <2>4
<1> QED BY <1>1, <1>2, <1>3

(* Each stage of the drain in turn: nothing main waits for is waiting.     *)
LEMMA RunsOn == ASSUME ProgressInv PROVE OnlyFailuresStop
<1> SUFFICES ASSUME ~Ended, ~(failureEvent /\ main \notin Watched) PROVE TasksGoOn
  BY DEF OnlyFailuresStop, GoesOn, ProgressInv, DrainInv, AccountingInv, WorkersInv, TypeOK
<1>1. CASE failureEvent
  BY <1>1 DEF TasksGoOn, MainGoesOn
<1>2. CASE ~failureEvent
  <2>1. /\ AccountingInv /\ TypeOK /\ WorkersInv /\ StagesDrain /\ WorkersBusy /\ SentinelsCounted
    BY <1>2 DEF ProgressInv, DrainInv, Clean, Live, Ended, DrainParts, AccountingInv
  <2>2. /\ pills \in Nat /\ sent \in Nat /\ writersUp \in Nat /\ WriterCount \in Nat \ {0}
        /\ RecordQueueSize \in Nat \ {0} /\ UploadQueueSize \in Nat \ {0}
        /\ CatalogQueueSize \in Nat \ {0}
        /\ Cardinality(Uploaders) \in Nat /\ Cardinality(Catalogers) \in Nat
        /\ Cardinality({}) = 0
    BY <2>1, SizeAssumption, WorkerAssumption, FS_EmptySet, FS_CardinalityType DEF TypeOK
  <2>3. /\ recordQueue = <<>> => Len(recordQueue) = 0
        /\ uploadQueue = <<>> => Len(uploadQueue) = 0
        /\ catalogQueue = <<>> => Len(catalogQueue) = 0
    OBVIOUS
  <2>4. uploadersUp # Uploaders => main \in {"uploadPills", "uploading", "catalogPills", "cataloging", "done"}
    BY <2>1 DEF StagesDrain, AfterFlushing, AfterUploading, AfterCataloging
  <2>5. catalogersUp # Catalogers => main \in {"catalogPills", "cataloging", "done"}
    BY <2>1 DEF StagesDrain, AfterUploading, AfterCataloging
  <2>6. CASE main = "crawling"
    <3>1. writersUp > 0 /\ uploadersUp # {} /\ catalogersUp # {}
      BY <2>1, <2>2, <2>4, <2>5, <2>6, WorkerAssumption DEF StagesDrain, WorkersInv
    <3>2. CASE recordQueue # <<>>
      BY <2>1, <2>6, <3>1, <3>2, WriterMoves
    <3>3. CASE recordQueue = <<>>
      <4>1. Len(recordQueue) < RecordQueueSize
        BY <2>2, <2>3, <3>3
      <4> QED BY <2>1, <2>6, <4>1 DEF TasksGoOn, CrawlGoesOn, MainGoesOn, TypeOK
    <3> QED BY <3>2, <3>3
  <2>7. CASE main \in {"writerPills", "writing"}
    <3>1. uploadersUp # {} /\ catalogersUp # {}
      BY <2>4, <2>5, <2>7, WorkerAssumption
    <3>2. writersUp + sent = WriterCount + pills
      BY <2>1, <2>7 DEF SentinelsCounted
    <3>3. CASE recordQueue # <<>> \/ pills > 0
      <4>1. CASE writersUp > 0
        BY <2>1, <2>7, <3>1, <3>3, <4>1, WriterMoves
      <4>2. CASE writersUp = 0
        <5>1. main # "writerPills"
          BY <2>1, <2>2, <3>2, <4>2 DEF SentinelsCounted
        <5> QED BY <2>7, <4>2, <5>1 DEF TasksGoOn, MainGoesOn
      <4> QED BY <2>2, <4>1, <4>2
    <3>4. CASE recordQueue = <<>> /\ pills = 0
      <4>1. Len(recordQueue) + pills < RecordQueueSize
        BY <2>2, <2>3, <3>4
      <4>2. main = "writing" => writersUp = 0
        BY <2>1, <2>2, <3>2, <3>4 DEF SentinelsCounted
      <4> QED BY <2>7, <4>1, <4>2 DEF TasksGoOn, MainGoesOn
    <3> QED BY <2>2, <3>3, <3>4
  <2>8. CASE main = "flushing"
    <3>1. uploadersUp # {} /\ catalogersUp # {}
      BY <2>4, <2>5, <2>8, WorkerAssumption
    <3>2. CASE uploadQueue # <<>>
      BY <2>1, <3>1, <3>2, UploadMoves
    <3>3. CASE uploadQueue = <<>>
      BY <2>2, <2>3, <2>8, <3>3 DEF TasksGoOn, MainGoesOn
    <3> QED BY <3>2, <3>3
  <2>9. CASE main \in {"uploadPills", "uploading"}
    <3>1. catalogersUp # {}
      BY <2>5, <2>9, WorkerAssumption
    <3>2. Cardinality(uploadersUp) + sent = Cardinality(Uploaders) + pills
      BY <2>1, <2>9 DEF SentinelsCounted
    <3>3. CASE uploadersUp = {}
      <4>1. main # "uploadPills"
        BY <2>1, <2>2, <3>2, <3>3 DEF SentinelsCounted
      <4> QED BY <2>9, <3>3, <4>1 DEF TasksGoOn, MainGoesOn
    <3>4. CASE uploadersUp # {} /\ (uploadQueue # <<>> \/ pills > 0)
      BY <2>1, <2>9, <3>1, <3>4, UploadMoves
    <3>5. CASE uploadersUp # {} /\ uploadQueue = <<>> /\ pills = 0
      <4>1. CASE main = "uploadPills"
        BY <2>2, <2>3, <3>5, <4>1 DEF TasksGoOn, MainGoesOn
      <4>2. CASE main = "uploading"
        <5>1. IsFiniteSet(uploadersUp)
          BY <2>1, WorkerAssumption, FS_Subset DEF TypeOK
        <5>2. Cardinality(uploadersUp) \in Nat /\ Cardinality(uploadersUp) = 0
          BY <2>1, <2>2, <3>2, <3>5, <4>2, <5>1, FS_CardinalityType DEF SentinelsCounted
        <5> QED BY <3>5, <5>1, <5>2, FS_EmptySet
      <4> QED BY <2>9, <4>1, <4>2
    <3> QED BY <2>2, <3>3, <3>4, <3>5
  <2>10. CASE main \in {"catalogPills", "cataloging"}
    <3>2. Cardinality(catalogersUp) + sent = Cardinality(Catalogers) + pills
      BY <2>1, <2>10 DEF SentinelsCounted
    <3>3. CASE catalogersUp = {}
      <4>1. main # "catalogPills"
        BY <2>1, <2>2, <3>2, <3>3 DEF SentinelsCounted
      <4> QED BY <2>10, <3>3, <4>1 DEF TasksGoOn, MainGoesOn
    <3>4. CASE catalogersUp # {} /\ (catalogQueue # <<>> \/ pills > 0)
      BY <2>1, <2>10, <3>4, CatalogMoves DEF TasksGoOn
    <3>5. CASE catalogersUp # {} /\ catalogQueue = <<>> /\ pills = 0
      <4>1. CASE main = "catalogPills"
        BY <2>2, <2>3, <3>5, <4>1 DEF TasksGoOn, MainGoesOn
      <4>2. CASE main = "cataloging"
        <5>1. IsFiniteSet(catalogersUp)
          BY <2>1, WorkerAssumption, FS_Subset DEF TypeOK
        <5>2. Cardinality(catalogersUp) \in Nat /\ Cardinality(catalogersUp) = 0
          BY <2>1, <2>2, <3>2, <3>5, <4>2, <5>1, FS_CardinalityType DEF SentinelsCounted
        <5> QED BY <3>5, <5>1, <5>2, FS_EmptySet
      <4> QED BY <2>10, <4>1, <4>2
    <3> QED BY <2>2, <3>3, <3>4, <3>5
  <2> QED BY <2>1, <2>6, <2>7, <2>8, <2>9, <2>10 DEF TypeOK, MainStages, Ended
<1> QED BY <1>1, <1>2 DEF ProgressInv, DrainInv, AccountingInv, TypeOK

(* Whatever the order of the workers and however small the queues, a run   *)
(* that has not ended can take a step, drained by a stop request or not,   *)
(* unless a worker has failed while main puts sentinels or batches.        *)
THEOREM RunNeverStuck == Spec => []OnlyFailuresStop
<1>1. Init => ProgressInv
  BY InitProgress
<1>2. ProgressInv /\ [Next]_vars => ProgressInv'
  BY ProgressStep
<1>3. ProgressInv => OnlyFailuresStop
  BY RunsOn
<1> QED BY <1>1, <1>2, <1>3, PTL DEF Spec

-----------------------------------------------------------------------------
(* A run is finite.  WorkLeft counts what is left to do: every step takes  *)
(* something off it.                                                       *)

\* What plugin.discover and plugin.crawl yield is finite, and so are the tasks.
FiniteCrawl == IsFiniteSet(Scopes) /\ IsFiniteSet(Records) /\ IsFiniteSet(Crawlers)

(* Scopes that no worker has taken, those in the hands of one, records not *)
(* yet yielded, workers that put an item, and the items on their way.      *)
ToBegin == IF discovery = "running" THEN Scopes ELSE scopeQueue
OpenCrawls == {c \in Crawlers : crawling[c] # None /\ ~(offer[c] # None /\ offer[c].kind = "flush")}
Uncrawled == {p \in Scopes \X Records : p[2] \notin crawled[p[1]]}
Offering == {c \in Crawlers : offer[c] # None}
DiscoverySteps == IF discovery = "running" THEN 1 ELSE 0

\* An item is put, taken and dealt with, so an open crawl or a record is four steps, a scope five.
CrawlSum(d, b, o, n, f, q, h) == d + 5 * b + 4 * o + 4 * n + 3 * f + 2 * q + h
CrawlSteps ==
  CrawlSum(DiscoverySteps, Cardinality(ToBegin), Cardinality(OpenCrawls), Cardinality(Uncrawled),
           Cardinality(Offering), Len(recordQueue), Len(holding))

(* Tasks that have not returned.                                           *)
TaskSum(c, w, n, k) == c + w + n + k
TaskSteps ==
  TaskSum(Cardinality(crawlersUp), writersUp, Cardinality(uploadersUp), Cardinality(catalogersUp))

(* The places before a batch.                                              *)
Rank(place) ==
  CASE place = "free" -> 0
    [] place = "buffered" -> 1
    [] place = "popped" -> 2
    [] place = "held" -> 3
    [] place = "uploadQueue" -> 4
    [] place = "uploading" -> 5
    [] place = "uploaded" -> 6
    [] place = "catalogQueue" -> 7
    [] place = "cataloging" -> 8
    [] place = "committed" -> 9
    [] OTHER -> 10

BatchSteps == {p \in BatchIds \X (1 .. 10) : Rank(stage[p[1]]) < p[2]}

(* The stages before main, and the sentinels it has yet to put, with w     *)
(* writers, n upload and k catalog workers.                                *)
UploaderCount == Cardinality(Uploaders)
CatalogerCount == Cardinality(Catalogers)
MainLeft(place, put, w, n, k) ==
  CASE place = "crawling" -> 8 + w + n + k
    [] place = "writerPills" -> 7 + (w - put) + n + k
    [] place = "writing" -> 6 + n + k
    [] place = "flushing" -> 5 + n + k
    [] place = "uploadPills" -> 4 + (n - put) + k
    [] place = "uploading" -> 3 + k
    [] place = "catalogPills" -> 2 + (k - put)
    [] place = "cataloging" -> 1
    [] OTHER -> 0
MainSteps == MainLeft(main, sent, WriterCount, UploaderCount, CatalogerCount)

WorkSum(c, t, b, m, n) == c + t + b + m + (2 - n)
WorkLeft == WorkSum(CrawlSteps, TaskSteps, Cardinality(BatchSteps), MainSteps, stops)

(* Each pills stage ends with its last sentinel.                           *)
SentinelsDue ==
  /\ main = "writerPills" => sent < WriterCount
  /\ main = "uploadPills" => sent < UploaderCount
  /\ main = "catalogPills" => sent < CatalogerCount

(* No scope is queued before all are discovered.                           *)
NoneQueuedEarly == discovery = "running" => scopeQueue = {}

WorkInv == AccountingInv /\ SentinelsDue /\ NoneQueuedEarly

LEMMA StageWorkers ==
  /\ WriterCount \in Nat \ {0} /\ UploaderCount \in Nat \ {0} /\ CatalogerCount \in Nat \ {0}
<1>1. ASSUME NEW T, IsFiniteSet(T), T # {} PROVE Cardinality(T) \in Nat \ {0}
  BY <1>1, FS_CardinalityType, FS_EmptySet
<1>2. UploaderCount \in Nat \ {0} /\ CatalogerCount \in Nat \ {0}
  BY <1>1, WorkerAssumption DEF UploaderCount, CatalogerCount
<1> QED BY <1>2, SizeAssumption

LEMMA Fewer ==
  ASSUME NEW T, IsFiniteSet(T), NEW S \in SUBSET T
  PROVE  /\ Cardinality(S) \in Nat /\ Cardinality(T) \in Nat /\ Cardinality(S) <= Cardinality(T)
         /\ S # T => Cardinality(S) + 1 <= Cardinality(T)
<1>1. Cardinality(S) <= Cardinality(T) /\ (Cardinality(T) = Cardinality(S) => T = S) /\ IsFiniteSet(S)
  BY FS_Subset
<1>2. Cardinality(S) \in Nat /\ Cardinality(T) \in Nat
  BY <1>1, FS_CardinalityType
<1> QED BY <1>1, <1>2

LEMMA OneMore ==
  ASSUME NEW T, IsFiniteSet(T), NEW x, NEW S \in SUBSET (T \cup {x})
  PROVE  /\ Cardinality(S) \in Nat /\ Cardinality(T) \in Nat
         /\ Cardinality(S) <= Cardinality(T) + 1
<1>1. /\ IsFiniteSet(T \cup {x})
      /\ Cardinality(T \cup {x}) = (IF x \in T THEN Cardinality(T) ELSE Cardinality(T) + 1)
  BY FS_AddElement
<1>2. Cardinality(S) <= Cardinality(T \cup {x}) /\ IsFiniteSet(S)
  BY <1>1, FS_Subset
<1>3. Cardinality(S) \in Nat /\ Cardinality(T) \in Nat
  BY <1>2, FS_CardinalityType
<1> QED BY <1>1, <1>2, <1>3

LEMMA RanksRise ==
  ASSUME \A x \in BatchIds : Rank(stage[x]) <= Rank(stage'[x])
  PROVE  /\ Cardinality(BatchSteps) \in Nat /\ Cardinality(BatchSteps') \in Nat
         /\ Cardinality(BatchSteps') <= Cardinality(BatchSteps)
         /\ (\E x \in BatchIds : Rank(stage[x]) < Rank(stage'[x]))
              => Cardinality(BatchSteps') + 1 <= Cardinality(BatchSteps)
<1>1. IsFiniteSet(BatchIds \X (1 .. 10))
  <2> DEFINE last == 10
  <2>1. last \in Int
    OBVIOUS
  <2> HIDE DEF last
  <2>2. IsFiniteSet(1 .. last) /\ Cardinality(1 .. last) = IF 1 > last THEN 0 ELSE last - 1 + 1
    BY <2>1, FS_Interval
  <2>3. IsFiniteSet(BatchIds \X (1 .. last))
    BY <2>2, DataAssumption, FS_Product
  <2> QED BY <2>3 DEF last
<1>2. IsFiniteSet(BatchSteps)
  BY <1>1, FS_Subset DEF BatchSteps
<1>3. \A x \in BatchIds : Rank(stage[x]) \in 0 .. 10 /\ Rank(stage'[x]) \in 0 .. 10
  BY DEF Rank
<1>4. BatchSteps' \in SUBSET BatchSteps
  <2> SUFFICES ASSUME NEW p \in BatchIds \X (1 .. 10), Rank(stage'[p[1]]) < p[2]
               PROVE  Rank(stage[p[1]]) < p[2]
    BY DEF BatchSteps
  <2>1. p[1] \in BatchIds /\ p[2] \in 1 .. 10
    OBVIOUS
  <2>2. Rank(stage[p[1]]) <= Rank(stage'[p[1]]) /\ Rank(stage[p[1]]) \in 0 .. 10 /\ Rank(stage'[p[1]]) \in 0 .. 10
    BY <1>3, <2>1
  <2> HIDE DEF Rank
  <2> QED BY <2>1, <2>2
<1>5. ASSUME NEW x \in BatchIds, Rank(stage[x]) < Rank(stage'[x]) PROVE BatchSteps' # BatchSteps
  <2>1. Rank(stage'[x]) \in 1 .. 10 /\ ~(Rank(stage'[x]) < Rank(stage'[x]))
    BY <1>3, <1>5
  <2>2. <<x, Rank(stage'[x])>> \in BatchSteps /\ <<x, Rank(stage'[x])>> \notin BatchSteps'
    BY <1>5, <2>1 DEF BatchSteps
  <2> QED BY <2>2
<1> QED BY <1>2, <1>4, <1>5, Fewer

(* One batch goes on.                                                      *)
LEMMA BatchGoesOn ==
  ASSUME stage \in [BatchIds -> Stages], NEW b \in BatchIds, NEW place,
         stage' = [stage EXCEPT ![b] = place], Rank(stage[b]) < Rank(place)
  PROVE  /\ Cardinality(BatchSteps) \in Nat /\ Cardinality(BatchSteps') \in Nat
         /\ Cardinality(BatchSteps') + 1 <= Cardinality(BatchSteps)
<1>1. stage'[b] = place /\ \A x \in BatchIds : x # b => stage'[x] = stage[x]
  OBVIOUS
<1>2. \A x \in BatchIds : Rank(stage[x]) \in 0 .. 10 /\ Rank(place) \in 0 .. 10
  BY DEF Rank
<1>3. \A x \in BatchIds : Rank(stage[x]) <= Rank(stage'[x])
  BY <1>1, <1>2
<1> QED BY <1>1, <1>3, RanksRise

(* The put loop sets batches of the buffer on their way; when it waits, it *)
(* has one in hand.                                                        *)
LEMMA OfferRises ==
  ASSUME NEW B \in SUBSET BatchIds, NEW base \in Seq(BatchIds), NEW st \in [BatchIds -> Stages],
         Len(base) <= UploadQueueSize, OfferBatches(B, base, st),
         \A x \in B : st[x] \in {"buffered", "popped"}
  PROVE  /\ \A x \in BatchIds : Rank(st[x]) <= Rank(stage'[x])
         /\ putting' # None => \E x \in BatchIds : Rank(st[x]) < Rank(stage'[x])
<1>1. PICK order \in SetToSeqs(B) : OfferBatches(B, base, st)!(order)
  BY DEF OfferBatches
<1> DEFINE room == RoomAfter(base)
           n    == IF Len(order) <= room THEN Len(order) ELSE room
           put  == {order[i] : i \in 1..n}
           next == IF n = Len(order) THEN {} ELSE {order[n + 1]}
<1>2. order \in Seq(B)
  <2>1. IsFiniteSet(B) /\ Cardinality(B) \in Nat
    BY FS_Subset, FS_CardinalityType, DataAssumption
  <2> QED BY <1>1, <2>1 DEF SetToSeqs
<1>3. room \in Nat
  BY SizeAssumption DEF RoomAfter
<1> HIDE DEF room
<1>4. n \in 0..Len(order) /\ Len(order) \in Nat
  BY <1>2, <1>3
<1>5. /\ putting' = IF next = {} \/ failureEvent THEN None ELSE order[n + 1]
      /\ \A x \in BatchIds : stage'[x] =
           IF x \in put THEN "uploadQueue"
           ELSE IF x \in next THEN (IF failureEvent THEN "lost" ELSE "held")
           ELSE IF x \in B THEN (IF failureEvent THEN "dropped" ELSE "popped")
           ELSE st[x]
  BY <1>1 DEF room
<1> HIDE DEF n
<1>6. put \subseteq B /\ next \subseteq B
  BY <1>2, <1>4
<1>7. ASSUME putting' # None PROVE order[n + 1] \in next /\ ~failureEvent
  BY <1>5, <1>7
<1> HIDE DEF put, next
<1>8. ASSUME NEW x \in BatchIds PROVE Rank(st[x]) <= Rank(stage'[x])
  <2>1. CASE x \in B
    <3>1. stage'[x] \in {"uploadQueue", "lost", "held", "dropped", "popped"}
      BY <1>5, <2>1
    <3> QED BY <2>1, <3>1 DEF Rank
  <2>2. CASE x \notin B
    <3>1. stage'[x] = st[x]
      BY <1>5, <1>6, <2>2
    <3>2. Rank(st[x]) \in Int
      BY DEF Rank
    <3> QED BY <3>1, <3>2
  <2> QED BY <2>1, <2>2
<1>9. ASSUME putting' # None PROVE \E x \in BatchIds : Rank(st[x]) < Rank(stage'[x])
  <2>1. PICK x \in next : TRUE
    BY <1>7, <1>9
  <2>2. x \in B /\ x \in BatchIds /\ stage'[x] \in {"uploadQueue", "held"}
    BY <1>5, <1>6, <1>7, <1>9, <2>1
  <2>3. Rank(st[x]) < Rank(stage'[x])
    BY <2>2 DEF Rank
  <2> QED BY <2>2, <2>3
<1> QED BY <1>8, <1>9

LEMMA StepsTyped ==
  ASSUME FiniteCrawl, TypeOK
  PROVE  /\ IsFiniteSet(ToBegin) /\ IsFiniteSet(OpenCrawls) /\ IsFiniteSet(Uncrawled) /\ IsFiniteSet(Offering)
         /\ IsFiniteSet(crawlersUp) /\ IsFiniteSet(uploadersUp) /\ IsFiniteSet(catalogersUp)
<1>1. ToBegin \subseteq Scopes /\ crawlersUp \subseteq Crawlers /\ uploadersUp \subseteq Uploaders
      /\ catalogersUp \subseteq Catalogers
  BY DEF TypeOK, ToBegin
<1>2. IsFiniteSet(Scopes \X Records)
  BY FS_Product DEF FiniteCrawl
<1>3. Uncrawled \subseteq Scopes \X Records /\ OpenCrawls \subseteq Crawlers /\ Offering \subseteq Crawlers
  BY DEF Uncrawled, OpenCrawls, Offering
<1> QED BY <1>1, <1>2, <1>3, FS_Subset, WorkerAssumption DEF FiniteCrawl

(* The sums, for any numbers.                                              *)
LEMMA CrawlSumTyped ==
  ASSUME NEW d \in Nat, NEW b \in Nat, NEW o \in Nat, NEW n \in Nat, NEW f \in Nat, NEW q \in Nat, NEW h \in Nat
  PROVE  CrawlSum(d, b, o, n, f, q, h) \in Nat
BY DEF CrawlSum

CrawlCounted ==
  /\ Cardinality(ToBegin) \in Nat /\ Cardinality(OpenCrawls) \in Nat /\ Cardinality(Uncrawled) \in Nat
  /\ Cardinality(Offering) \in Nat /\ Len(recordQueue) \in Nat /\ Len(holding) \in Nat
  /\ DiscoverySteps \in Nat /\ CrawlSteps \in Nat
MainCounted == MainSteps \in Int
BatchesCounted == Cardinality(BatchSteps) \in Nat

LEMMA CrawlTyped ==
  ASSUME FiniteCrawl, TypeOK
  PROVE  CrawlCounted
<1>1. /\ Cardinality(ToBegin) \in Nat /\ Cardinality(OpenCrawls) \in Nat /\ Cardinality(Uncrawled) \in Nat
      /\ Cardinality(Offering) \in Nat
  BY StepsTyped, FS_CardinalityType
<1>2. Len(recordQueue) \in Nat /\ Len(holding) \in Nat
  BY DEF TypeOK
<1>3. DiscoverySteps \in Nat
  BY DEF DiscoverySteps
<1>4. CrawlSteps \in Nat
  BY <1>1, <1>2, <1>3, CrawlSumTyped DEF CrawlSteps
<1> QED BY <1>1, <1>2, <1>3, <1>4 DEF CrawlCounted

LEMMA TasksFall ==
  ASSUME FiniteCrawl, TypeOK, crawlersUp' \subseteq crawlersUp, uploadersUp' \subseteq uploadersUp,
         catalogersUp' \subseteq catalogersUp, writersUp' \in Nat, writersUp' <= writersUp
  PROVE  /\ TaskSteps \in Nat /\ TaskSteps' \in Nat /\ TaskSteps' <= TaskSteps
         /\ UNCHANGED <<crawlersUp, uploadersUp, catalogersUp, writersUp>> \/ TaskSteps' + 1 <= TaskSteps
<1>1. /\ Cardinality(crawlersUp') \in Nat /\ Cardinality(crawlersUp) \in Nat
      /\ Cardinality(crawlersUp') <= Cardinality(crawlersUp)
      /\ crawlersUp' # crawlersUp => Cardinality(crawlersUp') + 1 <= Cardinality(crawlersUp)
  BY StepsTyped, Fewer
<1>2. /\ Cardinality(uploadersUp') \in Nat /\ Cardinality(uploadersUp) \in Nat
      /\ Cardinality(uploadersUp') <= Cardinality(uploadersUp)
      /\ uploadersUp' # uploadersUp => Cardinality(uploadersUp') + 1 <= Cardinality(uploadersUp)
  BY StepsTyped, Fewer
<1>3. /\ Cardinality(catalogersUp') \in Nat /\ Cardinality(catalogersUp) \in Nat
      /\ Cardinality(catalogersUp') <= Cardinality(catalogersUp)
      /\ catalogersUp' # catalogersUp => Cardinality(catalogersUp') + 1 <= Cardinality(catalogersUp)
  BY StepsTyped, Fewer
<1>4. writersUp \in Nat
  BY DEF TypeOK
<1>5. PICK c \in Nat, w \in Nat, n \in Nat, k \in Nat :
        /\ c = Cardinality(crawlersUp) /\ w = writersUp
        /\ n = Cardinality(uploadersUp) /\ k = Cardinality(catalogersUp)
  <2>1. Cardinality(crawlersUp) \in Nat /\ writersUp \in Nat
        /\ Cardinality(uploadersUp) \in Nat /\ Cardinality(catalogersUp) \in Nat
    BY <1>1, <1>2, <1>3, <1>4
  <2> QED BY <2>1
<1>6. PICK c1 \in Nat, w1 \in Nat, n1 \in Nat, k1 \in Nat :
        /\ c1 = Cardinality(crawlersUp') /\ w1 = writersUp'
        /\ n1 = Cardinality(uploadersUp') /\ k1 = Cardinality(catalogersUp')
  <2>1. Cardinality(crawlersUp') \in Nat /\ writersUp' \in Nat
        /\ Cardinality(uploadersUp') \in Nat /\ Cardinality(catalogersUp') \in Nat
    BY <1>1, <1>2, <1>3
  <2> QED BY <2>1
<1>7. TaskSteps = TaskSum(c, w, n, k) /\ TaskSteps' = TaskSum(c1, w1, n1, k1)
  BY <1>5, <1>6 DEF TaskSteps
<1>8. /\ c1 <= c /\ w1 <= w /\ n1 <= n /\ k1 <= k
      /\ UNCHANGED <<crawlersUp, uploadersUp, catalogersUp, writersUp>>
           \/ c1 + 1 <= c \/ w1 + 1 <= w \/ n1 + 1 <= n \/ k1 + 1 <= k
  <2>1. c1 <= c /\ n1 <= n /\ k1 <= k /\ w1 <= w
    BY <1>1, <1>2, <1>3, <1>5, <1>6
  <2>2. /\ crawlersUp' # crawlersUp => c1 + 1 <= c
        /\ uploadersUp' # uploadersUp => n1 + 1 <= n
        /\ catalogersUp' # catalogersUp => k1 + 1 <= k
    BY <1>1, <1>2, <1>3, <1>5, <1>6
  <2>3. writersUp' # writersUp => w1 + 1 <= w
    <3>1. writersUp' # writersUp => w1 # w
      BY <1>5, <1>6, Zenon
    <3>2. w1 # w => w1 + 1 <= w
      BY <2>1
    <3> QED BY <3>1, <3>2
  <2>4. \/ UNCHANGED <<crawlersUp, uploadersUp, catalogersUp, writersUp>>
        \/ crawlersUp' # crawlersUp \/ uploadersUp' # uploadersUp
        \/ catalogersUp' # catalogersUp \/ writersUp' # writersUp
    OBVIOUS
  <2> QED BY <2>1, <2>2, <2>3, <2>4, Zenon
<1>9. /\ TaskSum(c1, w1, n1, k1) \in Nat /\ TaskSum(c, w, n, k) \in Nat
      /\ TaskSum(c1, w1, n1, k1) <= TaskSum(c, w, n, k)
      /\ UNCHANGED <<crawlersUp, uploadersUp, catalogersUp, writersUp>>
           \/ TaskSum(c1, w1, n1, k1) + 1 <= TaskSum(c, w, n, k)
  BY <1>8 DEF TaskSum
<1> QED BY <1>7, <1>9

LEMMA MainTyped ==
  ASSUME TypeOK PROVE MainSteps \in Int
<1>1. ASSUME NEW w \in Nat, NEW n \in Nat, NEW k \in Nat, NEW put \in Nat, NEW place
      PROVE  MainLeft(place, put, w, n, k) \in Int
  BY DEF MainLeft
<1> QED BY <1>1, StageWorkers DEF MainSteps, TypeOK

LEMMA BatchesStay ==
  ASSUME UNCHANGED stage
  PROVE  Cardinality(BatchSteps) \in Nat /\ Cardinality(BatchSteps') = Cardinality(BatchSteps)
<1>1. \A x \in BatchIds : Rank(stage[x]) <= Rank(stage'[x])
  <2>1. \A x \in BatchIds : Rank(stage[x]) \in Int /\ stage'[x] = stage[x]
    BY DEF Rank
  <2> QED BY <2>1
<1>2. BatchSteps' = BatchSteps
  BY DEF BatchSteps
<1> QED BY <1>1, <1>2, RanksRise

(* What a step may add to each of the numbers, and to their sum.           *)
CrawlChange(d, b, o, n, f, q, h) ==
  /\ DiscoverySteps' <= DiscoverySteps + d
  /\ Cardinality(ToBegin') <= Cardinality(ToBegin) + b
  /\ Cardinality(OpenCrawls') <= Cardinality(OpenCrawls) + o
  /\ Cardinality(Uncrawled') <= Cardinality(Uncrawled) + n
  /\ Cardinality(Offering') <= Cardinality(Offering) + f
  /\ Len(recordQueue') <= Len(recordQueue) + q
  /\ Len(holding') <= Len(holding) + h

LEMMA CrawlTypedAfter == ASSUME FiniteCrawl PROVE TypeOK' => CrawlCounted'
<1>1. TypeOK => CrawlCounted
  BY CrawlTyped
<1> QED BY <1>1, PTL

LEMMA MainTypedAfter == TypeOK' => MainCounted'
<1>1. TypeOK => MainCounted
  BY MainTyped DEF MainCounted
<1> QED BY <1>1, PTL

LEMMA BatchesTyped == BatchesCounted /\ BatchesCounted'
<1>1. BatchesCounted
  <2> DEFINE last == 10
  <2>1. last \in Int
    OBVIOUS
  <2> HIDE DEF last
  <2>2. IsFiniteSet(1 .. last) /\ Cardinality(1 .. last) = IF 1 > last THEN 0 ELSE last - 1 + 1
    BY <2>1, FS_Interval
  <2>3. IsFiniteSet(BatchIds \X (1 .. last))
    BY <2>2, DataAssumption, FS_Product
  <2>4. BatchSteps \subseteq BatchIds \X (1 .. last)
    BY DEF BatchSteps, last
  <2> QED BY <2>3, <2>4, FS_Subset, FS_CardinalityType DEF BatchesCounted
<1> QED BY <1>1, PTL

LEMMA CrawlChanges ==
  ASSUME FiniteCrawl, TypeOK, TypeOK',
         NEW d \in Int, NEW b \in Int, NEW o \in Int, NEW n \in Int, NEW f \in Int, NEW q \in Int,
         NEW h \in Int, CrawlChange(d, b, o, n, f, q, h)
  PROVE  /\ CrawlSum(d, b, o, n, f, q, h) <= 0 => CrawlSteps' <= CrawlSteps
         /\ CrawlSum(d, b, o, n, f, q, h) <= -1 => CrawlSteps' + 1 <= CrawlSteps
<1>1. PICK d0 \in Nat, b0 \in Nat, o0 \in Nat, n0 \in Nat, f0 \in Nat, q0 \in Nat, h0 \in Nat :
        /\ d0 = DiscoverySteps /\ b0 = Cardinality(ToBegin) /\ o0 = Cardinality(OpenCrawls)
        /\ n0 = Cardinality(Uncrawled) /\ f0 = Cardinality(Offering)
        /\ q0 = Len(recordQueue) /\ h0 = Len(holding)
  BY CrawlTyped DEF CrawlCounted
<1>2. PICK d1 \in Nat, b1 \in Nat, o1 \in Nat, n1 \in Nat, f1 \in Nat, q1 \in Nat, h1 \in Nat :
        /\ d1 = DiscoverySteps' /\ b1 = Cardinality(ToBegin') /\ o1 = Cardinality(OpenCrawls')
        /\ n1 = Cardinality(Uncrawled') /\ f1 = Cardinality(Offering')
        /\ q1 = Len(recordQueue') /\ h1 = Len(holding')
  BY CrawlTypedAfter DEF CrawlCounted
<1>3. /\ d1 <= d0 + d /\ b1 <= b0 + b /\ o1 <= o0 + o /\ n1 <= n0 + n
      /\ f1 <= f0 + f /\ q1 <= q0 + q /\ h1 <= h0 + h
  BY <1>1, <1>2 DEF CrawlChange
<1>4. /\ CrawlSteps = CrawlSum(d0, b0, o0, n0, f0, q0, h0)
      /\ CrawlSteps' = CrawlSum(d1, b1, o1, n1, f1, q1, h1)
  BY <1>1, <1>2 DEF CrawlSteps
<1>5. /\ CrawlSum(d, b, o, n, f, q, h) <= 0
           => CrawlSum(d1, b1, o1, n1, f1, q1, h1) <= CrawlSum(d0, b0, o0, n0, f0, q0, h0)
      /\ CrawlSum(d, b, o, n, f, q, h) <= -1
           => CrawlSum(d1, b1, o1, n1, f1, q1, h1) + 1 <= CrawlSum(d0, b0, o0, n0, f0, q0, h0)
  BY <1>3 DEF CrawlSum
<1> QED BY <1>4, <1>5

(* Nothing is added, and something is taken off.                           *)
LEMMA WorkFalls ==
  ASSUME FiniteCrawl, TypeOK, TypeOK', crawlersUp' \subseteq crawlersUp, uploadersUp' \subseteq uploadersUp,
         catalogersUp' \subseteq catalogersUp, writersUp' <= writersUp,
         CrawlSteps' <= CrawlSteps, Cardinality(BatchSteps') <= Cardinality(BatchSteps),
         MainSteps' <= MainSteps, stops <= stops',
         \/ CrawlSteps' + 1 <= CrawlSteps
         \/ ~UNCHANGED <<crawlersUp, uploadersUp, catalogersUp, writersUp>>
         \/ Cardinality(BatchSteps') + 1 <= Cardinality(BatchSteps)
         \/ MainSteps' + 1 <= MainSteps
         \/ stops + 1 <= stops'
  PROVE  WorkLeft' < WorkLeft
<1>1. writersUp' \in Nat /\ stops \in Int /\ stops' \in Int
  BY DEF TypeOK
<1>2. TaskSteps \in Nat /\ TaskSteps' \in Nat /\ TaskSteps' <= TaskSteps
      /\ (UNCHANGED <<crawlersUp, uploadersUp, catalogersUp, writersUp>> \/ TaskSteps' + 1 <= TaskSteps)
  BY <1>1, TasksFall
<1>3. MainSteps \in Int /\ MainSteps' \in Int /\ CrawlSteps \in Nat /\ CrawlSteps' \in Nat
  BY MainTyped, MainTypedAfter, CrawlTyped, CrawlTypedAfter DEF CrawlCounted, MainCounted
<1>4. PICK c \in Int, t \in Int, b \in Int, m \in Int, n \in Int :
        /\ c = CrawlSteps /\ t = TaskSteps /\ b = Cardinality(BatchSteps) /\ m = MainSteps /\ n = stops
  BY <1>1, <1>2, <1>3, BatchesTyped DEF BatchesCounted
<1>5. PICK c1 \in Int, t1 \in Int, b1 \in Int, m1 \in Int, n1 \in Int :
        /\ c1 = CrawlSteps' /\ t1 = TaskSteps' /\ b1 = Cardinality(BatchSteps') /\ m1 = MainSteps'
        /\ n1 = stops'
  BY <1>1, <1>2, <1>3, BatchesTyped DEF BatchesCounted
<1>6. WorkLeft = WorkSum(c, t, b, m, n) /\ WorkLeft' = WorkSum(c1, t1, b1, m1, n1)
  BY <1>4, <1>5 DEF WorkLeft
<1>7. c1 <= c /\ t1 <= t /\ b1 <= b /\ m1 <= m /\ n <= n1
  BY <1>2, <1>4, <1>5
<1>8. c1 + 1 <= c \/ t1 + 1 <= t \/ b1 + 1 <= b \/ m1 + 1 <= m \/ n + 1 <= n1
  BY <1>2, <1>4, <1>5
<1>9. WorkSum(c1, t1, b1, m1, n1) < WorkSum(c, t, b, m, n)
  BY <1>7, <1>8 DEF WorkSum
<1> QED BY <1>6, <1>9

(* Steps of the crawl: a scope is taken, a record yielded, an item put.    *)
LEMMA CrawlFalls ==
  ASSUME FiniteCrawl, TypeOK, TypeOK',
         UNCHANGED <<stage, main, sent, stops, writersUp, uploadersUp, catalogersUp>>,
         crawlersUp' \subseteq crawlersUp, CrawlSteps' <= CrawlSteps,
         CrawlSteps' + 1 <= CrawlSteps \/ crawlersUp' # crawlersUp
  PROVE  WorkLeft' < WorkLeft
<1>1. Cardinality(BatchSteps') <= Cardinality(BatchSteps)
  <2>1. BatchSteps' = BatchSteps
    BY DEF BatchSteps
  <2> QED BY <2>1, BatchesTyped DEF BatchesCounted
<1>2. MainSteps' <= MainSteps
  <2>1. MainSteps' = MainSteps
    BY DEF MainSteps
  <2> QED BY <2>1, MainTyped
<1>3. writersUp' <= writersUp /\ stops <= stops'
  BY DEF TypeOK
<1> QED BY <1>1, <1>2, <1>3, WorkFalls

LEMMA DiscoverFalls ==
  ASSUME FiniteCrawl, TypeOK, TypeOK',
         DiscoverRaises \/ \E plan \in SUBSET Resumable : Discover(plan)
  PROVE  WorkLeft' < WorkLeft
<1>1. /\ discovery = "running" /\ discovery' # "running"
      /\ UNCHANGED <<crawling, offer, crawled, recordQueue, holding, crawlersUp>>
      /\ UNCHANGED <<stage, main, sent, stops, writersUp, uploadersUp, catalogersUp>>
  BY DEF DiscoverRaises, Discover, mainVars, crawlVars, writerVars, storeVars, batchVars, uploadVars,
         catalogVars, scopeVars
<1>2. ToBegin' \subseteq ToBegin
  BY <1>1 DEF ToBegin, TypeOK
<1>3. Cardinality(ToBegin') <= Cardinality(ToBegin)
  BY <1>2, StepsTyped, Fewer
<1>4. OpenCrawls' = OpenCrawls /\ Uncrawled' = Uncrawled /\ Offering' = Offering
  BY <1>1 DEF OpenCrawls, Uncrawled, Offering
<1>5. DiscoverySteps = 1 /\ DiscoverySteps' = 0
  BY <1>1 DEF DiscoverySteps
<1>6. CrawlChange(-1, 0, 0, 0, 0, 0, 0)
  BY <1>1, <1>3, <1>4, <1>5, CrawlTyped, CrawlTypedAfter DEF CrawlChange, CrawlCounted
<1>7. CrawlSum(-1, 0, 0, 0, 0, 0, 0) <= 0 /\ CrawlSum(-1, 0, 0, 0, 0, 0, 0) <= -1
  BY DEF CrawlSum
<1>8. CrawlSteps' <= CrawlSteps /\ CrawlSteps' + 1 <= CrawlSteps
  BY <1>6, <1>7, CrawlChanges
<1> QED BY <1>1, <1>8, CrawlFalls

LEMMA BeginFalls ==
  ASSUME FiniteCrawl, TypeOK, TypeOK', NoneQueuedEarly,
         NEW c \in Crawlers, NEW s \in Scopes, BeginScope(c, s)
  PROVE  WorkLeft' < WorkLeft
<1>1. /\ s \in scopeQueue /\ scopeQueue' = scopeQueue \ {s} /\ crawling' = [crawling EXCEPT ![c] = s]
      /\ UNCHANGED <<discovery, offer, crawled, recordQueue, holding, crawlersUp>>
      /\ UNCHANGED <<stage, main, sent, stops, writersUp, uploadersUp, catalogersUp>>
  BY DEF BeginScope, mainVars, writerVars, storeVars, batchVars, uploadVars, catalogVars
<1>2. ToBegin' \subseteq ToBegin /\ ToBegin' # ToBegin
  BY <1>1 DEF ToBegin, NoneQueuedEarly
<1>3. Cardinality(ToBegin') + 1 <= Cardinality(ToBegin)
  BY <1>2, StepsTyped, Fewer
<1>4. OpenCrawls' \subseteq OpenCrawls \cup {c}
  BY <1>1 DEF OpenCrawls, TypeOK
<1>5. Cardinality(OpenCrawls') <= Cardinality(OpenCrawls) + 1
  BY <1>4, StepsTyped, OneMore
<1>6. Uncrawled' = Uncrawled /\ Offering' = Offering /\ DiscoverySteps' = DiscoverySteps
  BY <1>1 DEF Uncrawled, Offering, DiscoverySteps
<1>7. CrawlChange(0, -1, 1, 0, 0, 0, 0)
  BY <1>1, <1>3, <1>5, <1>6, CrawlTyped, CrawlTypedAfter DEF CrawlChange, CrawlCounted
<1>8. CrawlSum(0, -1, 1, 0, 0, 0, 0) <= 0 /\ CrawlSum(0, -1, 1, 0, 0, 0, 0) <= -1
  BY DEF CrawlSum
<1>9. CrawlSteps' <= CrawlSteps /\ CrawlSteps' + 1 <= CrawlSteps
  BY <1>7, <1>8, CrawlChanges
<1> QED BY <1>1, <1>9, CrawlFalls

LEMMA RecordFalls ==
  ASSUME FiniteCrawl, TypeOK, TypeOK', NEW c \in Crawlers, NEW r \in Records, CrawlRecord(c, r)
  PROVE  WorkLeft' < WorkLeft
<1> DEFINE s == crawling[c]
<1>1. /\ s \in Scopes /\ r \notin crawled[s] /\ crawled' = [crawled EXCEPT ![s] = @ \cup {r}]
      /\ offer' = [offer EXCEPT ![c] = RecordItem(s, r)]
      /\ UNCHANGED <<discovery, scopeQueue, crawling, recordQueue, holding, crawlersUp>>
      /\ UNCHANGED <<stage, main, sent, stops, writersUp, uploadersUp, catalogersUp>>
  BY DEF CrawlRecord, InCrawl, TypeOK, mainVars, writerVars, storeVars, batchVars, uploadVars, catalogVars
<1>2. Uncrawled' \subseteq Uncrawled /\ Uncrawled' # Uncrawled
  <2>1. \A x \in Scopes : crawled[x] \subseteq crawled'[x]
    BY <1>1 DEF TypeOK
  <2>2. <<s, r>> \in Uncrawled /\ <<s, r>> \notin Uncrawled'
    BY <1>1 DEF Uncrawled, TypeOK
  <2> QED BY <2>1, <2>2 DEF Uncrawled
<1>3. Cardinality(Uncrawled') + 1 <= Cardinality(Uncrawled)
  BY <1>2, StepsTyped, Fewer
<1>4. Offering' \subseteq Offering \cup {c}
  BY <1>1 DEF Offering, TypeOK
<1>5. Cardinality(Offering') <= Cardinality(Offering) + 1
  BY <1>4, StepsTyped, OneMore
<1>6. OpenCrawls' \subseteq OpenCrawls
  BY DEF OpenCrawls, TypeOK, CrawlRecord, InCrawl, RecordItem
<1>7. Cardinality(OpenCrawls') <= Cardinality(OpenCrawls)
  BY <1>6, StepsTyped, Fewer
<1>8. ToBegin' = ToBegin /\ DiscoverySteps' = DiscoverySteps
  BY <1>1 DEF ToBegin, DiscoverySteps
<1>9. CrawlChange(0, 0, 0, -1, 1, 0, 0)
  BY <1>1, <1>3, <1>5, <1>7, <1>8, CrawlTyped, CrawlTypedAfter DEF CrawlChange, CrawlCounted
<1>10. CrawlSum(0, 0, 0, -1, 1, 0, 0) <= 0 /\ CrawlSum(0, 0, 0, -1, 1, 0, 0) <= -1
  BY DEF CrawlSum
<1>11. CrawlSteps' <= CrawlSteps /\ CrawlSteps' + 1 <= CrawlSteps
  BY <1>9, <1>10, CrawlChanges
<1> QED BY <1>1, <1>11, CrawlFalls

LEMMA EndFalls ==
  ASSUME FiniteCrawl, TypeOK, TypeOK', NEW c \in Crawlers, EndScope(c)
  PROVE  WorkLeft' < WorkLeft
<1> DEFINE item == FlushItem(crawling[c], ~StopRequested)
<1>1. /\ crawling[c] # None /\ offer[c] = None /\ offer' = [offer EXCEPT ![c] = item]
      /\ item # None /\ item.kind = "flush"
      /\ UNCHANGED <<discovery, scopeQueue, crawling, crawled, recordQueue, holding, crawlersUp>>
      /\ UNCHANGED <<stage, main, sent, stops, writersUp, uploadersUp, catalogersUp>>
  <2>1. item \in Items /\ item.kind = "flush"
    BY DEF EndScope, InCrawl, TypeOK, FlushItem, Items, StopRequested
  <2> QED BY <2>1, ItemAssumption
          DEF EndScope, InCrawl, mainVars, writerVars, storeVars, batchVars, uploadVars, catalogVars
<1> HIDE DEF item
<1>2. OpenCrawls' \subseteq OpenCrawls /\ c \in OpenCrawls /\ c \notin OpenCrawls'
  BY <1>1 DEF OpenCrawls, TypeOK
<1>3. Cardinality(OpenCrawls') + 1 <= Cardinality(OpenCrawls)
  BY <1>2, StepsTyped, Fewer
<1>4. Offering' \subseteq Offering \cup {c}
  BY <1>1 DEF Offering, TypeOK
<1>5. Cardinality(Offering') <= Cardinality(Offering) + 1
  BY <1>4, StepsTyped, OneMore
<1>6. ToBegin' = ToBegin /\ Uncrawled' = Uncrawled /\ DiscoverySteps' = DiscoverySteps
  BY <1>1 DEF ToBegin, Uncrawled, DiscoverySteps
<1>7. CrawlChange(0, 0, -1, 0, 1, 0, 0)
  BY <1>1, <1>3, <1>5, <1>6, CrawlTyped, CrawlTypedAfter DEF CrawlChange, CrawlCounted
<1>8. CrawlSum(0, 0, -1, 0, 1, 0, 0) <= 0 /\ CrawlSum(0, 0, -1, 0, 1, 0, 0) <= -1
  BY DEF CrawlSum
<1>9. CrawlSteps' <= CrawlSteps /\ CrawlSteps' + 1 <= CrawlSteps
  BY <1>7, <1>8, CrawlChanges
<1> QED BY <1>1, <1>9, CrawlFalls

LEMMA PutFalls ==
  ASSUME FiniteCrawl, TypeOK, TypeOK', NEW c \in Crawlers, PutItem(c)
  PROVE  WorkLeft' < WorkLeft
<1>1. /\ offer[c] # None /\ offer' = [offer EXCEPT ![c] = None]
      /\ crawling' = IF offer[c].kind = "flush" THEN [crawling EXCEPT ![c] = None] ELSE crawling
      /\ recordQueue' = Append(recordQueue, offer[c])
      /\ UNCHANGED <<discovery, scopeQueue, crawled, holding, crawlersUp>>
      /\ UNCHANGED <<stage, main, sent, stops, writersUp, uploadersUp, catalogersUp>>
  BY DEF PutItem, mainVars, writerVars, storeVars, batchVars, uploadVars, catalogVars
<1>2. Offering' \subseteq Offering /\ c \in Offering /\ c \notin Offering'
  BY <1>1 DEF Offering, TypeOK
<1>3. Cardinality(Offering') + 1 <= Cardinality(Offering)
  BY <1>2, StepsTyped, Fewer
<1>4. OpenCrawls' \subseteq OpenCrawls
  BY <1>1 DEF OpenCrawls, TypeOK
<1>5. Cardinality(OpenCrawls') <= Cardinality(OpenCrawls)
  BY <1>4, StepsTyped, Fewer
<1>6. Len(recordQueue') <= Len(recordQueue) + 1
  BY <1>1, AppendFacts DEF TypeOK
<1>7. ToBegin' = ToBegin /\ Uncrawled' = Uncrawled /\ DiscoverySteps' = DiscoverySteps
  BY <1>1 DEF ToBegin, Uncrawled, DiscoverySteps
<1>8. CrawlChange(0, 0, 0, 0, -1, 1, 0)
  BY <1>1, <1>3, <1>5, <1>6, <1>7, CrawlTyped, CrawlTypedAfter DEF CrawlChange, CrawlCounted
<1>9. CrawlSum(0, 0, 0, 0, -1, 1, 0) <= 0 /\ CrawlSum(0, 0, 0, 0, -1, 1, 0) <= -1
  BY DEF CrawlSum
<1>10. CrawlSteps' <= CrawlSteps /\ CrawlSteps' + 1 <= CrawlSteps
  BY <1>8, <1>9, CrawlChanges
<1> QED BY <1>1, <1>10, CrawlFalls

LEMMA ReturnFalls ==
  ASSUME FiniteCrawl, TypeOK, TypeOK', NEW c \in Crawlers, CrawlerReturns(c) \/ CrawlRaises(c)
  PROVE  WorkLeft' < WorkLeft
<1>1. /\ c \in crawlersUp /\ crawlersUp' = crawlersUp \ {c} /\ scopeQueue' \subseteq scopeQueue
      /\ UNCHANGED <<discovery, crawling, offer, crawled, recordQueue, holding>>
      /\ UNCHANGED <<stage, main, sent, stops, writersUp, uploadersUp, catalogersUp>>
  BY DEF CrawlerReturns, CrawlRaises, Idle, InCrawl, mainVars, writerVars, storeVars, batchVars, uploadVars,
         catalogVars
<1>2. ToBegin' \subseteq ToBegin
  BY <1>1 DEF ToBegin
<1>3. Cardinality(ToBegin') <= Cardinality(ToBegin)
  BY <1>2, StepsTyped, Fewer
<1>4. OpenCrawls' = OpenCrawls /\ Uncrawled' = Uncrawled /\ Offering' = Offering
      /\ DiscoverySteps' = DiscoverySteps
  BY <1>1 DEF OpenCrawls, Uncrawled, Offering, DiscoverySteps
<1>5. CrawlChange(0, 0, 0, 0, 0, 0, 0)
  BY <1>1, <1>3, <1>4, CrawlTyped, CrawlTypedAfter DEF CrawlChange, CrawlCounted
<1>6. CrawlSum(0, 0, 0, 0, 0, 0, 0) <= 0
  BY DEF CrawlSum
<1>7. CrawlSteps' <= CrawlSteps
  BY <1>5, <1>6, CrawlChanges
<1>8. crawlersUp' \subseteq crawlersUp /\ crawlersUp' # crawlersUp
  BY <1>1
<1> QED BY <1>1, <1>7, <1>8, CrawlFalls

(* Steps of the writers: an item is taken, or dealt with.                  *)
LEMMA ItemsFall ==
  ASSUME FiniteCrawl, TypeOK, TypeOK', UNCHANGED <<discovery, scopeQueue, crawling, offer, crawled>>
  PROVE  /\ Len(recordQueue') <= Len(recordQueue) /\ Len(holding') <= Len(holding)
              => CrawlSteps' <= CrawlSteps
         /\ Len(recordQueue') + 1 <= Len(recordQueue) /\ Len(holding') <= Len(holding) + 1
              => CrawlSteps' <= CrawlSteps /\ CrawlSteps' + 1 <= CrawlSteps
         /\ Len(recordQueue') <= Len(recordQueue) /\ Len(holding') + 1 <= Len(holding)
              => CrawlSteps' <= CrawlSteps /\ CrawlSteps' + 1 <= CrawlSteps
<1>1. /\ OpenCrawls' = OpenCrawls /\ Uncrawled' = Uncrawled /\ Offering' = Offering
      /\ ToBegin' = ToBegin /\ DiscoverySteps' = DiscoverySteps
  BY DEF OpenCrawls, Uncrawled, Offering, ToBegin, DiscoverySteps
<1>2. ASSUME Len(recordQueue') <= Len(recordQueue), Len(holding') <= Len(holding)
      PROVE  CrawlSteps' <= CrawlSteps
  <2>1. CrawlChange(0, 0, 0, 0, 0, 0, 0)
    BY <1>1, <1>2, CrawlTyped, CrawlTypedAfter DEF CrawlChange, CrawlCounted
  <2>2. CrawlSum(0, 0, 0, 0, 0, 0, 0) <= 0
    BY DEF CrawlSum
  <2> QED BY <2>1, <2>2, CrawlChanges
<1>3. ASSUME Len(recordQueue') + 1 <= Len(recordQueue), Len(holding') <= Len(holding) + 1
      PROVE  CrawlSteps' <= CrawlSteps /\ CrawlSteps' + 1 <= CrawlSteps
  <2>1. CrawlChange(0, 0, 0, 0, 0, -1, 1)
    BY <1>1, <1>3, CrawlTyped, CrawlTypedAfter DEF CrawlChange, CrawlCounted
  <2>2. CrawlSum(0, 0, 0, 0, 0, -1, 1) <= 0 /\ CrawlSum(0, 0, 0, 0, 0, -1, 1) <= -1
    BY DEF CrawlSum
  <2> QED BY <2>1, <2>2, CrawlChanges
<1>4. ASSUME Len(recordQueue') <= Len(recordQueue), Len(holding') + 1 <= Len(holding)
      PROVE  CrawlSteps' <= CrawlSteps /\ CrawlSteps' + 1 <= CrawlSteps
  <2>1. CrawlChange(0, 0, 0, 0, 0, 0, -1)
    BY <1>1, <1>4, CrawlTyped, CrawlTypedAfter DEF CrawlChange, CrawlCounted
  <2>2. CrawlSum(0, 0, 0, 0, 0, 0, -1) <= 0 /\ CrawlSum(0, 0, 0, 0, 0, 0, -1) <= -1
    BY DEF CrawlSum
  <2> QED BY <2>1, <2>2, CrawlChanges
<1> QED BY <1>2, <1>3, <1>4

(* A step that leaves main where it is: an item, a task or a batch.        *)
LEMMA StepFalls ==
  ASSUME FiniteCrawl, TypeOK, TypeOK', UNCHANGED <<main, sent, stops>>,
         crawlersUp' \subseteq crawlersUp, uploadersUp' \subseteq uploadersUp,
         catalogersUp' \subseteq catalogersUp, writersUp' <= writersUp, CrawlSteps' <= CrawlSteps,
         \A x \in BatchIds : Rank(stage[x]) <= Rank(stage'[x]),
         \/ CrawlSteps' + 1 <= CrawlSteps
         \/ ~UNCHANGED <<crawlersUp, uploadersUp, catalogersUp, writersUp>>
         \/ \E x \in BatchIds : Rank(stage[x]) < Rank(stage'[x])
  PROVE  WorkLeft' < WorkLeft
<1>1. /\ Cardinality(BatchSteps') <= Cardinality(BatchSteps)
      /\ (\E x \in BatchIds : Rank(stage[x]) < Rank(stage'[x]))
           => Cardinality(BatchSteps') + 1 <= Cardinality(BatchSteps)
  BY RanksRise
<1>2. MainSteps' <= MainSteps
  <2>1. MainSteps' = MainSteps
    BY DEF MainSteps
  <2> QED BY <2>1, MainTyped
<1>3. stops <= stops'
  BY DEF TypeOK
<1> QED BY <1>1, <1>2, <1>3, WorkFalls

LEMMA SameRanks == ASSUME UNCHANGED stage PROVE \A x \in BatchIds : Rank(stage[x]) <= Rank(stage'[x])
<1>1. \A x \in BatchIds : Rank(stage[x]) \in Int
  BY DEF Rank
<1> QED BY <1>1

LEMMA WriterFalls ==
  ASSUME FiniteCrawl, TypeOK, TypeOK', WriterGet \/ WriterSentinel
  PROVE  WorkLeft' < WorkLeft
<1>1. /\ UNCHANGED <<discovery, scopeQueue, crawling, offer, crawled>>
      /\ UNCHANGED <<main, sent, stops, stage, crawlersUp, uploadersUp, catalogersUp>>
  BY DEF WriterGet, WriterSentinel, mainVars, crawlVars, storeVars, batchVars, uploadVars, catalogVars
<1>2. writersUp \in Nat /\ Len(holding) \in Nat /\ Len(recordQueue) \in Nat
  BY DEF TypeOK
<1>3. \/ /\ Len(recordQueue') + 1 <= Len(recordQueue) /\ Len(holding') <= Len(holding) + 1
         /\ writersUp' <= writersUp
      \/ /\ Len(recordQueue') <= Len(recordQueue) /\ Len(holding') <= Len(holding)
         /\ writersUp' <= writersUp /\ writersUp' # writersUp
  <2>1. CASE WriterGet
    <3>1. Len(Tail(recordQueue)) = Len(recordQueue) - 1 /\ Head(recordQueue) \in Items
      BY <2>1, TailFacts DEF WriterGet, TypeOK
    <3>2. Len(Append(holding, Head(recordQueue))) = Len(holding) + 1
      BY <3>1, AppendFacts DEF TypeOK
    <3> QED BY <1>2, <2>1, <3>1, <3>2 DEF WriterGet
  <2>2. CASE WriterSentinel
    BY <1>2, <2>2 DEF WriterSentinel
  <2> QED BY <2>1, <2>2
<1>4. CrawlSteps' <= CrawlSteps /\ (CrawlSteps' + 1 <= CrawlSteps \/ writersUp' # writersUp)
  BY <1>1, <1>3, ItemsFall
<1> QED BY <1>1, <1>3, <1>4, SameRanks, StepFalls

(* The lock's holder is done with its item, or has a batch put.            *)
LEMMA OfferFalls ==
  ASSUME FiniteCrawl, TypeOK, TypeOK', holding # <<>>,
         UNCHANGED <<main, sent, stops, discovery, scopeQueue, crawling, offer, crawled, recordQueue,
                     crawlersUp, uploadersUp, catalogersUp>>,
         NEW B \in SUBSET BatchIds, NEW base \in Seq(BatchIds), NEW st \in [BatchIds -> Stages],
         Len(base) <= UploadQueueSize, OfferBatches(B, base, st),
         \A x \in B : st[x] \in {"buffered", "popped"},
         \A x \in BatchIds : Rank(stage[x]) <= Rank(st[x]), AfterOffer(B)
  PROVE  WorkLeft' < WorkLeft
<1>1. /\ \A x \in BatchIds : Rank(st[x]) <= Rank(stage'[x])
      /\ putting' # None => \E x \in BatchIds : Rank(st[x]) < Rank(stage'[x])
  BY OfferRises
<1>2. \A x \in BatchIds : Rank(stage[x]) \in Int /\ Rank(st[x]) \in Int /\ Rank(stage'[x]) \in Int
  BY DEF Rank
<1>3. /\ \A x \in BatchIds : Rank(stage[x]) <= Rank(stage'[x])
      /\ putting' # None => \E x \in BatchIds : Rank(stage[x]) < Rank(stage'[x])
  BY <1>1, <1>2
<1>4. writersUp \in Nat /\ Len(Tail(holding)) = Len(holding) - 1 /\ Len(holding) \in Nat
      /\ Len(recordQueue') <= Len(recordQueue)
  BY TailFacts DEF TypeOK
<1>5. writersUp' <= writersUp
  BY <1>4 DEF AfterOffer, Release
<1>6. CASE putting' # None
  <2>1. Len(holding') <= Len(holding)
    BY <1>4, <1>6 DEF AfterOffer
  <2>2. CrawlSteps' <= CrawlSteps
    BY <1>4, <2>1, ItemsFall
  <2> QED BY <1>3, <1>5, <1>6, <2>2, StepFalls
<1>7. CASE putting' = None
  <2>1. Len(holding') + 1 <= Len(holding)
    BY <1>4, <1>7 DEF AfterOffer, Release
  <2>2. CrawlSteps' <= CrawlSteps /\ CrawlSteps' + 1 <= CrawlSteps
    BY <1>4, <2>1, ItemsFall
  <2> QED BY <1>3, <1>5, <2>2, StepFalls
<1> QED BY <1>6, <1>7

LEMMA HolderFalls ==
  ASSUME FiniteCrawl, AccountingInv, TypeOK', HoldLock
  PROVE  WorkLeft' < WorkLeft
<1>1. TypeOK /\ QueueInv
  BY DEF AccountingInv
<1>2. /\ UNCHANGED <<main, sent, stops, discovery, scopeQueue, crawling, offer, crawled, recordQueue,
                     crawlersUp, uploadersUp, catalogersUp>>
      /\ holding # <<>>
  BY <1>1 DEF HoldLock, SkipRecord, UnchangedRecord, BufferRecord, FlushScope, WriterPut, ResumePut,
              LockHolder, QueueInv, mainVars, crawlVars, storeVars, uploadVars, catalogVars
<1>3. /\ uploadQueue \in Seq(BatchIds) /\ Len(uploadQueue) <= UploadQueueSize
      /\ stage \in [BatchIds -> Stages] /\ \A x \in BatchIds : Rank(stage[x]) \in Int
  BY <1>1 DEF TypeOK, QueueInv, Rank
<1>4. CASE SkipRecord \/ UnchangedRecord
  <2>1. holding' = Tail(holding) /\ writersUp' = writersUp /\ stage' = stage
    BY <1>4 DEF SkipRecord, UnchangedRecord, Release, storeVars, batchVars
  <2>2. Len(holding') + 1 <= Len(holding) /\ Len(recordQueue') <= Len(recordQueue)
        /\ writersUp' <= writersUp
    BY <1>1, <1>2, <2>1, TailFacts DEF TypeOK
  <2>3. CrawlSteps' <= CrawlSteps /\ CrawlSteps' + 1 <= CrawlSteps
    BY <1>1, <1>2, <2>2, ItemsFall
  <2> QED BY <1>1, <1>2, <2>1, <2>2, <2>3, SameRanks, StepFalls
<1>5. CASE BufferRecord
  <2> DEFINE item == Head(holding)
             b == BufferOf(item.rec)
             st == [stage EXCEPT ![b] = "buffered"]
  <2>1. PICK B \in {{}, {b}} : OfferBatches(B, uploadQueue, st) /\ AfterOffer(B)
    BY <1>5 DEF BufferRecord
  <2>2. item \in [kind : {"record"}, scope : Scopes, rec : Records]
    BY <1>1, <1>5 DEF BufferRecord, LockHolder, TypeOK, Items
  <2>3. b \in BatchIds /\ stage[b] \in {"free", "buffered"}
    BY <1>1, <1>5, <2>2, BufferFacts DEF BufferRecord
  <2> HIDE DEF b
  <2>4. st \in [BatchIds -> Stages] /\ st[b] = "buffered" /\ \A x \in BatchIds : x # b => st[x] = stage[x]
    BY <1>3, <2>3 DEF Stages
  <2> HIDE DEF st
  <2>5. \A x \in BatchIds : Rank(stage[x]) <= Rank(st[x])
    <3>1. Rank(stage[b]) <= Rank(st[b])
      BY <2>3, <2>4 DEF Rank
    <3> QED BY <1>3, <2>4, <3>1
  <2>6. B \in SUBSET BatchIds /\ \A x \in B : st[x] \in {"buffered", "popped"}
    BY <2>1, <2>3, <2>4
  <2> QED BY <1>1, <1>2, <1>3, <2>1, <2>4, <2>5, <2>6, OfferFalls
<1>6. CASE FlushScope
  <2> DEFINE B == Popped(Head(holding).scope)
  <2>1. OfferBatches(B, uploadQueue, stage) /\ AfterOffer(B)
    BY <1>6 DEF FlushScope
  <2>2. B \in SUBSET BatchIds /\ \A x \in B : stage[x] \in {"buffered", "popped"}
    BY DEF Popped
  <2>3. \A x \in BatchIds : Rank(stage[x]) <= Rank(stage[x])
    BY <1>3
  <2> HIDE DEF B
  <2> QED BY <1>1, <1>2, <1>3, <2>1, <2>2, <2>3, OfferFalls
<1>7. CASE WriterPut
  <2> DEFINE base == Append(uploadQueue, putting)
             st == [stage EXCEPT ![putting] = "uploadQueue"]
  <2>1. /\ OfferBatches(Unsent, base, st) /\ AfterOffer(Unsent)
        /\ base \in Seq(BatchIds) /\ st \in [BatchIds -> Stages] /\ Len(base) <= UploadQueueSize
    <3>1. ResumePut /\ UNCHANGED catalogQueue /\ AfterOffer(Unsent)
      BY <1>7 DEF WriterPut
    <3> QED BY <3>1, ResumeOfferable DEF Offerable
  <2>2. putting \in BatchIds /\ stage[putting] = "held"
    BY <1>1, <1>7 DEF WriterPut, ResumePut, TypeOK, QueueInv
  <2>3. st[putting] = "uploadQueue" /\ \A x \in BatchIds : x # putting => st[x] = stage[x]
    BY <1>3, <2>2
  <2> HIDE DEF st, base
  <2>4. \A x \in BatchIds : Rank(stage[x]) <= Rank(st[x])
    <3>1. Rank(stage[putting]) <= Rank(st[putting])
      BY <2>2, <2>3 DEF Rank
    <3> QED BY <1>3, <2>3, <3>1
  <2>5. Unsent \in SUBSET BatchIds /\ \A x \in Unsent : st[x] \in {"buffered", "popped"}
    BY <2>2, <2>3 DEF Unsent
  <2> QED BY <1>1, <1>2, <2>1, <2>4, <2>5, OfferFalls
<1> QED BY <1>4, <1>5, <1>6, <1>7 DEF HoldLock

LEMMA RaiseFalls ==
  ASSUME FiniteCrawl, TypeOK, TypeOK', WriterRaises \/ HookRaises
  PROVE  WorkLeft' < WorkLeft
<1>1. /\ UNCHANGED <<main, sent, stops, discovery, scopeQueue, crawling, offer, crawled, recordQueue,
                     crawlersUp, uploadersUp, catalogersUp>>
      /\ holding # <<>> /\ holding' = Tail(holding) /\ writersUp' = writersUp - 1
  BY DEF WriterRaises, HookRaises, LockHolder, Release, crawlVars, storeVars, uploadVars, catalogVars
<1>2. Len(holding') + 1 <= Len(holding) /\ Len(recordQueue') <= Len(recordQueue)
      /\ writersUp' <= writersUp
  BY <1>1, TailFacts DEF TypeOK
<1>3. CrawlSteps' <= CrawlSteps /\ CrawlSteps' + 1 <= CrawlSteps
  BY <1>1, <1>2, ItemsFall
<1>4. \A x \in BatchIds : Rank(stage[x]) <= Rank(stage'[x])
  <2>1. CASE WriterRaises
    <3>1. stage' = stage
      BY <2>1 DEF WriterRaises, storeVars, batchVars
    <3> QED BY <3>1, SameRanks
  <2>2. CASE HookRaises
    <3> DEFINE item == Head(holding)
               b == BufferOf(item.rec)
    <3>1. item \in [kind : {"record"}, scope : Scopes, rec : Records]
      BY <2>2 DEF HookRaises, LockHolder, TypeOK, Items
    <3>2. b \in BatchIds /\ stage[b] \in {"free", "buffered"}
      BY <2>2, <3>1, BufferFacts DEF HookRaises
    <3>3. PICK full \in BOOLEAN : stage' = [stage EXCEPT ![b] = IF full THEN "dropped" ELSE "buffered"]
      BY <2>2 DEF HookRaises
    <3> HIDE DEF b
    <3>4. stage'[b] \in {"dropped", "buffered"} /\ \A x \in BatchIds : x # b => stage'[x] = stage[x]
      BY <3>2, <3>3 DEF TypeOK
    <3>5. Rank(stage[b]) <= Rank(stage'[b]) /\ \A x \in BatchIds : Rank(stage[x]) \in Int
      BY <3>2, <3>4 DEF Rank
    <3> QED BY <3>4, <3>5
  <2> QED BY <2>1, <2>2
<1> QED BY <1>1, <1>2, <1>3, <1>4, StepFalls

(* Steps of the upload and catalog workers: a batch goes on, or a worker   *)
(* returns.                                                                *)
LEMMA WorkerFalls ==
  ASSUME FiniteCrawl, TypeOK, TypeOK',
         UNCHANGED <<main, sent, stops, discovery, scopeQueue, crawling, offer, crawled, recordQueue,
                     holding, crawlersUp, writersUp>>,
         uploadersUp' \subseteq uploadersUp, catalogersUp' \subseteq catalogersUp,
         \/ /\ stage' = stage
            /\ uploadersUp' # uploadersUp \/ catalogersUp' # catalogersUp
         \/ \E b \in BatchIds : /\ Rank(stage[b]) < Rank(stage'[b])
                                /\ \A x \in BatchIds : x # b => stage'[x] = stage[x]
  PROVE  WorkLeft' < WorkLeft
<1>1. Len(recordQueue) \in Nat /\ Len(holding) \in Nat /\ writersUp \in Nat
  BY DEF TypeOK
<1>2. CrawlSteps' <= CrawlSteps
  <2>1. Len(recordQueue') <= Len(recordQueue) /\ Len(holding') <= Len(holding)
    BY <1>1
  <2> QED BY <2>1, ItemsFall
<1>3. writersUp' <= writersUp
  BY <1>1
<1>4. CASE stage' = stage /\ (uploadersUp' # uploadersUp \/ catalogersUp' # catalogersUp)
  BY <1>2, <1>3, <1>4, SameRanks, StepFalls
<1>5. ASSUME NEW b \in BatchIds, Rank(stage[b]) < Rank(stage'[b]),
             \A x \in BatchIds : x # b => stage'[x] = stage[x]
      PROVE  WorkLeft' < WorkLeft
  <2>1. \A x \in BatchIds : Rank(stage[x]) \in Int /\ Rank(stage'[x]) \in Int
    BY DEF Rank
  <2>2. \A x \in BatchIds : Rank(stage[x]) <= Rank(stage'[x])
    BY <1>5, <2>1
  <2> QED BY <1>2, <1>3, <1>5, <2>2, StepFalls
<1> QED BY <1>4, <1>5

LEMMA UploaderFalls ==
  ASSUME FiniteCrawl, AccountingInv, TypeOK', NEW u \in Uploaders, UploadWorker(u) \/ UploadRaises(u)
  PROVE  WorkLeft' < WorkLeft
<1>1. TypeOK /\ QueueInv
  BY DEF AccountingInv
<1>2. /\ UNCHANGED <<main, sent, stops, discovery, scopeQueue, crawling, offer, crawled, recordQueue,
                     holding, crawlersUp, writersUp>>
      /\ uploadersUp' \subseteq uploadersUp /\ catalogersUp' \subseteq catalogersUp
  BY DEF UploadWorker, UploaderGet, UploaderSentinel, Upload, PutCatalogJob, UploadRaises, mainVars,
         crawlVars, writerVars, catalogVars, uploadVars
<1>3. CASE UploaderSentinel(u)
  <2>1. stage' = stage /\ uploadersUp' # uploadersUp
    BY <1>3 DEF UploaderSentinel, batchVars
  <2> QED BY <1>1, <1>2, <2>1, WorkerFalls
<1>4. ASSUME NEW b \in BatchIds, NEW place, stage' = [stage EXCEPT ![b] = place],
             Rank(stage[b]) < Rank(place)
      PROVE  WorkLeft' < WorkLeft
  <2>1. stage'[b] = place /\ \A x \in BatchIds : x # b => stage'[x] = stage[x]
    BY <1>1, <1>4 DEF TypeOK
  <2>2. Rank(stage[b]) < Rank(stage'[b])
    BY <1>4, <2>1
  <2> QED BY <1>1, <1>2, <2>1, <2>2, WorkerFalls
<1>5. CASE UploaderGet(u)
  <2>1. Head(uploadQueue) \in BatchIds /\ stage[Head(uploadQueue)] = "uploadQueue"
    <3>1. uploadQueue # <<>> /\ uploadQueue \in Seq(BatchIds)
      BY <1>1, <1>5 DEF UploaderGet, TypeOK
    <3>2. Head(uploadQueue) = uploadQueue[1] /\ 1 \in 1..Len(uploadQueue) /\ Head(uploadQueue) \in BatchIds
      BY <3>1, TailFacts
    <3> QED BY <1>1, <3>2 DEF QueueInv
  <2>2. \/ stage' = [stage EXCEPT ![Head(uploadQueue)] = "lost"]
        \/ stage' = [stage EXCEPT ![Head(uploadQueue)] = "uploading"]
    BY <1>5 DEF UploaderGet
  <2>3. Rank("uploadQueue") < Rank("lost") /\ Rank("uploadQueue") < Rank("uploading")
    BY DEF Rank
  <2> QED BY <1>4, <2>1, <2>2, <2>3
<1>6. CASE Upload(u) \/ UploadRaises(u)
  <2>1. uploading[u] \in BatchIds /\ stage[uploading[u]] = "uploading"
    BY <1>1, <1>6 DEF Upload, UploadRaises, TypeOK
  <2>2. \/ stage' = [stage EXCEPT ![uploading[u]] = "lost"]
        \/ stage' = [stage EXCEPT ![uploading[u]] = "uploaded"]
    BY <1>6 DEF Upload, UploadRaises
  <2>3. Rank("uploading") < Rank("lost") /\ Rank("uploading") < Rank("uploaded")
    BY DEF Rank
  <2> QED BY <1>4, <2>1, <2>2, <2>3
<1>7. CASE PutCatalogJob(u)
  <2>1. uploading[u] \in BatchIds /\ stage[uploading[u]] = "uploaded"
        /\ stage' = [stage EXCEPT ![uploading[u]] = "catalogQueue"]
    BY <1>1, <1>7 DEF PutCatalogJob, TypeOK
  <2>2. Rank("uploaded") < Rank("catalogQueue")
    BY DEF Rank
  <2> QED BY <1>4, <2>1, <2>2
<1> QED BY <1>3, <1>5, <1>6, <1>7 DEF UploadWorker

LEMMA CatalogerFalls ==
  ASSUME FiniteCrawl, AccountingInv, TypeOK', NEW k \in Catalogers,
         CatalogWorker(k) \/ CatalogRaises(k) \/ OrphanCommit(k)
  PROVE  WorkLeft' < WorkLeft
<1>1. TypeOK /\ QueueInv
  BY DEF AccountingInv
<1>2. /\ UNCHANGED <<main, sent, stops, discovery, scopeQueue, crawling, offer, crawled, recordQueue,
                     holding, crawlersUp, writersUp>>
      /\ uploadersUp' \subseteq uploadersUp /\ catalogersUp' \subseteq catalogersUp
  BY DEF CatalogWorker, CatalogerGet, CatalogerSentinel, CommitBatch, CompleteBatch, CatalogRaises,
         OrphanCommit, mainVars, crawlVars, writerVars, catalogVars, uploadVars
<1>3. CASE CatalogerSentinel(k)
  <2>1. stage' = stage /\ catalogersUp' # catalogersUp
    BY <1>3 DEF CatalogerSentinel, batchVars
  <2> QED BY <1>1, <1>2, <2>1, WorkerFalls
<1>4. ASSUME NEW b \in BatchIds, NEW place, stage' = [stage EXCEPT ![b] = place],
             Rank(stage[b]) < Rank(place)
      PROVE  WorkLeft' < WorkLeft
  <2>1. stage'[b] = place /\ \A x \in BatchIds : x # b => stage'[x] = stage[x]
    BY <1>1, <1>4 DEF TypeOK
  <2>2. Rank(stage[b]) < Rank(stage'[b])
    BY <1>4, <2>1
  <2> QED BY <1>1, <1>2, <2>1, <2>2, WorkerFalls
<1>5. CASE CatalogerGet(k)
  <2>1. Head(catalogQueue) \in BatchIds /\ stage[Head(catalogQueue)] = "catalogQueue"
    <3>1. catalogQueue # <<>> /\ catalogQueue \in Seq(BatchIds)
      BY <1>1, <1>5 DEF CatalogerGet, TypeOK
    <3>2. /\ Head(catalogQueue) = catalogQueue[1] /\ 1 \in 1..Len(catalogQueue)
          /\ Head(catalogQueue) \in BatchIds
      BY <3>1, TailFacts
    <3> QED BY <1>1, <3>2 DEF QueueInv
  <2>2. \/ stage' = [stage EXCEPT ![Head(catalogQueue)] = "lost"]
        \/ stage' = [stage EXCEPT ![Head(catalogQueue)] = "cataloging"]
    BY <1>5 DEF CatalogerGet
  <2>3. Rank("catalogQueue") < Rank("lost") /\ Rank("catalogQueue") < Rank("cataloging")
    BY DEF Rank
  <2> QED BY <1>4, <2>1, <2>2, <2>3
<1>6. CASE CommitBatch(k) \/ CatalogRaises(k) \/ OrphanCommit(k)
  <2>1. cataloging[k] \in BatchIds /\ stage[cataloging[k]] = "cataloging"
    BY <1>1, <1>6 DEF CommitBatch, CatalogRaises, OrphanCommit, TypeOK
  <2>2. \/ stage' = [stage EXCEPT ![cataloging[k]] = "lost"]
        \/ stage' = [stage EXCEPT ![cataloging[k]] = "committed"]
    BY <1>6 DEF CommitBatch, CatalogRaises, OrphanCommit
  <2>3. Rank("cataloging") < Rank("lost") /\ Rank("cataloging") < Rank("committed")
    BY DEF Rank
  <2> QED BY <1>4, <2>1, <2>2, <2>3
<1>7. CASE CompleteBatch(k)
  <2>1. cataloging[k] \in BatchIds /\ stage[cataloging[k]] = "committed"
        /\ stage' = [stage EXCEPT ![cataloging[k]] = "done"]
    BY <1>1, <1>7 DEF CompleteBatch, TypeOK
  <2>2. Rank("committed") < Rank("done")
    BY DEF Rank
  <2> QED BY <1>4, <2>1, <2>2
<1> QED BY <1>3, <1>5, <1>6, <1>7 DEF CatalogWorker

LEMMA FinalFlushFalls ==
  ASSUME FiniteCrawl, TypeOK, TypeOK', NEW b \in BatchIds, FinalFlush(b)
  PROVE  WorkLeft' < WorkLeft
<1>1. /\ UNCHANGED <<main, sent, stops, discovery, scopeQueue, crawling, offer, crawled, recordQueue,
                     holding, crawlersUp, writersUp, uploadersUp, catalogersUp>>
      /\ stage[b] = "buffered" /\ stage' = [stage EXCEPT ![b] = "done"]
  BY DEF FinalFlush, mainVars, crawlVars, writerVars, catalogVars, uploadVars
<1>2. stage'[b] = "done" /\ \A x \in BatchIds : x # b => stage'[x] = stage[x]
  BY <1>1 DEF TypeOK
<1>3. Rank(stage[b]) < Rank(stage'[b])
  BY <1>1, <1>2 DEF Rank
<1> QED BY <1>1, <1>2, <1>3, WorkerFalls

(* Steps of main: it goes on to a later stage, puts a sentinel, or has a   *)
(* batch put.                                                              *)
LEMMA MainMoves ==
  ASSUME TypeOK, TypeOK', SentinelsDue, Main
  PROVE  \/ MainSteps' <= MainSteps /\ MainSteps' + 1 <= MainSteps
         \/ MainPut /\ MainSteps' <= MainSteps /\ main' = "flushing"
<1>1. PICK w \in Nat, n \in Nat, k \in Nat : w = WriterCount /\ n = UploaderCount /\ k = CatalogerCount
  BY StageWorkers
<1>2. PICK p \in Nat, p1 \in Nat : p = sent /\ p1 = sent'
  BY DEF TypeOK
<1>3. MainSteps = MainLeft(main, p, w, n, k) /\ MainSteps' = MainLeft(main', p1, w, n, k)
  BY <1>1, <1>2 DEF MainSteps
<1>4. CASE CrawlOver \/ UploadOver \/ CatalogOver
  <2>1. \/ main = "crawling" /\ main' = "writerPills" /\ p1 = 0
        \/ main = "uploading" /\ main' = "catalogPills" /\ p1 = 0
        \/ main = "cataloging" /\ main' = "done"
    BY <1>2, <1>4 DEF CrawlOver, UploadOver, CatalogOver, StageOver
  <2> QED BY <1>3, <2>1 DEF MainLeft
<1>5. CASE PutSentinel
  <2>1. /\ p1 = p + 1
        /\ \/ main = "writerPills" /\ main' = IF p + 1 = w THEN "writing" ELSE main
           \/ main = "uploadPills" /\ main' = IF p + 1 = n THEN "uploading" ELSE main
           \/ main = "catalogPills" /\ main' = IF p + 1 = k THEN "cataloging" ELSE main
    BY <1>1, <1>2, <1>5 DEF PutSentinel, UploaderCount, CatalogerCount
  <2>2. /\ main = "writerPills" => p < w
        /\ main = "uploadPills" => p < n
        /\ main = "catalogPills" => p < k
    BY <1>1, <1>2 DEF SentinelsDue
  <2> QED BY <1>3, <2>1, <2>2 DEF MainLeft
<1>6. CASE FlushAll
  <2>1. main = "writing" /\ (main' = "flushing" \/ (main' = "uploadPills" /\ p1 = 0))
    BY <1>2, <1>6 DEF FlushAll, MainAfterOffer, StageOver
  <2> QED BY <1>3, <2>1 DEF MainLeft
<1>7. CASE MainPut
  <2>1. main = "flushing" /\ (main' = "flushing" \/ (main' = "uploadPills" /\ p1 = 0))
    BY <1>2, <1>7 DEF MainPut, MainAfterOffer
  <2> QED BY <1>3, <1>7, <2>1 DEF MainLeft
<1>8. CASE FailFast \/ MainPutRaises
  <2>1. /\ main \in {"crawling", "writing", "uploading", "cataloging", "flushing"}
        /\ main' \in {"raised", "aborted"}
    BY <1>8 DEF FailFast, MainPutRaises
  <2> QED BY <1>3, <2>1 DEF MainLeft
<1> QED BY <1>4, <1>5, <1>6, <1>7, <1>8 DEF Main

(* main's own loop over batches.                                           *)
LEMMA MainRises ==
  ASSUME AccountingInv, Main
  PROVE  /\ \A x \in BatchIds : Rank(stage[x]) <= Rank(stage'[x])
         /\ MainPut => \E x \in BatchIds : Rank(stage[x]) < Rank(stage'[x])
<1>1. TypeOK /\ QueueInv
  BY DEF AccountingInv
<1>2. /\ uploadQueue \in Seq(BatchIds) /\ Len(uploadQueue) <= UploadQueueSize
      /\ stage \in [BatchIds -> Stages] /\ \A x \in BatchIds : Rank(stage[x]) \in Int
  BY <1>1 DEF TypeOK, QueueInv, Rank
<1>3. CASE CrawlOver \/ PutSentinel \/ UploadOver \/ CatalogOver \/ FailFast
  <2>1. stage' = stage
    BY <1>3 DEF CrawlOver, PutSentinel, UploadOver, CatalogOver, FailFast, storeVars, batchVars
  <2>2. ~MainPut
    BY <1>3 DEF CrawlOver, PutSentinel, UploadOver, CatalogOver, FailFast, StageOver, MainPut
  <2> QED BY <2>1, <2>2, SameRanks
<1>4. CASE FlushAll
  <2>1. OfferBatches(Leftover, uploadQueue, stage) /\ Leftover \in SUBSET BatchIds
        /\ \A x \in Leftover : stage[x] \in {"buffered", "popped"}
    BY <1>4 DEF FlushAll, Leftover
  <2>2. \A x \in BatchIds : Rank(stage[x]) <= Rank(stage'[x])
    BY <1>2, <2>1, OfferRises
  <2>3. ~MainPut
    BY <1>4 DEF FlushAll, StageOver, MainPut
  <2> QED BY <2>2, <2>3
<1>5. CASE MainPut \/ MainPutRaises
  <2> DEFINE base == Append(uploadQueue, putting)
             st == [stage EXCEPT ![putting] = "uploadQueue"]
  <2>1. /\ OfferBatches(Unsent, base, st)
        /\ base \in Seq(BatchIds) /\ st \in [BatchIds -> Stages] /\ Len(base) <= UploadQueueSize
    <3>1. ResumePut /\ UNCHANGED catalogQueue
      BY <1>5 DEF MainPut, MainPutRaises, CancelTasks
    <3> QED BY <3>1, ResumeOfferable DEF Offerable
  <2>2. putting \in BatchIds /\ stage[putting] = "held"
    BY <1>1, <1>5 DEF MainPut, MainPutRaises, ResumePut, TypeOK, QueueInv
  <2>3. st[putting] = "uploadQueue" /\ \A x \in BatchIds : x # putting => st[x] = stage[x]
    BY <1>2, <2>2
  <2> HIDE DEF st, base
  <2>4. Unsent \in SUBSET BatchIds /\ \A x \in Unsent : st[x] \in {"buffered", "popped"}
    BY <2>2, <2>3 DEF Unsent
  <2>5. \A x \in BatchIds : Rank(st[x]) <= Rank(stage'[x])
    BY <2>1, <2>4, OfferRises
  <2>6. Rank(stage[putting]) < Rank(st[putting])
    BY <2>2, <2>3 DEF Rank
  <2>7. \A x \in BatchIds : Rank(st[x]) \in Int /\ Rank(stage'[x]) \in Int
    BY DEF Rank
  <2>8. Rank(stage[putting]) < Rank(stage'[putting])
    BY <1>2, <2>2, <2>5, <2>6, <2>7
  <2>9. \A x \in BatchIds : Rank(stage[x]) <= Rank(stage'[x])
    BY <1>2, <2>2, <2>3, <2>5, <2>7, <2>8
  <2> QED BY <2>2, <2>8, <2>9
<1> QED BY <1>3, <1>4, <1>5 DEF Main

LEMMA MainFalls ==
  ASSUME FiniteCrawl, AccountingInv, TypeOK', SentinelsDue, Main
  PROVE  WorkLeft' < WorkLeft
<1>1. TypeOK /\ writersUp \in Nat /\ stops \in Int /\ Len(holding) \in Nat
  BY DEF AccountingInv, TypeOK
<1>2. /\ UNCHANGED <<stops, discovery, scopeQueue, crawling, offer, crawled, recordQueue>>
      /\ crawlersUp' \subseteq crawlersUp /\ uploadersUp' \subseteq uploadersUp
      /\ catalogersUp' \subseteq catalogersUp /\ (writersUp' = writersUp \/ writersUp' = 0)
      /\ holding' = holding \/ holding' = <<>>
  BY DEF Main, CrawlOver, PutSentinel, FlushAll, MainPut, UploadOver, CatalogOver, FailFast, MainPutRaises,
         CancelTasks, crawlVars, writerVars, storeVars, uploadVars, catalogVars
<1>3. writersUp' <= writersUp /\ stops <= stops' /\ Len(holding') <= Len(holding)
      /\ Len(recordQueue') <= Len(recordQueue)
  BY <1>1, <1>2 DEF TypeOK
<1>4. CrawlSteps' <= CrawlSteps
  BY <1>1, <1>2, <1>3, ItemsFall
<1>5. /\ Cardinality(BatchSteps') <= Cardinality(BatchSteps)
      /\ MainPut => Cardinality(BatchSteps') + 1 <= Cardinality(BatchSteps)
  BY MainRises, RanksRise
<1>6. \/ MainSteps' <= MainSteps /\ MainSteps' + 1 <= MainSteps
      \/ MainPut /\ MainSteps' <= MainSteps
  BY <1>1, MainMoves
<1> QED BY <1>1, <1>2, <1>3, <1>4, <1>5, <1>6, WorkFalls

LEMMA ShutdownFalls ==
  ASSUME FiniteCrawl, TypeOK, TypeOK', RequestShutdown
  PROVE  WorkLeft' < WorkLeft
<1>1. /\ stops' = stops + 1
      /\ UNCHANGED <<main, sent, discovery, scopeQueue, crawling, offer, crawled, recordQueue, holding,
                     crawlersUp, writersUp, uploadersUp, catalogersUp, stage>>
  BY DEF RequestShutdown, crawlVars, writerVars, storeVars, batchVars, uploadVars, catalogVars
<1>2. stops + 1 <= stops' /\ stops <= stops' /\ writersUp' <= writersUp
      /\ Len(recordQueue') <= Len(recordQueue) /\ Len(holding') <= Len(holding)
  BY <1>1 DEF TypeOK
<1>3. CrawlSteps' <= CrawlSteps
  BY <1>1, <1>2, ItemsFall
<1>4. Cardinality(BatchSteps') <= Cardinality(BatchSteps)
  BY <1>1, SameRanks, RanksRise
<1>5. MainSteps' <= MainSteps
  <2>1. MainSteps' = MainSteps
    BY <1>1 DEF MainSteps
  <2> QED BY <2>1, MainTyped
<1> QED BY <1>1, <1>2, <1>3, <1>4, <1>5, WorkFalls

LEMMA NextFalls == ASSUME FiniteCrawl, WorkInv, AccountingInv', Next PROVE WorkLeft' < WorkLeft
<1>1. AccountingInv /\ TypeOK /\ TypeOK' /\ SentinelsDue /\ NoneQueuedEarly
  BY DEF WorkInv, AccountingInv
<1>2. CASE DiscoverRaises \/ \E plan \in SUBSET Resumable : Discover(plan)
  BY <1>1, <1>2, DiscoverFalls
<1>3. ASSUME NEW c \in Crawlers, Crawl(c) \/ CrawlRaises(c) PROVE WorkLeft' < WorkLeft
  <2>1. ASSUME NEW s \in Scopes, BeginScope(c, s) PROVE WorkLeft' < WorkLeft
    BY <1>1, <2>1, BeginFalls
  <2>2. ASSUME NEW r \in Records, CrawlRecord(c, r) PROVE WorkLeft' < WorkLeft
    BY <1>1, <2>2, RecordFalls
  <2>3. CASE EndScope(c)
    BY <1>1, <2>3, EndFalls
  <2>4. CASE PutItem(c)
    BY <1>1, <2>4, PutFalls
  <2>5. CASE CrawlerReturns(c) \/ CrawlRaises(c)
    BY <1>1, <2>5, ReturnFalls
  <2> QED BY <1>3, <2>1, <2>2, <2>3, <2>4, <2>5 DEF Crawl
<1>4. CASE WriterGet \/ WriterSentinel
  BY <1>1, <1>4, WriterFalls
<1>5. CASE HoldLock
  BY <1>1, <1>5, HolderFalls
<1>6. CASE WriterRaises \/ HookRaises
  BY <1>1, <1>6, RaiseFalls
<1>7. ASSUME NEW u \in Uploaders, UploadWorker(u) \/ UploadRaises(u) PROVE WorkLeft' < WorkLeft
  BY <1>1, <1>7, UploaderFalls
<1>8. ASSUME NEW k \in Catalogers, CatalogWorker(k) \/ CatalogRaises(k) \/ OrphanCommit(k)
      PROVE  WorkLeft' < WorkLeft
  BY <1>1, <1>8, CatalogerFalls
<1>9. ASSUME NEW b \in BatchIds, FinalFlush(b) PROVE WorkLeft' < WorkLeft
  BY <1>1, <1>9, FinalFlushFalls
<1>10. CASE Main
  BY <1>1, <1>10, MainFalls
<1>11. CASE RequestShutdown
  BY <1>1, <1>11, ShutdownFalls
<1> QED BY <1>2, <1>3, <1>4, <1>5, <1>6, <1>7, <1>8, <1>9, <1>10, <1>11, StepKinds
     DEF Resumed, HolderRaises, Unforced

LEMMA WorkTyped == ASSUME FiniteCrawl, WorkInv PROVE WorkLeft \in Nat
<1>1. TypeOK /\ SentinelsDue
  BY DEF WorkInv, AccountingInv
<1>2. CrawlSteps \in Nat /\ Cardinality(BatchSteps) \in Nat
  BY <1>1, CrawlTyped, BatchesTyped DEF CrawlCounted, BatchesCounted
<1>3. TaskSteps \in Nat
  <2>1. /\ Cardinality(crawlersUp) \in Nat /\ Cardinality(uploadersUp) \in Nat
        /\ Cardinality(catalogersUp) \in Nat /\ writersUp \in Nat
    BY <1>1, StepsTyped, FS_CardinalityType DEF TypeOK
  <2>2. ASSUME NEW c \in Nat, NEW w \in Nat, NEW n \in Nat, NEW k \in Nat PROVE TaskSum(c, w, n, k) \in Nat
    BY DEF TaskSum
  <2> QED BY <2>1, <2>2 DEF TaskSteps
<1>4. MainSteps \in Nat
  <2>1. PICK w \in Nat, n \in Nat, k \in Nat : w = WriterCount /\ n = UploaderCount /\ k = CatalogerCount
    BY StageWorkers
  <2>2. PICK p \in Nat : p = sent
    BY <1>1 DEF TypeOK
  <2>3. MainSteps = MainLeft(main, p, w, n, k)
    BY <2>1, <2>2 DEF MainSteps
  <2>4. /\ main = "writerPills" => p < w
        /\ main = "uploadPills" => p < n
        /\ main = "catalogPills" => p < k
    BY <1>1, <2>1, <2>2 DEF SentinelsDue
  <2> QED BY <2>3, <2>4 DEF MainLeft
<1>5. PICK c \in Nat, t \in Nat, b \in Nat, m \in Nat, n \in 0..2 :
        /\ c = CrawlSteps /\ t = TaskSteps /\ b = Cardinality(BatchSteps) /\ m = MainSteps /\ n = stops
  BY <1>1, <1>2, <1>3, <1>4 DEF TypeOK
<1>6. WorkLeft = WorkSum(c, t, b, m, n)
  BY <1>5 DEF WorkLeft
<1>7. WorkSum(c, t, b, m, n) \in Nat
  BY DEF WorkSum
<1> QED BY <1>6, <1>7

LEMMA WorkStep == WorkInv /\ [Next]_vars => WorkInv'
<1> SUFFICES ASSUME WorkInv, [Next]_vars PROVE WorkInv'
  OBVIOUS
<1>1. AccountingInv'
  BY AccountingStep DEF WorkInv
<1>2. NoneQueuedEarly'
  <2>1. /\ discovery' = "running" => discovery = "running" /\ (scopeQueue = {} => scopeQueue' = {})
    <3>1. CASE DiscoverRaises \/ \E plan \in SUBSET Resumable : Discover(plan)
      BY <3>1 DEF DiscoverRaises, Discover
    <3>2. ASSUME NEW c \in Crawlers, Crawl(c) \/ CrawlRaises(c)
          PROVE  UNCHANGED discovery /\ scopeQueue' \subseteq scopeQueue
      BY <3>2 DEF Crawl, BeginScope, CrawlRecord, EndScope, PutItem, CrawlerReturns, CrawlRaises
    <3>3. CASE UNCHANGED <<discovery, scopeQueue>>
      BY <3>3
    <3> QED BY <3>1, <3>2, <3>3, StepKinds
            DEF Resumed, HolderRaises, WriterGet, WriterSentinel, HoldLock, SkipRecord, UnchangedRecord, BufferRecord, FlushScope,
                WriterPut, UploadWorker, UploaderGet, UploaderSentinel, Upload, PutCatalogJob, CatalogWorker,
                CatalogerGet, CatalogerSentinel, CommitBatch, CompleteBatch, Main, CrawlOver, PutSentinel,
                FlushAll, MainPut, UploadOver, CatalogOver, FailFast, MainPutRaises, CancelTasks, Unforced,
                WriterRaises, HookRaises, RequestShutdown, UploadRaises, CatalogRaises, OrphanCommit,
                FinalFlush, crawlVars, vars
  <2> QED BY <2>1 DEF WorkInv, NoneQueuedEarly
<1>3. SentinelsDue'
  <2>1. CASE UNCHANGED <<main, sent>>
    BY <2>1 DEF WorkInv, SentinelsDue, UploaderCount, CatalogerCount
  <2>2. CASE Main
    <3>1. WriterCount \in Nat \ {0} /\ UploaderCount \in Nat \ {0} /\ CatalogerCount \in Nat \ {0}
          /\ sent \in Nat
      BY StageWorkers DEF WorkInv, AccountingInv, TypeOK
    <3>2. CASE PutSentinel
      BY <3>1, <3>2 DEF PutSentinel, WorkInv, SentinelsDue, UploaderCount, CatalogerCount
    <3>3. CASE ~PutSentinel
      <4>1. \/ main' \notin {"writerPills", "uploadPills", "catalogPills"}
            \/ sent' = 0
        BY <2>2, <3>3 DEF Main, CrawlOver, FlushAll, MainPut, MainAfterOffer, UploadOver, CatalogOver, FailFast,
                          MainPutRaises
      <4> QED BY <3>1, <4>1 DEF SentinelsDue, UploaderCount, CatalogerCount
    <3> QED BY <3>2, <3>3
  <2> QED BY <2>1, <2>2, StepKinds
          DEF Resumed, HolderRaises, Discover, Crawl, BeginScope, CrawlRecord, EndScope, PutItem, CrawlerReturns, WriterGet,
              WriterSentinel, HoldLock, SkipRecord, UnchangedRecord, BufferRecord, FlushScope, WriterPut,
              UploadWorker, UploaderGet, UploaderSentinel, Upload, PutCatalogJob, CatalogWorker,
              CatalogerGet, CatalogerSentinel, CommitBatch, CompleteBatch, Unforced, DiscoverRaises,
              WriterRaises, HookRaises, RequestShutdown, CrawlRaises, UploadRaises, CatalogRaises,
              OrphanCommit, FinalFlush, mainVars, vars
<1> QED BY <1>1, <1>2, <1>3 DEF WorkInv

WorkIsFinite == WorkLeft \in Nat
WorkGoesDown == [][WorkLeft' < WorkLeft]_vars

(* A run of finitely many scopes and records is finite, whatever fails and *)
(* whenever it is stopped: each step that is not a stutter lowers WorkLeft,*)
(* which is a natural number. Nothing is retried and no loop of the runtime*)
(* turns without an item, a batch or a sentinel to show for it; where a    *)
(* run comes to rest, RunNeverStuck says how.                              *)
THEOREM RunIsFinite == ASSUME FiniteCrawl PROVE Spec => []WorkIsFinite /\ WorkGoesDown
<1>1. Init => WorkInv
  <2>1. Init => AccountingInv
    BY InitAccounting
  <2> QED BY <2>1 DEF Init, WorkInv, SentinelsDue, NoneQueuedEarly
<1>2. WorkInv /\ [Next]_vars => WorkInv'
  BY WorkStep
<1>3. WorkInv => WorkIsFinite
  BY WorkTyped DEF WorkIsFinite
<1>4. WorkInv /\ WorkInv' /\ [Next]_vars => [WorkLeft' < WorkLeft]_vars
  BY NextFalls DEF WorkInv
<1> QED BY <1>1, <1>2, <1>3, <1>4, PTL DEF Spec, WorkGoesDown

=============================================================================
