-------------------------- MODULE MCConcurrentRuntime --------------------------
(* Small instances of ConcurrentRuntime: which records the scopes may yield *)
(* and the partitions that hold them.                                       *)
EXTENDS ConcurrentRuntime

CONSTANTS S, T, r1, r2, r3, r4, r5

(* S spans two partitions and shares one of them with T.                    *)
SharedRecords == S :> {r1, r2} @@ T :> {r3}
SharedPartitions == r1 :> "p1" @@ r2 :> "p2" @@ r3 :> "p2"

(* The records of S share a partition, those of T have one each.            *)
FiveRecords == S :> {r1, r2} @@ T :> {r3, r4, r5}
FivePartitions == r1 :> "p1" @@ r2 :> "p1" @@ r3 :> "p2" @@ r4 :> "p3" @@ r5 :> "p4"

(* One record of each scope, in one partition.                              *)
OneEach == S :> {r1} @@ T :> {r2}
OnePartition == r1 :> "p1" @@ r2 :> "p1"

(* The runs that show a defect take their executions from a prompt event    *)
(* loop: what a task can do without waiting for the site or for a thread,   *)
(* it does before the next answer or result arrives.  Nothing they show     *)
(* needs a task that is ready and is passed over.                           *)
ReadyTask ==
  \/ running = "taking" /\ WriterGet
  \/ running # "taking" /\ (HoldLock \/ HolderRaises)
  \/ /\ running = "none"
     /\ \/ WriterGet \/ WriterSentinel
        \/ \E u \in Uploaders : UploaderGet(u) \/ UploaderSentinel(u) \/ PutCatalogJob(u)
        \/ \E k \in Catalogers : CatalogerGet(k) \/ CatalogerSentinel(k) \/ CompleteBatch(k)
        \/ \E c \in Crawlers :
             PutItem(c) \/ CrawlerReturns(c) \/ \E s \in Scopes : BeginScope(c, s)
        \/ Main

Arrival ==
  \/ Discover(Resumable)
  \/ \E c \in Crawlers : EndScope(c) \/ \E r \in Records : CrawlRecord(c, r)
  \/ \E u \in Uploaders : Upload(u)
  \/ \E k \in Catalogers : CommitBatch(k)

PromptSpec == Init /\ [][IF ENABLED ReadyTask THEN ReadyTask ELSE Arrival]_vars

=============================================================================
