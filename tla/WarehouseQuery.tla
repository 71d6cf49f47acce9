----------------------------- MODULE WarehouseQuery -----------------------------
(***************************************************************************)
(* A query of one dataset: dates of a time zone become instants, instants  *)
(* become partition dates, instruments become buckets of today's and of    *)
(* earlier layouts; the active files of those partitions are listed once   *)
(* and read one after the other, each filtered row by row, while crawls    *)
(* add files and compactions replace them.  The answer must not depend on  *)
(* which files were left out.                                              *)
(*                                                                         *)
(* Time is counted in half days, a month has two days and a year two       *)
(* months: every boundary of the calendar is met, leap days aside.         *)
(***************************************************************************)
EXTENDS Integers, FiniteSets, FiniteSetsExt

CONSTANTS
  Layouts,      \* the datasets' specifications
  QueryRows,    \* what a crawl may store
  Instruments,
  HashOf,       \* stable_bucket before the modulus
  Questions,    \* the queries: dates, offset of their time zone, instruments,
                \* columns and max_rows, 0 for none
  MaxQueryFiles \* bound: files of the dataset

(* A row's event may be missing (-1); crawled is always there.              *)
ASSUME QueryAssumption ==
  /\ \A l \in Layouts :
       /\ l.time \in {"event", "crawled"} /\ l.days \in Nat \ {0}
       /\ l.buckets \in Nat \ {0} /\ l.legacy \subseteq Nat \ {0}
       /\ l.relations \in BOOLEAN
  /\ \A r \in QueryRows :
       /\ r.event \in Nat \cup {-1} /\ r.crawled \in Nat
       /\ r.instrument \in Instruments /\ r.related \subseteq Instruments
  /\ \A q \in Questions :
       /\ q.instruments \subseteq Instruments
       /\ q.first \in Nat \cup {-1} /\ q.last \in Nat \cup {-1} /\ q.zone \in -1 .. 1
       /\ (q.first # -1 /\ q.last # -1) => q.first <= q.last
       /\ q.columns \subseteq {"instrument_id", "relations_json"} /\ q.limit \in Nat
  /\ HashOf \in [Instruments -> Nat] /\ MaxQueryFiles \in Nat

VARIABLES
  layout,    \* the dataset's specification
  files,     \* its data_files rows; a file is its position
  live,      \* those that are active
  question,  \* the query, in the spelling of QuerySpec
  reading,   \* where the reader is
  toRead,    \* the candidates it has yet to open
  answer,    \* the rows it has yielded, with their file
  listed     \* the active files when it listed them: for the properties

queryVars == <<layout, files, live, question, reading, toRead, answer, listed>>

NoDate == -1
Projected == {"instrument_id", "relations_json"}
FileIds == 1 .. MaxQueryFiles
QueryFiles == [rows : SUBSET QueryRows, date : Int, bucket : Nat]
NoFile == [rows |-> {}, date |-> 0, bucket |-> 0]
Used == {i \in FileIds : files[i].rows # {}}

NoQuestion ==
  [instruments |-> {}, first |-> NoDate, last |-> NoDate, zone |-> 0,
   columns |-> Projected, limit |-> 0]

QueryTypeOK ==
  /\ layout \in Layouts
  /\ files \in [FileIds -> QueryFiles] /\ live \subseteq Used
  /\ question \in Questions \cup {NoQuestion} /\ reading \in {"idle", "files", "done", "raised"}
  /\ toRead \subseteq listed /\ listed \subseteq Used
  /\ answer \subseteq listed \X QueryRows

QueryInit ==
  /\ layout \in Layouts
  /\ files = [i \in FileIds |-> NoFile] /\ live = {}
  /\ question = NoQuestion
  /\ reading = "idle" /\ toRead = {} /\ answer = {} /\ listed = {}

------------------------------------------------------------------------------
(* Partitions                                                               *)

DayOf(t) == t \div 2
FirstDay(d, days) == (d \div days) * days   \* of d's day, month or year

PartitionTime(r) == IF layout.time = "event" /\ r.event # -1 THEN r.event ELSE r.crawled
BucketOf(i, count) == HashOf[i] % count

(* A file of the current layout, or of one that had another bucket count and *)
(* daily partitions.                                                        *)
FileOf(r, count) ==
  [rows   |-> {r},
   date   |-> FirstDay(DayOf(PartitionTime(r)), IF count = layout.buckets THEN layout.days ELSE 1),
   bucket |-> BucketOf(r.instrument, count)]

NextFile == Cardinality(Used) + 1

StoreRow(r, count) ==
  /\ Cardinality(Used) < MaxQueryFiles
  /\ files' = [files EXCEPT ![NextFile] = FileOf(r, count)]
  /\ live' = live \cup {NextFile}
  /\ UNCHANGED <<layout, question, reading, toRead, answer, listed>>

CompactFiles(i, j) ==
  /\ i # j /\ {i, j} \subseteq live
  /\ files[i].date = files[j].date /\ files[i].bucket = files[j].bucket
  /\ Cardinality(Used) < MaxQueryFiles
  /\ files' = [files EXCEPT ![NextFile] = [files[i] EXCEPT !.rows = @ \cup files[j].rows]]
  /\ live' = (live \ {i, j}) \cup {NextFile}
  /\ UNCHANGED <<layout, question, reading, toRead, answer, listed>>

------------------------------------------------------------------------------
(* The query                                                                *)

Start(q) == 2 * q.first - q.zone
EndExclusive(q) == 2 * (q.last + 1) - q.zone
RelationFilter(q) == q.instruments # {} /\ layout.relations

HasRange(q) == q.first # NoDate /\ q.last # NoDate
FirstDate(q) == FirstDay(DayOf(Start(q)), layout.days)
LastDate(q) == DayOf(EndExclusive(q) - 1)

(* Mutation: files of an earlier bucket count are not looked for.           *)
BucketsOfToday(q) == {BucketOf(i, layout.buckets) : i \in q.instruments}

BucketsOf(q) ==
  {BucketOf(i, count) : i \in q.instruments, count \in {layout.buckets} \cup layout.legacy}

InRange(q, f) == HasRange(q) => f.date \in FirstDate(q) .. LastDate(q)
InBuckets(q, f) == (q.instruments # {} /\ ~RelationFilter(q)) => f.bucket \in BucketsOf(q)

Ask(q) ==
  /\ reading = "idle" /\ reading' = "files"
  /\ question' = q
  /\ listed' = live
  /\ toRead' = {i \in live : InRange(q, files[i]) /\ InBuckets(q, files[i])}
  /\ UNCHANGED <<layout, files, live, answer>>

(* The filter pushed down to the file: bounds on event_time, and the        *)
(* instrument unless relations count too.                                   *)
PassesScan(q, r) ==
  /\ q.first # NoDate => (r.event # -1 /\ r.event >= Start(q))
  /\ q.last # NoDate => (r.event # -1 /\ r.event < EndExclusive(q))
  /\ (q.instruments # {} /\ ~RelationFilter(q)) => r.instrument \in q.instruments

(* The relation filter sees the projected columns alone.                    *)
MatchesRelation(q, r) ==
  RelationFilter(q) =>
    \/ "instrument_id" \in q.columns /\ r.instrument \in q.instruments
    \/ "relations_json" \in q.columns /\ r.related \cap q.instruments # {}

RowsRead(q, f) == {r \in f.rows : PassesScan(q, r) /\ MatchesRelation(q, r)}

Room(q) == q.limit - Cardinality(answer)
Satisfied(q) == q.limit # 0 /\ Room(q) = 0

ReadFile ==
  /\ reading = "files" /\ toRead # {} /\ ~Satisfied(question)
  /\ LET i == Min(toRead)
         rows == RowsRead(question, files[i])
     IN \E yielded \in SUBSET rows :
          /\ Cardinality(yielded) = IF question.limit = 0 THEN Cardinality(rows)
                                    ELSE Min({Room(question), Cardinality(rows)})
          /\ answer' = answer \cup {<<i, r>> : r \in yielded}
          /\ toRead' = toRead \ {i}
  /\ UNCHANGED <<layout, files, live, question, reading, listed>>

EndQuery ==
  /\ reading = "files" /\ (toRead = {} \/ Satisfied(question))
  /\ reading' = "done" /\ toRead' = {}
  /\ UNCHANGED <<layout, files, live, question, answer, listed>>

(* The remote file cannot be copied, or is not of its size.                 *)
MaterializeRaises ==
  /\ reading = "files" /\ toRead # {}
  /\ reading' = "raised" /\ toRead' = {}
  /\ UNCHANGED <<layout, files, live, question, answer, listed>>

QueryNext ==
  \/ \E r \in QueryRows, count \in {layout.buckets} \cup layout.legacy : StoreRow(r, count)
  \/ \E i, j \in live : CompactFiles(i, j)
  \/ \E q \in Questions : Ask(q)
  \/ ReadFile \/ EndQuery \/ MaterializeRaises

QuerySpecification == QueryInit /\ [][QueryNext]_queryVars

------------------------------------------------------------------------------
(* What the arguments mean, without files: the instants of the dates named, *)
(* the row's own instrument or one it is related to.                        *)
Wanted(q, r) ==
  /\ (q.first # NoDate \/ q.last # NoDate) => r.event # -1
  /\ q.first # NoDate => r.event + q.zone >= 2 * q.first
  /\ q.last # NoDate => r.event + q.zone < 2 * (q.last + 1)
  /\ q.instruments # {} => \/ r.instrument \in q.instruments
                           \/ layout.relations /\ r.related \cap q.instruments # {}

Owed == UNION {{<<i, r>> : r \in {x \in files[i].rows : Wanted(question, x)}} : i \in listed}

(* The two ways to lose rows that are known: a range of dates on a dataset   *)
(* whose partitions go by another time than event_time, and a projection     *)
(* without the columns the relation filter looks at.                        *)
Answerable(q) ==
  /\ HasRange(q) => layout.time = "event"
  /\ RelationFilter(q) => q.columns = Projected

(* A query that ends has yielded what its arguments mean, of the files that  *)
(* were active when it listed them, or as much of it as it was limited to:   *)
(* no calendar or time zone boundary, earlier bucket count, related          *)
(* instrument or compaction in between loses or adds a row.                  *)
QueryAnswers ==
  reading = "done" /\ Answerable(question) =>
    /\ answer \subseteq Owed
    /\ Cardinality(answer) = IF question.limit = 0 THEN Cardinality(Owed)
                             ELSE Min({question.limit, Cardinality(Owed)})

=============================================================================
