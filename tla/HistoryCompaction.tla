---------------------------- MODULE HistoryCompaction ----------------------------
(***************************************************************************)
(* The operator's scripts for the old forum posts: two rewrite version     *)
(* hashes in SeenStore, one compacts the active files into a local         *)
(* directory, one publishes that directory, two take the old files out of  *)
(* the active set, one repairs files left local.  They find their files by *)
(* fixed ids and check row counts, run in any order, and a crawler may     *)
(* store batches between any two of their steps.                           *)
(*                                                                         *)
(* A row is a record's uid and the version of its content, in the order of *)
(* crawled_at; its hash under the current normaliser is that version.      *)
(***************************************************************************)
EXTENDS Naturals, Sequences, FiniteSets, FiniteSetsExt

CONSTANTS
  OldPosts,
  PostPartitions, \* in the order of the published paths
  PartitionOf,    \* the partition of each record
  MaxPostVersion, \* bound: contents of a record
  OldIds, NewIds, \* OLD_IDS, NEW_IDS
  LocalId,        \* the old file the local uploader left
  Recrawled,      \* bound: the records a crawl finds again
  MaxCrawls,      \* bound: batches stored beside the scripts
  MaxAttempts     \* bound: compactions

ASSUME HistoryAssumption ==
  /\ IsFiniteSet(OldPosts) /\ OldPosts # {}
  /\ PostPartitions \subseteq Nat /\ IsFiniteSet(PostPartitions)
  /\ PartitionOf \in [OldPosts -> PostPartitions]
  /\ MaxPostVersion \in Nat \ {0} /\ MaxCrawls \in Nat /\ MaxAttempts \in Nat
  /\ Recrawled \subseteq OldPosts
  /\ LocalId \in OldIds /\ OldIds # {LocalId} /\ IsFiniteSet(OldIds)
  /\ OldIds = 1 .. Cardinality(OldIds)
  /\ NewIds = (Cardinality(OldIds) + 1) .. (Cardinality(OldIds) + Cardinality(NewIds))
  /\ Cardinality(NewIds) = Cardinality(PostPartitions)

VARIABLES
  catalog,     \* the dataset's rows of data_files; a row's id is its position
  seen,        \* SeenStore: the hash of each record, 0 when it has none
  uncommitted, \* rows a crawl has cataloged and not yet committed to SeenStore
  crawls,
  output,      \* the compaction's local directory
  attempt,     \* what makes its file names unique
  script,      \* the next step of the script that runs
  work,        \* the rows it has read
  todo         \* the files it has yet to write or publish

historyVars == <<catalog, seen, uncommitted, crawls, output, attempt, script, work, todo>>

PostVersions == 1 .. MaxPostVersion
Legacy == MaxPostVersion + 1   \* a hash of the normaliser before this one
HistoryRows == [uid : OldPosts, version : PostVersions]

(* A compacted file has the name of its attempt, another one has none.      *)
Names == (1 .. MaxAttempts) \X PostPartitions
NoName == <<0, 0>>

CatalogRow(rows, state, name) ==
  [rows |-> rows, storage |-> state, lifecycle |-> "active", name |-> name]

Ids == DOMAIN catalog
IdsActive == {i \in Ids : catalog[i].storage = "uploaded" /\ catalog[i].lifecycle = "active"}
RowsOf(S) == UNION {catalog[i].rows : i \in S}

TotalOf(counts) == FoldFunction(+, 0, counts)
RowCount(S) == TotalOf([i \in S |-> Cardinality(catalog[i].rows)])

LatestRows(rows) == {r \in rows : \A q \in rows : q.uid = r.uid => q.version <= r.version}
UidsOf(rows) == {r.uid : r \in rows}
Known == {u \in OldPosts : seen[u] # 0}

ExpectedRows == Cardinality(OldPosts)   \* EXPECTED_NEW_ROWS

(* What the retirement relies on: as many rows as expected, in files that   *)
(* hold a partition each or, a crawl's, one row, are those of every         *)
(* partition.                                                               *)
CountsTellApart ==
  \A held \in [NewIds -> {{}} \cup {{p} : p \in PostPartitions}] :
    TotalOf([i \in NewIds |-> IF held[i] = {} THEN 1
                              ELSE Cardinality({u \in OldPosts : PartitionOf[u] \in held[i]})])
      = ExpectedRows
    => UNION {held[i] : i \in NewIds} = PostPartitions

HistoryTypeOK ==
  /\ catalog \in Seq([rows : SUBSET HistoryRows, storage : {"local", "uploaded"},
                      lifecycle : {"active", "superseded"}, name : Names \cup {NoName}])
  /\ seen \in [OldPosts -> 0 .. Legacy]
  /\ uncommitted \subseteq HistoryRows /\ crawls \in 0 .. MaxCrawls
  /\ output \in [PostPartitions -> SUBSET HistoryRows] /\ attempt \in 0 .. MaxAttempts
  /\ script \in {"idle", "hashes", "gate", "write", "publish", "mark",
                 "retire", "commit", "migrate", "commit migration"}
  /\ work \subseteq HistoryRows /\ todo \subseteq PostPartitions

(* The old files: the local one is the oldest, the others hold every record.*)
HistoryInit ==
  /\ \E local \in SUBSET [uid : OldPosts, version : {1}], newer \in SUBSET Recrawled :
       catalog = [i \in OldIds |->
         IF i = LocalId THEN CatalogRow({r \in local : r.uid \in Recrawled}, "local", NoName)
         ELSE CatalogRow({[uid |-> u, version |-> IF u \in newer THEN MaxPostVersion ELSE 1] : u \in OldPosts},
                         "uploaded", NoName)]
  /\ seen \in {[u \in OldPosts |-> Legacy], [u \in OldPosts |-> 1]}
  /\ uncommitted = {} /\ crawls = 0
  /\ output = [p \in PostPartitions |-> {}] /\ attempt = 0
  /\ script = "idle" /\ work = {} /\ todo = {}

------------------------------------------------------------------------------
(* The crawler: SeenStore is asked, the batch is cataloged, then committed. *)

CrawlerStores(u, v) ==
  /\ crawls < MaxCrawls
  /\ seen[u] # v
  /\ \A r \in RowsOf(Ids) : r.uid = u => r.version <= v
  /\ crawls' = crawls + 1
  /\ catalog' = Append(catalog, CatalogRow({[uid |-> u, version |-> v]}, "uploaded", NoName))
  /\ uncommitted' = uncommitted \cup {[uid |-> u, version |-> v]}
  /\ UNCHANGED <<seen, output, attempt, script, work, todo>>

CrawlerCommits(r) ==
  /\ r \in uncommitted
  /\ seen' = [seen EXCEPT ![r.uid] = r.version]
  /\ uncommitted' = uncommitted \ {r}
  /\ UNCHANGED <<catalog, crawls, output, attempt, script, work, todo>>

------------------------------------------------------------------------------
(* A script reads, checks, and changes something some steps later.          *)

Goes(from, to) == script = from /\ script' = to

(* Whatever it refuses, raises or dies of, it has changed nothing since its *)
(* last step.                                                               *)
ScriptEnds ==
  /\ script # "idle"
  /\ script' = "idle" /\ work' = {} /\ todo' = {}
  /\ UNCHANGED <<catalog, seen, uncommitted, crawls, output, attempt>>

(* migrate_seen_forum_post_hashes: the latest active row of each record.    *)
ReadActiveHistory ==
  /\ Goes("idle", "hashes")
  /\ IdsActive # {}
  /\ work' = LatestRows(RowsOf(IdsActive))
  /\ UNCHANGED <<catalog, seen, uncommitted, crawls, output, attempt, todo>>

(* migrate_seen_forum_post_local_history: the rows of the local file.       *)
ReadLocalHistory ==
  /\ Goes("idle", "hashes")
  /\ UidsOf(catalog[LocalId].rows) \subseteq Known
  /\ work' = {r \in catalog[LocalId].rows : seen[r.uid] # r.version}
  /\ UNCHANGED <<catalog, seen, uncommitted, crawls, output, attempt, todo>>

WriteHashes ==
  /\ Goes("hashes", "idle")
  /\ seen' = [u \in OldPosts |->
       IF u \in Known \cap UidsOf(work) THEN (CHOOSE r \in work : r.uid = u).version ELSE seen[u]]
  /\ work' = {}
  /\ UNCHANGED <<catalog, uncommitted, crawls, output, attempt, todo>>

(* compact_naver_forum_post_history                                         *)
ReadSources ==
  /\ Goes("idle", "gate")
  /\ attempt < MaxAttempts
  /\ IdsActive # {}
  /\ attempt' = attempt + 1
  /\ output' = [p \in PostPartitions |-> {}]
  /\ work' = LatestRows(RowsOf(IdsActive))
  /\ UNCHANGED <<catalog, seen, uncommitted, crawls, todo>>

AgreeWithSeen(rows) == \A r \in rows : seen[r.uid] = r.version

SafetyGate ==
  /\ Goes("gate", "write")
  /\ UidsOf(work) = Known
  /\ AgreeWithSeen(work)
  /\ todo' = {PartitionOf[u] : u \in Known}
  /\ UNCHANGED <<catalog, seen, uncommitted, crawls, output, attempt, work>>

WriteClean ==
  /\ LET p == Min(todo) IN
       /\ Goes("write", IF todo = {p} THEN "idle" ELSE "write")
       /\ output' = [output EXCEPT ![p] = {r \in work : PartitionOf[r.uid] = p}]
       /\ todo' = todo \ {p}
       /\ work' = IF todo = {p} THEN {} ELSE work
  /\ UNCHANGED <<catalog, seen, uncommitted, crawls, attempt>>

(* publish_naver_forum_post_compaction                                      *)
Outputs == {p \in PostPartitions : output[p] # {}}
OutputRows == UNION {output[p] : p \in PostPartitions}

CheckOutput ==
  /\ Goes("idle", "publish")
  /\ Cardinality(Outputs) = Cardinality(NewIds)
  /\ Cardinality(OutputRows) = ExpectedRows
  /\ AgreeWithSeen(OutputRows)
  /\ todo' = Outputs
  /\ UNCHANGED <<catalog, seen, uncommitted, crawls, output, attempt, work>>

Path == <<attempt, Min(todo)>>
Published == {i \in Ids : catalog[i].name = Path}

(* The file has been uploaded and verified; a row it has already stays.     *)
RegisterOutput ==
  /\ Goes("publish", "mark")
  /\ catalog' = IF Published # {} THEN catalog
                ELSE Append(catalog, CatalogRow(output[Min(todo)], "local", Path))
  /\ UNCHANGED <<seen, uncommitted, crawls, output, attempt, work, todo>>

MarkOutput ==
  /\ Goes("mark", IF todo = {Min(todo)} THEN "idle" ELSE "publish")
  /\ catalog' = [i \in Ids |->
       IF i \in Published THEN [catalog[i] EXCEPT !.storage = "uploaded"] ELSE catalog[i]]
  /\ todo' = todo \ {Min(todo)}
  /\ UNCHANGED <<seen, uncommitted, crawls, output, attempt, work>>

(* retire_naver_forum_post_history: checks outside of the transaction,      *)
(* checks inside, commit.                                                   *)
(* Mutation: the rows are not counted.                                      *)
NewFilesThere ==
  /\ OldIds \cup NewIds \subseteq Ids
  /\ \A i \in NewIds : catalog[i].storage = "uploaded"

NewFilesFit ==
  /\ OldIds \cup NewIds \subseteq Ids
  /\ RowCount(NewIds) = ExpectedRows
  /\ \A i \in NewIds : catalog[i].storage = "uploaded"

CheckRetirement ==
  /\ Goes("idle", "retire")
  /\ NewFilesFit
  /\ \A i \in NewIds : catalog[i].name # NoName
  /\ UNCHANGED <<catalog, seen, uncommitted, crawls, output, attempt, work, todo>>

OldFilesFit == \A i \in OldIds : catalog[i].storage = IF i = LocalId THEN "local" ELSE "uploaded"
OnlyNewLeft == IdsActive \ OldIds = NewIds

VerifyRetirement ==
  /\ Goes("retire", "commit")
  /\ OldFilesFit /\ OnlyNewLeft
  /\ UNCHANGED <<catalog, seen, uncommitted, crawls, output, attempt, work, todo>>

Supersede(S) ==
  catalog' = [i \in Ids |-> IF i \in S THEN [catalog[i] EXCEPT !.lifecycle = "superseded"] ELSE catalog[i]]

CommitRetirement ==
  /\ Goes("commit", "idle")
  /\ Supersede(OldIds)
  /\ UNCHANGED <<seen, uncommitted, crawls, output, attempt, work, todo>>

(* migrate_data_files_lifecycle_status: sets the statuses of all ten files. *)
CheckMigration ==
  /\ Goes("idle", "migrate")
  /\ Ids = OldIds \cup NewIds
  /\ UNCHANGED <<catalog, seen, uncommitted, crawls, output, attempt, work, todo>>

VerifyMigration ==
  /\ Goes("migrate", "commit migration")
  /\ NewFilesFit /\ OldFilesFit
  /\ IdsActive \subseteq OldIds \cup NewIds
  /\ UNCHANGED <<catalog, seen, uncommitted, crawls, output, attempt, work, todo>>

CommitMigration ==
  /\ Goes("commit migration", "idle")
  /\ catalog' = [i \in Ids |->
       IF i \in OldIds THEN [catalog[i] EXCEPT !.lifecycle = "superseded"]
       ELSE IF i \in NewIds THEN [catalog[i] EXCEPT !.lifecycle = "active"]
       ELSE catalog[i]]
  /\ UNCHANGED <<seen, uncommitted, crawls, output, attempt, work, todo>>

(* repair_remote_catalog: of the local files only published ones are remote.*)
RepairRemote(i) ==
  /\ script = "idle"
  /\ catalog[i].storage = "local" /\ catalog[i].lifecycle = "active"
  /\ catalog[i].name # NoName
  /\ catalog' = [catalog EXCEPT ![i].storage = "uploaded"]
  /\ UNCHANGED <<seen, uncommitted, crawls, output, attempt, script, work, todo>>

------------------------------------------------------------------------------
HashScripts == ReadActiveHistory \/ ReadLocalHistory \/ WriteHashes
CompactScript == ReadSources \/ SafetyGate \/ (script = "write" /\ WriteClean)
PublishScript == CheckOutput \/ RegisterOutput \/ MarkOutput
RetireScripts ==
  \/ CheckRetirement \/ VerifyRetirement \/ CommitRetirement
  \/ CheckMigration \/ VerifyMigration \/ CommitMigration

HistoryNext ==
  \/ \E u \in Recrawled, v \in PostVersions : CrawlerStores(u, v)
  \/ \E r \in uncommitted : CrawlerCommits(r)
  \/ HashScripts \/ CompactScript \/ PublishScript \/ RetireScripts \/ ScriptEnds
  \/ \E i \in Ids : RepairRemote(i)

HistorySpec == HistoryInit /\ [][HistoryNext]_historyVars

------------------------------------------------------------------------------
(* Properties *)

(* Whatever the order of the scripts, wherever they stop and whatever a     *)
(* crawler stores meanwhile, a reader of the active files finds the newest  *)
(* row of every record: the retirement checks ids, counts and the active    *)
(* set, and that is enough as long as row counts tell the files apart.      *)
HistoryNewest == INSTANCE NewestRows
  WITH Partitions <- {1}, Uids <- OldPosts, Versions <- PostVersions,
       newest <- [p \in {1} |-> LatestRows(RowsOf(IdsActive))]
HistoryKeepsNewest == [][catalog' # catalog => HistoryNewest!Next]_catalog

(* A record whose hash in SeenStore is of the current normaliser is not     *)
(* stored again, so an active file has that version of it or a newer one:   *)
(* the scripts that rewrite hashes, and those that take files out of the    *)
(* active set, may never leave a hash without its row.                      *)
SeenIsActive ==
  \A u \in OldPosts : seen[u] \in PostVersions =>
    \E i \in Ids : /\ catalog[i].lifecycle = "active"
                   /\ \E r \in catalog[i].rows : r.uid = u /\ r.version >= seen[u]

=============================================================================
