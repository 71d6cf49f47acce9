------------------------------- MODULE Warehouse -------------------------------
(***************************************************************************)
(* The data_files catalog of one dataset and what changes it: the crawls   *)
(* that register and upload batch files, compact_active_dataset, which     *)
(* replaces the small files of a partition by one, and the operator's      *)
(* repairs.  Nothing prevents two processes from compacting one dataset at *)
(* a time, and a compaction may fail or crash between any two steps: a     *)
(* write, an upload, a database commit.                                    *)
(*                                                                         *)
(* A partition is a site/country/dataset/partition_date/bucket.  A row is  *)
(* a record's uid and the version_time deduplicate_table compares, here    *)
(* always crawled_at, which CanonicalRecord never leaves empty.  Remote    *)
(* files are never changed or deleted, so a file's rows are the file.      *)
(***************************************************************************)
EXTENDS Naturals, FiniteSets, FiniteSetsExt

CONSTANTS
  Partitions,     \* in the order of the plan's groups
  Uids,
  MaxVersion,     \* bound: distinct times of crawling
  Compactors,
  MinFileCount,   \* compaction_min_file_count
  MaxFiles,       \* bound: files ever written
  MaxBatches,     \* bound: batch files among them
  MaxCrashes,     \* bound: compactions that stop before their end
  MaxRepairs      \* bound: repeated registrations and commands of the operator

ASSUME WarehouseAssumption ==
  /\ Partitions \subseteq Nat /\ MaxVersion \in Nat
  /\ MinFileCount \in Nat \ {0}
  /\ MaxFiles \in Nat /\ MaxBatches \in Nat /\ MaxCrashes \in Nat /\ MaxRepairs \in Nat

VARIABLES
  made,       \* files written so far; a file is named by its number
  partition,  \* the partition of each file
  content,    \* its rows
  storage,    \* how far it has got: on disk, remote, or its storage_status
  lifecycle,  \* its lifecycle_status
  crawled,    \* the batch files of crawls among them
  pc,         \* the next step of each compactor
  plan,       \* the files of each partition it has yet to replace
  out,        \* its replacement in work
  crashes,
  repairs

fileVars == <<made, partition, content, storage, lifecycle>>
bounds == <<crawled, crashes, repairs>>
vars == <<fileVars, bounds, pc, plan, out>>

Files == 1 .. MaxFiles
Versions == 1 .. MaxVersion
Rows == [uid : Uids, version : Versions]

(* absent, then a local file, then a remote one, then a row of data_files.  *)
StorageStates == {"absent", "written", "remote", "local", "uploaded"}
LifecycleStates == {"active", "superseded", "archived"}
Steps == {"idle", "write", "upload", "register", "mark", "supersede"}

TypeOK ==
  /\ made \in 0 .. MaxFiles
  /\ partition \in [Files -> Partitions \cup {0}]
  /\ content \in [Files -> SUBSET Rows]
  /\ storage \in [Files -> StorageStates]
  /\ lifecycle \in [Files -> LifecycleStates]
  /\ crawled \subseteq Files /\ crashes \in Nat /\ repairs \in Nat
  /\ pc \in [Compactors -> Steps]
  /\ plan \in [Compactors -> [Partitions -> SUBSET Files]]
  /\ out \in [Compactors -> 0 .. MaxFiles]

Registered(f) == storage[f] \in {"local", "uploaded"}

(* list_active_data_files                                                   *)
IsActive(f) == storage[f] = "uploaded" /\ lifecycle[f] = "active"

ActiveFiles(p) == {f \in Files : partition[f] = p /\ IsActive(f)}

(* deduplicate_table: of each record the latest version.                    *)
Deduplicate(rows) ==
  {r \in rows : \A q \in rows : q.uid = r.uid => q.version <= r.version}

(* build_compaction_plan                                                    *)
CompactionPlan ==
  [p \in Partitions |->
     IF Cardinality(ActiveFiles(p)) >= MinFileCount THEN ActiveFiles(p) ELSE {}]

NoPlan == [p \in Partitions |-> {}]

Init ==
  /\ made = 0 /\ crawled = {} /\ crashes = 0 /\ repairs = 0
  /\ partition = [f \in Files |-> 0]
  /\ content = [f \in Files |-> {}]
  /\ storage = [f \in Files |-> "absent"]
  /\ lifecycle = [f \in Files |-> "active"]
  /\ pc = [c \in Compactors |-> "idle"]
  /\ plan = [c \in Compactors |-> NoPlan]
  /\ out = [c \in Compactors |-> 0]

------------------------------------------------------------------------------
(* The catalog's commits.                                                   *)

WriteFile(p, rows, state) ==
  /\ made < MaxFiles
  /\ made' = made + 1
  /\ partition' = [partition EXCEPT ![made + 1] = p]
  /\ content' = [content EXCEPT ![made + 1] = rows]
  /\ storage' = [storage EXCEPT ![made + 1] = state]
  /\ UNCHANGED lifecycle

(* Mutation: the upsert takes over the statuses of a new row.               *)
RegisterAfresh(f) ==
  /\ storage' = [storage EXCEPT ![f] = "local"]
  /\ lifecycle' = [lifecycle EXCEPT ![f] = "active"]

(* register_data_file keeps the statuses of a row that exists.              *)
Register(f) ==
  /\ storage' = [storage EXCEPT ![f] = IF Registered(f) THEN @ ELSE "local"]
  /\ lifecycle' = [lifecycle EXCEPT ![f] = IF Registered(f) THEN @ ELSE "active"]

MarkUploaded(f) ==
  /\ storage' = [storage EXCEPT ![f] = "uploaded"]
  /\ UNCHANGED lifecycle

(* Mutation: nothing is superseded.                                         *)
SupersedeNothing(f) == UNCHANGED <<storage, lifecycle>>

MarkSuperseded(f) ==
  /\ lifecycle' = [lifecycle EXCEPT ![f] = "superseded"]
  /\ UNCHANGED storage

------------------------------------------------------------------------------
(* A crawl registers the file of a batch it has uploaded, and recovery of   *)
(* its manifest may do so again at any later time; both go on to mark it.   *)

StoreBatch(p, rows) ==
  /\ Cardinality(crawled) < MaxBatches
  /\ crawled' = crawled \cup {made + 1}
  /\ WriteFile(p, rows, "local")
  /\ UNCHANGED <<crashes, repairs, pc, plan, out>>

FinishBatch(f) ==
  /\ f \in crawled
  /\ storage[f] = "local"
  /\ MarkUploaded(f)
  /\ UNCHANGED <<made, partition, content, bounds, pc, plan, out>>

RecoverBatch(f) ==
  /\ repairs < MaxRepairs
  /\ repairs' = repairs + 1
  /\ f \in crawled
  /\ Register(f)
  /\ UNCHANGED <<made, partition, content, crawled, crashes, pc, plan, out>>

------------------------------------------------------------------------------
(* compact_active_dataset                                                   *)

Undone(c) == {p \in Partitions : plan[c][p] # {}}
Group(c) == Min(Undone(c))

ListActive(c) ==
  /\ pc[c] = "idle"
  /\ CompactionPlan # NoPlan
  /\ plan' = [plan EXCEPT ![c] = CompactionPlan]
  /\ pc' = [pc EXCEPT ![c] = "write"]
  /\ UNCHANGED <<fileVars, bounds, out>>

(* write_compacted_group, up to the replacement's os.replace                *)
WriteReplacement(c) ==
  /\ pc[c] = "write" /\ Undone(c) # {}
  /\ WriteFile(Group(c), Deduplicate(UNION {content[f] : f \in plan[c][Group(c)]}), "written")
  /\ out' = [out EXCEPT ![c] = made + 1]
  /\ pc' = [pc EXCEPT ![c] = "upload"]
  /\ UNCHANGED <<bounds, plan>>

(* publish_compaction_result, one step for each of its effects              *)
UploadReplacement(c) ==
  /\ pc[c] = "upload"
  /\ storage' = [storage EXCEPT ![out[c]] = "remote"]
  /\ pc' = [pc EXCEPT ![c] = "register"]
  /\ UNCHANGED <<made, partition, content, lifecycle, bounds, plan, out>>

RegisterReplacement(c) ==
  /\ pc[c] = "register"
  /\ Register(out[c])
  /\ pc' = [pc EXCEPT ![c] = "mark"]
  /\ UNCHANGED <<made, partition, content, bounds, plan, out>>

MarkReplacement(c) ==
  /\ pc[c] = "mark"
  /\ MarkUploaded(out[c])
  /\ pc' = [pc EXCEPT ![c] = "supersede"]
  /\ UNCHANGED <<made, partition, content, bounds, plan, out>>

SupersedeSource(c) ==
  /\ pc[c] = "supersede"
  /\ LET p == partition[out[c]]
         f == Min(plan[c][p])
         done == plan[c][p] = {f}
     IN /\ MarkSuperseded(f)
        /\ plan' = [plan EXCEPT ![c][p] = @ \ {f}]
        /\ pc' = [pc EXCEPT ![c] = IF done THEN "write" ELSE @]
        /\ out' = [out EXCEPT ![c] = IF done THEN 0 ELSE @]
  /\ UNCHANGED <<made, partition, content, bounds>>

FinishRun(c) ==
  /\ pc[c] = "write" /\ Undone(c) = {}
  /\ pc' = [pc EXCEPT ![c] = "idle"]
  /\ UNCHANGED <<fileVars, bounds, plan, out>>

(* The process stops, or a read, a write, an upload or a commit raises.     *)
Abandon(c) ==
  /\ pc[c] # "idle"
  /\ crashes < MaxCrashes
  /\ crashes' = crashes + 1
  /\ pc' = [pc EXCEPT ![c] = "idle"]
  /\ plan' = [plan EXCEPT ![c] = NoPlan]
  /\ out' = [out EXCEPT ![c] = 0]
  /\ UNCHANGED <<fileVars, crawled, repairs>>

------------------------------------------------------------------------------
(* The operator.  Repair may mark a file that a compaction registered and   *)
(* then abandoned; mark_active undoes a supersession.  mark_archived takes  *)
(* any file: the operator of this module archives those retention decides   *)
(* to archive.  One who hides an active file hides its rows.                *)

RepairUploaded(f) ==
  /\ repairs < MaxRepairs
  /\ storage[f] = "local"
  /\ MarkUploaded(f)
  /\ repairs' = repairs + 1
  /\ UNCHANGED <<made, partition, content, crawled, crashes, pc, plan, out>>

(* evaluate_retention                                                       *)
RetentionArchives(f) == lifecycle[f] = "superseded"

(* Mutation: archiving is taken for deletion.                               *)
ArchiveDeletes(f) ==
  /\ repairs < MaxRepairs /\ RetentionArchives(f)
  /\ lifecycle' = [lifecycle EXCEPT ![f] = "deleted"]
  /\ repairs' = repairs + 1
  /\ UNCHANGED <<made, partition, content, storage, crawled, crashes, pc, plan, out>>

Archive(f) ==
  /\ repairs < MaxRepairs /\ RetentionArchives(f)
  /\ lifecycle' = [lifecycle EXCEPT ![f] = "archived"]
  /\ repairs' = repairs + 1
  /\ UNCHANGED <<made, partition, content, storage, crawled, crashes, pc, plan, out>>

Rollback(f) ==
  /\ repairs < MaxRepairs
  /\ lifecycle[f] # "active"
  /\ lifecycle' = [lifecycle EXCEPT ![f] = "active"]
  /\ repairs' = repairs + 1
  /\ UNCHANGED <<made, partition, content, storage, crawled, crashes, pc, plan, out>>

------------------------------------------------------------------------------
Compact(c) ==
  \/ ListActive(c) \/ WriteReplacement(c) \/ UploadReplacement(c)
  \/ RegisterReplacement(c) \/ MarkReplacement(c) \/ SupersedeSource(c) \/ FinishRun(c)

Next ==
  \/ \E p \in Partitions, rows \in SUBSET Rows \ {{}} : StoreBatch(p, rows)
  \/ \E f \in Files : 
       FinishBatch(f) \/ RecoverBatch(f) \/ RepairUploaded(f) \/ Archive(f) \/ Rollback(f)
  \/ \E c \in Compactors : Compact(c) \/ Abandon(c)

Spec == Init /\ [][Next]_vars

(* A crawl marks what it registered, in its process or in the recovery of   *)
(* the next one; every later crawl ends with a compaction.                  *)
Fairness ==
  /\ \A f \in Files : WF_vars(FinishBatch(f))
  /\ \A c \in Compactors : WF_vars(Compact(c))

FairSpec == Spec /\ Fairness

------------------------------------------------------------------------------
(* Properties *)

Covers(g, f) ==
  \A r \in content[f] : \E q \in content[g] : q.uid = r.uid /\ q.version >= r.version

(* Of every row that ever was in an uploaded file, a reader of the active   *)
(* files finds this version or a newer one, in the same partition, whatever *)
(* compactions do at the same time and wherever they stop                   *)
(* (publish_compaction_result uploads and marks the replacement before it   *)
(* supersedes its sources).                                                 *)
NoRowLost ==
  \A f \in Files : storage[f] = "uploaded" =>
    \A r \in content[f] : \E g \in ActiveFiles(partition[f]) :
      \E q \in content[g] : q.uid = r.uid /\ q.version >= r.version

(* A file that left the active set has a successor: written later, for the  *)
(* same partition, already uploaded, with all its records.  Following       *)
(* successors ends at an active file, which is why no row is lost.          *)
HasSuccessor ==
  \A f \in Files : lifecycle[f] # "active" =>
    \E g \in Files : /\ g > f /\ storage[g] = "uploaded"
                     /\ partition[g] = partition[f] /\ Covers(g, f)

(* What compactions in work know of files, which makes HasSuccessor         *)
(* inductive.                                                               *)
PlanInv ==
  \A c \in Compactors, p \in Partitions : \A f \in plan[c][p] :
    f <= made /\ partition[f] = p /\ storage[f] = "uploaded"

OutOk(c) ==
  /\ pc[c] \in {"upload", "register", "mark", "supersede"} <=> out[c] # 0
  /\ out[c] # 0 =>
       /\ out[c] <= made /\ partition[out[c]] \in Partitions
       /\ plan[c][partition[out[c]]] # {}
       /\ \A f \in plan[c][partition[out[c]]] : f < out[c] /\ Covers(out[c], f)
  /\ pc[c] = "upload" => storage[out[c]] = "written"
  /\ pc[c] = "register" => storage[out[c]] = "remote"
  /\ pc[c] = "mark" => Registered(out[c])
  /\ pc[c] = "supersede" => storage[out[c]] = "uploaded"

OutInv == \A c \in Compactors : OutOk(c)

OwnOut == \A c, d \in Compactors : out[c] # 0 /\ out[c] = out[d] => c = d

FileInv ==
  \A f \in Files :
    /\ f > made => storage[f] = "absent" /\ f \notin crawled
    /\ f <= made => partition[f] \in Partitions
    /\ f \in crawled => Registered(f)
    /\ lifecycle[f] # "active" => storage[f] = "uploaded"

IInv == TypeOK /\ FileInv /\ PlanInv /\ OutInv /\ OwnOut /\ HasSuccessor

(* The warehouse keeps, of every record and partition, the newest row:      *)
(* compaction, its crashes and the operator change nothing a reader that    *)
(* wants the newest rows could notice.                                      *)
Readable(p) == UNION {content[f] : f \in ActiveFiles(p)}

Newest == INSTANCE NewestRows WITH newest <- [p \in Partitions |-> Deduplicate(Readable(p))]
KeepsNewest == Newest!Spec

(* Once crawls and crashes are over, repeated compactions by one process    *)
(* leave every partition with fewer files than a compaction asks for.       *)
Converges == <>[](\A p \in Partitions : Cardinality(ActiveFiles(p)) < MinFileCount)

=============================================================================
