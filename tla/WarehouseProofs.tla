--------------------------- MODULE WarehouseProofs ---------------------------
(***************************************************************************)
(* Proofs about Warehouse, for any number of files, partitions, versions   *)
(* and compactions at a time.  The inductive invariant is IInv: a file out *)
(* of the active set has a later, uploaded successor with all its records. *)
(* NoRowLost follows because the last uploaded file that still holds a     *)
(* record can have no successor, and so is active.  The refinement follows *)
(* from NoRowLost: the newest rows of the active files are the newest rows *)
(* of all files ever uploaded, and only an upload adds to these.  The      *)
(* second part is about HistoryCompaction: a published file holds a row no *)
(* older than the old files' of each record of its partition, so new files *)
(* that pass the row count make the old ones superfluous.  The last is     *)
(* about WarehouseQuery: no file that is left out holds a row a query      *)
(* wants, and reading the others one by one adds up to the answer.         *)
(***************************************************************************)
EXTENDS Warehouse, WarehouseQuery, HistoryCompaction, FiniteSetTheorems, TLAPS

USE WarehouseAssumption

------------------------------------------------------------------------------
(* Sets of numbers *)

(* A nonempty set of naturals has a least element.                          *)
LEMMA LeastExists ==
  ASSUME NEW T \in SUBSET Nat, T # {}
  PROVE  \E x \in T : \A y \in T : x <= y
<1>1. IsWellFoundedOn(OpToRel(<, Nat), Nat)
  BY NatLessThanWellFounded
<1>2. PICK x \in T : \A y \in T : ~ (<<y, x>> \in OpToRel(<, Nat))
  BY <1>1, WFMin
<1>3. \A y \in T : <<y, x>> \in OpToRel(<, Nat) <=> y < x
  BY DEF OpToRel
<1>4. ASSUME NEW y \in T PROVE x <= y
  <2>1. ~ (y < x)
    BY <1>2, <1>3, Zenon
  <2>2. x \in Nat /\ y \in Nat
    OBVIOUS
  <2> QED BY <2>1, <2>2
<1> QED BY <1>4

LEMMA MinIsElement ==
  ASSUME NEW T \in SUBSET Nat, T # {}
  PROVE  Min(T) \in T
BY LeastExists DEF Min

(* A nonempty set of naturals below a bound has a greatest element.         *)
LEMMA GreatestExists ==
  ASSUME NEW N \in Nat, NEW S \in SUBSET (0 .. N), S # {}
  PROVE  \E x \in S : \A y \in S : y <= x
<1> DEFINE T == {n \in Nat : N - n \in S}
<1>1. T \in SUBSET Nat /\ T # {}
  <2>1. PICK s \in S : TRUE
    OBVIOUS
  <2>2. N - s \in Nat /\ N - (N - s) = s
    BY <2>1
  <2> QED BY <2>1, <2>2
<1>2. PICK m \in T : \A n \in T : m <= n
  BY <1>1, LeastExists
<1>3. ASSUME NEW y \in S PROVE y <= N - m
  <2>1. N - y \in Nat /\ N - (N - y) = y
    OBVIOUS
  <2>2. m <= N - y
    BY <1>2, <2>1
  <2> QED BY <2>2, <1>2
<1> QED BY <1>2, <1>3

------------------------------------------------------------------------------
(* Sets of rows *)

HasAtLeast(rows, r) == \E q \in rows : q.uid = r.uid /\ q.version >= r.version

LEMMA RowFields ==
  ASSUME NEW r \in Rows
  PROVE  r.uid \in Uids /\ r.version \in 1 .. MaxVersion /\ r.version \in Nat
         /\ r = [uid |-> r.uid, version |-> r.version]
BY DEF Rows, Versions

LEMMA RowsEqual ==
  ASSUME NEW r \in Rows, NEW q \in Rows, r.uid = q.uid, r.version = q.version
  PROVE  r = q
BY RowFields

(* deduplicate_table drops rows, but keeps one at least as new of each      *)
(* record.                                                                  *)
LEMMA DeduplicateKeeps ==
  ASSUME NEW rows \in SUBSET Rows, NEW r \in rows
  PROVE  HasAtLeast(Deduplicate(rows), r)
<1> DEFINE S == {n \in 0 .. MaxVersion : \E q \in rows : q.uid = r.uid /\ q.version = n}
<1>1. S \in SUBSET (0 .. MaxVersion) /\ S # {} /\ r.version \in S
  <2>1. r.version \in 0 .. MaxVersion
    BY RowFields
  <2> QED BY <2>1
<1>2. PICK m \in S : \A n \in S : n <= m
  BY <1>1, GreatestExists
<1>3. PICK q \in rows : q.uid = r.uid /\ q.version = m
  BY <1>2
<1>4. ASSUME NEW o \in rows, o.uid = q.uid PROVE o.version <= q.version
  <2>1. o.version \in S
    BY RowFields, <1>3, <1>4
  <2> QED BY <2>1, <1>2, <1>3
<1>5. q \in Deduplicate(rows)
  BY <1>4, RowFields DEF Deduplicate
<1>6. q.version >= r.version
  BY <1>1, <1>2, <1>3, RowFields
<1> QED BY <1>3, <1>5, <1>6 DEF HasAtLeast

(* Rows that cover each other have the same newest rows.                    *)
LEMMA SameNewest ==
  ASSUME NEW A \in SUBSET Rows, NEW B \in SUBSET Rows,
         \A r \in A : HasAtLeast(B, r), \A r \in B : HasAtLeast(A, r)
  PROVE  Deduplicate(A) \subseteq Deduplicate(B)
<1> SUFFICES ASSUME NEW r \in Deduplicate(A) PROVE r \in Deduplicate(B)
  OBVIOUS
<1>1. r \in A /\ r \in Rows /\ \A q \in A : q.uid = r.uid => q.version <= r.version
  BY DEF Deduplicate
<1>2. PICK b \in B : b.uid = r.uid /\ b.version >= r.version
  BY <1>1 DEF HasAtLeast
<1>3. ASSUME NEW q \in B, q.uid = r.uid PROVE q.version <= r.version
  <2>1. PICK a \in A : a.uid = q.uid /\ a.version >= q.version
    BY DEF HasAtLeast
  <2>2. a.version <= r.version
    BY <1>1, <1>3, <2>1
  <2>3. a.version \in Nat /\ q.version \in Nat /\ r.version \in Nat
    BY <1>1, RowFields
  <2> QED BY <2>1, <2>2, <2>3
<1>4. b.version = r.version
  BY <1>1, <1>2, <1>3, RowFields
<1>5. b = r
  BY <1>1, <1>2, <1>4, RowsEqual
<1> QED BY <1>1, <1>2, <1>3, <1>5 DEF Deduplicate

LEMMA NewestOfUnion ==
  ASSUME NEW A \in SUBSET Rows, NEW B \in SUBSET Rows
  PROVE  Deduplicate(Deduplicate(A) \cup B) = Deduplicate(A \cup B)
<1> DEFINE X == Deduplicate(A) \cup B
           Y == A \cup B
<1>1. X \in SUBSET Rows /\ Y \in SUBSET Rows /\ X \subseteq Y
  BY DEF Deduplicate
<1>2. ASSUME NEW r \in X PROVE HasAtLeast(Y, r)
  BY <1>1, RowFields DEF HasAtLeast
<1>3. ASSUME NEW r \in Y PROVE HasAtLeast(X, r)
  <2>1. CASE r \in B
    BY <2>1, RowFields DEF HasAtLeast
  <2>2. CASE r \in A
    BY <2>2, DeduplicateKeeps DEF HasAtLeast
  <2> QED BY <2>1, <2>2
<1> HIDE DEF X, Y
<1>4. Deduplicate(X) \subseteq Deduplicate(Y) /\ Deduplicate(Y) \subseteq Deduplicate(X)
  BY <1>1, <1>2, <1>3, SameNewest
<1>5. Deduplicate(X) = Deduplicate(Y)
  BY <1>4
<1> QED BY <1>5 DEF X, Y

------------------------------------------------------------------------------
(* The invariant *)

LEMMA InitInv == Init => IInv
<1> SUFFICES ASSUME Init PROVE IInv
  OBVIOUS
<1>1. TypeOK
  BY DEF Init, TypeOK, Files, Steps, StorageStates, LifecycleStates, NoPlan
<1>2. FileInv /\ PlanInv /\ OutInv /\ OwnOut /\ HasSuccessor
  BY DEF Init, FileInv, PlanInv, OutInv, OutOk, OwnOut, HasSuccessor, Files, NoPlan
<1> QED BY <1>1, <1>2 DEF IInv

(* An old file keeps its rows, and what a file covers depends on nothing    *)
(* else.                                                                    *)
LEMMA CoversOld ==
  ASSUME NEW f, NEW g, content'[f] = content[f], content'[g] = content[g], Covers(g, f)
  PROVE  Covers(g, f)'
BY DEF Covers

(* A replacement covers every file it was written from.                     *)
LEMMA ReplacementCovers ==
  ASSUME NEW S \in SUBSET Files, content \in [Files -> SUBSET Rows],
         NEW f \in S, NEW r \in content[f]
  PROVE  HasAtLeast(Deduplicate(UNION {content[g] : g \in S}), r)
<1> DEFINE U == UNION {content[g] : g \in S}
<1>1. U \in SUBSET Rows /\ r \in U
  OBVIOUS
<1> HIDE DEF U
<1>2. HasAtLeast(Deduplicate(U), r)
  BY <1>1, DeduplicateKeeps
<1> QED BY <1>2 DEF U

(* Writing a file, with any rows, for any partition.                        *)
LEMMA WriteFileInv ==
  ASSUME IInv, NEW p \in Partitions, NEW rows \in SUBSET Rows,
         NEW state \in {"written", "local"}, WriteFile(p, rows, state)
  PROVE  /\ made + 1 \in Files /\ made' = made + 1 /\ made' \in 0 .. MaxFiles
         /\ partition' \in [Files -> Partitions \cup {0}]
         /\ content' \in [Files -> SUBSET Rows]
         /\ storage' \in [Files -> StorageStates]
         /\ lifecycle' = lifecycle
         /\ partition'[made + 1] = p /\ content'[made + 1] = rows
         /\ storage'[made + 1] = state
         /\ \A f \in Files : f <= made =>
              /\ partition'[f] = partition[f] /\ content'[f] = content[f]
              /\ storage'[f] = storage[f]
         /\ \A f \in Files : f > made + 1 => storage'[f] = storage[f]
         /\ HasSuccessor'
<1>1. made + 1 \in Files /\ made' = made + 1 /\ made' \in 0 .. MaxFiles
  BY DEF IInv, TypeOK, WriteFile, Files
<1>2. /\ partition' \in [Files -> Partitions \cup {0}]
      /\ content' \in [Files -> SUBSET Rows]
      /\ storage' \in [Files -> StorageStates]
      /\ lifecycle' = lifecycle
      /\ partition'[made + 1] = p /\ content'[made + 1] = rows
      /\ storage'[made + 1] = state
  BY <1>1 DEF IInv, TypeOK, WriteFile, StorageStates
<1>3. \A f \in Files : f # made + 1 =>
        /\ partition'[f] = partition[f] /\ content'[f] = content[f]
        /\ storage'[f] = storage[f]
  BY DEF IInv, TypeOK, WriteFile
<1>4. \A f \in Files : f # made + 1 <=> f <= made \/ f > made + 1
  BY DEF IInv, TypeOK, Files
<1>5. HasSuccessor'
  <2> SUFFICES ASSUME NEW f \in Files, lifecycle[f] # "active"
               PROVE  \E g \in Files : /\ g > f /\ storage'[g] = "uploaded"
                                       /\ partition'[g] = partition'[f] /\ Covers(g, f)'
    BY <1>2 DEF HasSuccessor
  <2>1. PICK g \in Files : /\ g > f /\ storage[g] = "uploaded"
                          /\ partition[g] = partition[f] /\ Covers(g, f)
    BY DEF IInv, HasSuccessor
  <2>2. storage[f] = "uploaded"
    BY DEF IInv, FileInv
  <2>3. f # made + 1 /\ g # made + 1
    BY <2>1, <2>2, <1>1 DEF IInv, FileInv, TypeOK
  <2>4. Covers(g, f)'
    BY <2>1, <2>3, <1>3, CoversOld
  <2> QED BY <2>1, <2>3, <2>4, <1>3
<1>6. \A f \in Files : f <= made \/ f > made + 1 =>
        /\ partition'[f] = partition[f] /\ content'[f] = content[f]
        /\ storage'[f] = storage[f]
  BY <1>3, <1>4
<1> QED BY <1>1, <1>2, <1>5, <1>6

(* What a compaction with a replacement in work knows.                      *)
LEMMA OutFacts ==
  ASSUME IInv, NEW c \in Compactors, out[c] # 0
  PROVE  /\ made \in Nat /\ out[c] \in Files /\ out[c] <= made
         /\ partition[out[c]] \in Partitions
         /\ plan[c][partition[out[c]]] # {}
         /\ \A f \in plan[c][partition[out[c]]] :
              /\ f \in Files /\ f <= made /\ f < out[c] /\ Covers(out[c], f)
              /\ partition[f] = partition[out[c]] /\ storage[f] = "uploaded"
<1>1. made \in Nat /\ out[c] \in 0 .. MaxFiles /\ plan[c] \in [Partitions -> SUBSET Files]
  BY DEF IInv, TypeOK
<1>2. /\ out[c] <= made /\ partition[out[c]] \in Partitions
      /\ plan[c][partition[out[c]]] # {}
      /\ \A f \in plan[c][partition[out[c]]] : f < out[c] /\ Covers(out[c], f)
  BY DEF IInv, OutInv, OutOk
<1>3. out[c] \in Files
  BY <1>1 DEF Files
<1>4. ASSUME NEW f \in plan[c][partition[out[c]]]
      PROVE  f \in Files /\ f <= made /\ partition[f] = partition[out[c]]
             /\ storage[f] = "uploaded"
  <2>1. \A p \in Partitions : \A g \in plan[c][p] :
          g <= made /\ partition[g] = p /\ storage[g] = "uploaded"
    BY DEF IInv, PlanInv
  <2>2. plan[c][partition[out[c]]] \in SUBSET Files
    BY <1>1, <1>2
  <2> QED BY <2>1, <2>2, <1>2
<1> QED BY <1>1, <1>2, <1>3, <1>4

(* A compaction that does not step keeps its part of the invariant, as long *)
(* as its replacement gets no further than from registered to uploaded.     *)
LEMMA OutKept ==
  ASSUME IInv, NEW c \in Compactors, made' \in Nat, made <= made',
         pc'[c] = pc[c], plan'[c] = plan[c], out'[c] = out[c],
         \A f \in Files : f <= made =>
           partition'[f] = partition[f] /\ content'[f] = content[f],
         out[c] # 0 => \/ storage'[out[c]] = storage[out[c]]
                       \/ storage[out[c]] = "local" /\ storage'[out[c]] = "uploaded"
  PROVE  OutOk(c)'
<1>0. PICK o : o = out[c]
  OBVIOUS
<1>1. /\ pc[c] \in {"upload", "register", "mark", "supersede"} <=> o # 0
      /\ pc[c] = "upload" => storage[o] = "written"
      /\ pc[c] = "register" => storage[o] = "remote"
      /\ pc[c] = "mark" => storage[o] \in {"local", "uploaded"}
      /\ pc[c] = "supersede" => storage[o] = "uploaded"
  BY <1>0 DEF IInv, OutInv, OutOk, Registered
<1>2. CASE o = 0
  BY <1>0, <1>1, <1>2 DEF OutOk
<1>3. CASE o # 0
  <2>1. /\ o \in Files /\ o <= made /\ partition[o] \in Partitions /\ made \in Nat
        /\ plan[c][partition[o]] # {}
        /\ \A f \in plan[c][partition[o]] :
             f \in Files /\ f <= made /\ f < o /\ Covers(o, f)
    BY <1>0, <1>3, OutFacts
  <2>2. partition'[o] = partition[o] /\ content'[o] = content[o] /\ o <= made'
    BY <2>1 DEF Files
  <2>3. ASSUME NEW f \in plan[c][partition[o]]
        PROVE  f < o /\ Covers(o, f)'
    BY <2>1, <2>2, CoversOld
  <2>4. /\ pc[c] = "upload" => storage'[o] = "written"
        /\ pc[c] = "register" => storage'[o] = "remote"
        /\ pc[c] = "mark" => storage'[o] \in {"local", "uploaded"}
        /\ pc[c] = "supersede" => storage'[o] = "uploaded"
    BY <1>0, <1>1, <1>3
  <2>5. /\ o <= made' /\ partition'[o] \in Partitions
        /\ plan'[c][partition'[o]] # {}
        /\ \A f \in plan'[c][partition'[o]] : f < o /\ Covers(o, f)'
    BY <2>1, <2>2, <2>3
  <2>6. out'[c] = o
    BY <1>0
  <2> QED BY <1>1, <1>3, <2>4, <2>5, <2>6 DEF OutOk, Registered
<1> QED BY <1>2, <1>3

(* Facts about files that no step of a compaction is needed for.            *)
LEMMA FileFacts ==
  ASSUME IInv
  PROVE  /\ made \in Nat /\ storage \in [Files -> StorageStates]
         /\ lifecycle \in [Files -> LifecycleStates] /\ Files \subseteq Nat
         /\ \A f \in Files : storage[f] # "absent" => f <= made
         /\ \A f \in Files : lifecycle[f] # "active" => storage[f] = "uploaded"
BY DEF IInv, TypeOK, FileInv, Files

LEMMA StoreBatchInv ==
  ASSUME IInv, NEW p \in Partitions, NEW rows \in SUBSET Rows, StoreBatch(p, rows)
  PROVE  IInv'
<1>1. /\ WriteFile(p, rows, "local") /\ crawled' = crawled \cup {made + 1}
      /\ UNCHANGED <<crashes, repairs, pc, plan, out>>
  BY DEF StoreBatch
<1> DEFINE new == made + 1
<1>2. /\ new \in Files /\ made' = new /\ made' \in 0 .. MaxFiles
      /\ partition' \in [Files -> Partitions \cup {0}]
      /\ content' \in [Files -> SUBSET Rows]
      /\ storage' \in [Files -> StorageStates]
      /\ lifecycle' = lifecycle
      /\ partition'[new] = p /\ storage'[new] = "local"
      /\ \A f \in Files : f <= made =>
           /\ partition'[f] = partition[f] /\ content'[f] = content[f]
           /\ storage'[f] = storage[f]
      /\ \A f \in Files : f > new => storage'[f] = storage[f]
      /\ HasSuccessor'
  BY <1>1, WriteFileInv
<1> HIDE DEF new
<1>3. made \in Nat /\ new = made + 1
  BY DEF IInv, TypeOK, new
<1>4. TypeOK'
  BY <1>1, <1>2 DEF IInv, TypeOK, new
<1>5. FileInv'
  <2>1. \A f \in Files : f < new \/ f = new \/ f > new
    BY <1>2 DEF Files
  <2> QED BY <1>1, <1>2, <1>3, <2>1 DEF IInv, FileInv, Registered, Files
<1>6. PlanInv'
  BY <1>1, <1>2, <1>3 DEF IInv, TypeOK, PlanInv, Files
<1>7. OutInv'
  <2> SUFFICES ASSUME NEW c \in Compactors PROVE OutOk(c)'
    BY DEF OutInv
  <2>1. /\ pc'[c] = pc[c] /\ plan'[c] = plan[c] /\ out'[c] = out[c]
        /\ made' \in Nat /\ made <= made'
    BY <1>1, <1>2, <1>3
  <2>2. out[c] # 0 => storage'[out[c]] = storage[out[c]]
    BY <1>2, OutFacts
  <2>3. \A f \in Files : f <= made =>
          partition'[f] = partition[f] /\ content'[f] = content[f]
    BY <1>2
  <2> QED BY <2>1, <2>2, <2>3, OutKept
<1>8. OwnOut'
  BY <1>1 DEF IInv, OwnOut
<1> QED BY <1>2, <1>4, <1>5, <1>6, <1>7, <1>8 DEF IInv

(* A commit that changes only the statuses of one file, by no compaction.   *)
LEMMA StatusInv ==
  ASSUME IInv, NEW f \in Files,
         UNCHANGED <<made, partition, content, crawled, pc, plan, out>>,
         crashes' \in Nat, repairs' \in Nat,
         NEW state \in {"local", "uploaded"}, NEW life \in LifecycleStates,
         storage' = [storage EXCEPT ![f] = state],
         lifecycle' = [lifecycle EXCEPT ![f] = life],
         \/ state = storage[f]
         \/ storage[f] = "local" /\ state = "uploaded",
         \/ life = lifecycle[f] \/ life = "active"
         \/ lifecycle[f] # "active" /\ life # "active"
  PROVE  IInv'
<1>1. TypeOK'
  BY DEF IInv, TypeOK, StorageStates
<1>2. \A g \in Files : \/ storage'[g] = storage[g]
                       \/ storage[g] = "local" /\ storage'[g] = "uploaded"
  BY FileFacts
<1>3. \A g \in Files : lifecycle'[g] # "active" => lifecycle[g] # "active"
  BY FileFacts
<1>4. FileInv'
  BY <1>2, <1>3 DEF IInv, FileInv, Registered
<1>5. PlanInv'
  BY <1>2 DEF IInv, TypeOK, PlanInv
<1>6. OutInv'
  <2> SUFFICES ASSUME NEW c \in Compactors PROVE OutOk(c)'
    BY DEF OutInv
  <2>1. out[c] # 0 => out[c] \in Files
    BY OutFacts
  <2> QED BY <1>2, <2>1, FileFacts, OutKept
<1>7. OwnOut'
  BY DEF IInv, OwnOut
<1>8. HasSuccessor'
  <2> SUFFICES ASSUME NEW g \in Files, lifecycle[g] # "active"
               PROVE  \E h \in Files : /\ h > g /\ storage'[h] = "uploaded"
                                       /\ partition[h] = partition[g] /\ Covers(h, g)'
    BY <1>3 DEF HasSuccessor
  <2>1. PICK h \in Files : /\ h > g /\ storage[h] = "uploaded"
                          /\ partition[h] = partition[g] /\ Covers(h, g)
    BY DEF IInv, HasSuccessor
  <2> QED BY <2>1, <1>2 DEF Covers
<1> QED BY <1>1, <1>4, <1>5, <1>6, <1>7, <1>8 DEF IInv

LEMMA OperatorInv ==
  ASSUME IInv, NEW f \in Files,
         \/ FinishBatch(f) \/ RecoverBatch(f) \/ RepairUploaded(f) \/ Archive(f) \/ Rollback(f)
  PROVE  IInv'
<1> USE FileFacts
<1>0. crashes \in Nat /\ repairs \in Nat
  BY DEF IInv, TypeOK
<1>1. CASE FinishBatch(f)
  <2>1. lifecycle' = [lifecycle EXCEPT ![f] = lifecycle[f]]
    BY <1>1 DEF FinishBatch, MarkUploaded
  <2> QED BY <1>0, <1>1, <2>1, StatusInv DEF FinishBatch, MarkUploaded, bounds
<1>2. CASE RecoverBatch(f)
  <2>1. Registered(f)
    BY <1>2 DEF RecoverBatch, IInv, FileInv
  <2>2. /\ storage' = [storage EXCEPT ![f] = storage[f]]
        /\ lifecycle' = [lifecycle EXCEPT ![f] = lifecycle[f]]
    BY <1>2, <2>1 DEF RecoverBatch, Register
  <2>3. storage[f] \in {"local", "uploaded"} /\ lifecycle[f] \in LifecycleStates
    BY <2>1 DEF Registered
  <2>4. repairs' \in Nat /\ UNCHANGED <<made, partition, content, crawled, crashes, pc, plan, out>>
    BY <1>0, <1>2 DEF RecoverBatch
  <2> QED BY <1>0, <2>2, <2>3, <2>4, StatusInv
<1>3. CASE RepairUploaded(f)
  <2>1. lifecycle' = [lifecycle EXCEPT ![f] = lifecycle[f]]
    BY <1>3 DEF RepairUploaded, MarkUploaded
  <2>2. storage[f] = "local" /\ storage' = [storage EXCEPT ![f] = "uploaded"]
    BY <1>3 DEF RepairUploaded, MarkUploaded
  <2>3. repairs' \in Nat /\ UNCHANGED <<made, partition, content, crawled, crashes, pc, plan, out>>
    BY <1>0, <1>3 DEF RepairUploaded
  <2> QED BY <1>0, <2>1, <2>2, <2>3, StatusInv
<1>4. CASE Archive(f)
  <2>1. storage[f] = "uploaded" /\ storage' = [storage EXCEPT ![f] = storage[f]]
    BY <1>4 DEF Archive, RetentionArchives
  <2>2. lifecycle[f] # "active" /\ lifecycle' = [lifecycle EXCEPT ![f] = "archived"]
    BY <1>4 DEF Archive, RetentionArchives
  <2>3. repairs' \in Nat /\ UNCHANGED <<made, partition, content, crawled, crashes, pc, plan, out>>
    BY <1>0, <1>4 DEF Archive, RetentionArchives
  <2>4. "archived" \in LifecycleStates
    BY DEF LifecycleStates
  <2> QED BY <1>0, <2>1, <2>2, <2>3, <2>4, StatusInv
<1>5. CASE Rollback(f)
  <2>1. storage[f] = "uploaded" /\ storage' = [storage EXCEPT ![f] = storage[f]]
    BY <1>5 DEF Rollback
  <2>2. lifecycle[f] # "active" /\ lifecycle' = [lifecycle EXCEPT ![f] = "active"]
    BY <1>5 DEF Rollback
  <2>3. repairs' \in Nat /\ UNCHANGED <<made, partition, content, crawled, crashes, pc, plan, out>>
    BY <1>0, <1>5 DEF Rollback
  <2>4. "active" \in LifecycleStates
    BY DEF LifecycleStates
  <2> QED BY <1>0, <2>1, <2>2, <2>3, <2>4, StatusInv
<1> QED BY <1>1, <1>2, <1>3, <1>4, <1>5

------------------------------------------------------------------------------
(* The steps of a compaction *)

LEMMA ListActiveInv ==
  ASSUME IInv, NEW c \in Compactors, ListActive(c)
  PROVE  IInv'
<1>1. /\ pc[c] = "idle" /\ pc' = [pc EXCEPT ![c] = "write"]
      /\ plan' = [plan EXCEPT ![c] = CompactionPlan]
      /\ UNCHANGED <<fileVars, bounds, out>>
  BY DEF ListActive
<1> USE <1>1 DEF fileVars, bounds
<1>2. \A p \in Partitions : \A f \in CompactionPlan[p] :
        f \in Files /\ f <= made /\ partition[f] = p /\ storage[f] = "uploaded"
  <2> SUFFICES ASSUME NEW p \in Partitions, NEW f \in CompactionPlan[p]
               PROVE  f \in Files /\ f <= made /\ partition[f] = p /\ storage[f] = "uploaded"
    OBVIOUS
  <2>1. CompactionPlan[p] \subseteq ActiveFiles(p)
    BY DEF CompactionPlan
  <2>2. f \in ActiveFiles(p)
    BY <2>1
  <2>3. f \in Files /\ partition[f] = p /\ storage[f] = "uploaded"
    BY <2>2 DEF ActiveFiles, IsActive
  <2> QED BY <2>3, FileFacts
<1>3. CompactionPlan \in [Partitions -> SUBSET Files]
  BY DEF CompactionPlan, ActiveFiles
<1>4. TypeOK'
  BY <1>3 DEF IInv, TypeOK, Steps
<1>5. FileInv' /\ HasSuccessor' /\ OwnOut'
  BY DEF IInv, FileInv, Registered, HasSuccessor, Covers, OwnOut
<1>6. PlanInv'
  <2> SUFFICES ASSUME NEW d \in Compactors, NEW p \in Partitions, NEW f \in plan'[d][p]
               PROVE  f <= made /\ partition[f] = p /\ storage[f] = "uploaded"
    BY DEF PlanInv
  <2>1. plan'[d] = IF d = c THEN CompactionPlan ELSE plan[d]
    BY DEF IInv, TypeOK
  <2>2. CASE d = c
    BY <1>2, <2>1, <2>2
  <2>3. CASE d # c
    BY <2>1, <2>3 DEF IInv, PlanInv
  <2> QED BY <2>2, <2>3
<1>7. OutInv'
  <2> SUFFICES ASSUME NEW d \in Compactors PROVE OutOk(d)'
    BY DEF OutInv
  <2>1. CASE d = c
    <3>1. out'[c] = 0 /\ pc'[c] = "write"
      BY DEF IInv, TypeOK, OutInv, OutOk
    <3> QED BY <2>1, <3>1 DEF OutOk
  <2>2. CASE d # c
    BY <2>2, OutKept, FileFacts DEF IInv, TypeOK
  <2> QED BY <2>1, <2>2
<1> QED BY <1>4, <1>5, <1>6, <1>7 DEF IInv

LEMMA FinishRunInv ==
  ASSUME IInv, NEW c \in Compactors, FinishRun(c)
  PROVE  IInv'
<1>1. /\ pc[c] = "write" /\ pc' = [pc EXCEPT ![c] = "idle"]
      /\ UNCHANGED <<fileVars, bounds, plan, out>>
  BY DEF FinishRun
<1> USE <1>1 DEF fileVars, bounds
<1>2. TypeOK'
  BY DEF IInv, TypeOK, Steps
<1>3. FileInv' /\ PlanInv' /\ HasSuccessor' /\ OwnOut'
  BY DEF IInv, FileInv, PlanInv, Registered, HasSuccessor, Covers, OwnOut
<1>4. OutInv'
  <2> SUFFICES ASSUME NEW d \in Compactors PROVE OutOk(d)'
    BY DEF OutInv
  <2>1. CASE d = c
    <3>1. out'[c] = 0 /\ pc'[c] = "idle"
      BY DEF IInv, TypeOK, OutInv, OutOk
    <3> QED BY <2>1, <3>1 DEF OutOk
  <2>2. CASE d # c
    BY <2>2, OutKept, FileFacts DEF IInv, TypeOK
  <2> QED BY <2>1, <2>2
<1> QED BY <1>2, <1>3, <1>4 DEF IInv

LEMMA AbandonInv ==
  ASSUME IInv, NEW c \in Compactors, Abandon(c)
  PROVE  IInv'
<1>1. /\ pc' = [pc EXCEPT ![c] = "idle"] /\ plan' = [plan EXCEPT ![c] = NoPlan]
      /\ out' = [out EXCEPT ![c] = 0] /\ crashes' = crashes + 1
      /\ UNCHANGED <<fileVars, crawled, repairs>>
  BY DEF Abandon
<1> USE <1>1 DEF fileVars
<1>2. TypeOK'
  BY DEF IInv, TypeOK, Steps, NoPlan
<1>3. FileInv' /\ HasSuccessor'
  BY DEF IInv, FileInv, Registered, HasSuccessor, Covers
<1>4. PlanInv'
  <2> SUFFICES ASSUME NEW d \in Compactors, NEW p \in Partitions, NEW f \in plan'[d][p]
               PROVE  f <= made /\ partition[f] = p /\ storage[f] = "uploaded"
    BY DEF PlanInv
  <2>1. plan'[d] = IF d = c THEN NoPlan ELSE plan[d]
    BY DEF IInv, TypeOK
  <2>2. d # c /\ f \in plan[d][p]
    BY <2>1 DEF NoPlan
  <2>3. f <= made /\ partition[f] = p /\ storage[f] = "uploaded"
    BY <2>2 DEF IInv, PlanInv
  <2> QED BY <2>3
<1>5. OwnOut'
  BY DEF IInv, TypeOK, OwnOut
<1>6. OutInv'
  <2> SUFFICES ASSUME NEW d \in Compactors PROVE OutOk(d)'
    BY DEF OutInv
  <2>1. CASE d = c
    <3>1. out'[c] = 0 /\ pc'[c] = "idle"
      BY DEF IInv, TypeOK
    <3> QED BY <2>1, <3>1 DEF OutOk
  <2>2. CASE d # c
    BY <2>2, OutKept, FileFacts DEF IInv, TypeOK
  <2> QED BY <2>1, <2>2
<1> QED BY <1>2, <1>3, <1>4, <1>5, <1>6 DEF IInv

LEMMA WriteReplacementInv ==
  ASSUME IInv, NEW c \in Compactors, WriteReplacement(c)
  PROVE  IInv'
<1>0. PICK p, rows, new :
        /\ p = Group(c) /\ new = made + 1
        /\ rows = Deduplicate(UNION {content[f] : f \in plan[c][p]})
  OBVIOUS
<1>1. /\ pc[c] = "write" /\ Undone(c) # {} /\ WriteFile(p, rows, "written")
      /\ out' = [out EXCEPT ![c] = new] /\ pc' = [pc EXCEPT ![c] = "upload"]
      /\ UNCHANGED <<bounds, plan>>
  BY <1>0 DEF WriteReplacement
<1>2. p \in Partitions /\ plan[c][p] # {} /\ plan[c][p] \in SUBSET Files
  <2>1. Undone(c) \in SUBSET Nat
    BY DEF Undone
  <2>2. p \in Undone(c)
    BY <1>0, <1>1, <2>1, MinIsElement DEF Group
  <2> QED BY <2>2 DEF Undone, IInv, TypeOK
<1>3. rows \in SUBSET Rows
  BY <1>0, <1>2 DEF Deduplicate, IInv, TypeOK
<1>4. \A f \in plan[c][p] : \A r \in content[f] : HasAtLeast(rows, r)
  BY <1>0, <1>2, ReplacementCovers DEF IInv, TypeOK
<1>5. /\ new \in Files /\ made' = new /\ made' \in 0 .. MaxFiles
      /\ partition' \in [Files -> Partitions \cup {0}]
      /\ content' \in [Files -> SUBSET Rows]
      /\ storage' \in [Files -> StorageStates]
      /\ lifecycle' = lifecycle
      /\ partition'[new] = p /\ content'[new] = rows /\ storage'[new] = "written"
      /\ \A f \in Files : f <= made =>
           /\ partition'[f] = partition[f] /\ content'[f] = content[f]
           /\ storage'[f] = storage[f]
      /\ \A f \in Files : f > new => storage'[f] = storage[f]
      /\ HasSuccessor'
  BY <1>0, <1>1, <1>2, <1>3, WriteFileInv
<1>6. made \in Nat /\ new = made + 1 /\ new # 0 /\ new \in 0 .. MaxFiles
  BY <1>0, <1>5 DEF IInv, TypeOK
<1>7. TypeOK'
  BY <1>1, <1>5, <1>6 DEF IInv, TypeOK, Steps, bounds
<1>8. FileInv'
  <2>1. \A f \in Files : f < new \/ f = new \/ f > new
    BY <1>5 DEF Files
  <2> QED BY <1>1, <1>2, <1>5, <1>6, <2>1, SMTT(30) DEF IInv, FileInv, Registered, Files, bounds
<1>9. PlanInv'
  BY <1>1, <1>5, <1>6 DEF IInv, TypeOK, PlanInv, Files
<1>10. OwnOut'
  <2>1. \A d \in Compactors : out[d] \in 0 .. MaxFiles /\ (out[d] # 0 => out[d] <= made)
    BY OutFacts DEF IInv, TypeOK
  <2>2. \A d \in Compactors : out[d] # new
    BY <2>1, <1>6
  <2>3. \A d \in Compactors : out'[d] = IF d = c THEN new ELSE out[d]
    BY <1>1 DEF IInv, TypeOK
  <2> QED BY <2>2, <2>3 DEF IInv, OwnOut
<1>11. OutInv'
  <2> SUFFICES ASSUME NEW d \in Compactors PROVE OutOk(d)'
    BY DEF OutInv
  <2>1. CASE d = c
    <3>1. out'[c] = new /\ pc'[c] = "upload" /\ plan'[c][partition'[new]] = plan[c][p]
      BY <1>1, <1>5 DEF IInv, TypeOK
    <3>2. ASSUME NEW f \in plan[c][p] PROVE f < new /\ Covers(new, f)'
      <4>1. f \in Files /\ f <= made
        BY <1>2 DEF IInv, PlanInv
      <4>2. content'[f] = content[f]
        BY <4>1, <1>5
      <4>3. Covers(new, f)'
        BY <4>2, <1>4, <1>5 DEF Covers, HasAtLeast
      <4> QED BY <4>1, <4>3, <1>6 DEF Files
    <3>3. new <= made' /\ partition'[new] \in Partitions
      BY <1>2, <1>5, <1>6
    <3> QED BY <2>1, <3>1, <3>2, <3>3, <1>2, <1>5, <1>6 DEF OutOk
  <2>2. CASE d # c
    <3>1. pc'[d] = pc[d] /\ plan'[d] = plan[d] /\ out'[d] = out[d]
      BY <1>1, <2>2 DEF IInv, TypeOK
    <3>2. made' \in Nat /\ made <= made'
      BY <1>5, <1>6
    <3>3. out[d] # 0 => storage'[out[d]] = storage[out[d]]
      BY <1>5, OutFacts
    <3>4. \A f \in Files : f <= made =>
            partition'[f] = partition[f] /\ content'[f] = content[f]
      BY <1>5
    <3> QED BY <3>1, <3>2, <3>3, <3>4, OutKept
  <2> QED BY <2>1, <2>2
<1> QED BY <1>5, <1>7, <1>8, <1>9, <1>10, <1>11 DEF IInv

LEMMA UploadReplacementInv ==
  ASSUME IInv, NEW c \in Compactors, UploadReplacement(c)
  PROVE  IInv'
<1>0. PICK o : o = out[c]
  OBVIOUS
<1>1. /\ pc[c] = "upload" /\ pc' = [pc EXCEPT ![c] = "register"]
      /\ UNCHANGED <<made, partition, content, bounds, plan, out>>
  BY DEF UploadReplacement
<1>2. o # 0 /\ storage[o] = "written"
  BY <1>0, <1>1 DEF IInv, OutInv, OutOk, Registered
<1>3. o \in Files /\ out[c] # 0
  BY <1>0, <1>2, OutFacts
<1>4. /\ \A g \in Files : g # o => storage'[g] = storage[g]
      /\ storage'[o] \in {"remote"} /\ storage' \in [Files -> StorageStates]
      /\ \A g \in Files : lifecycle'[g] = lifecycle[g]
      /\ lifecycle' \in [Files -> LifecycleStates]
  BY <1>0, <1>1, <1>2, <1>3, FileFacts DEF UploadReplacement, StorageStates, LifecycleStates
<1>5. \A g \in Files : storage[g] = "uploaded" => storage'[g] = "uploaded"
  BY <1>2, <1>4
<1>6. o <= made
  BY <1>0, <1>2, OutFacts
<1>7. TypeOK'
  BY <1>1, <1>4 DEF IInv, TypeOK, Steps, bounds
<1>8. FileInv'
  BY <1>1, <1>2, <1>3, <1>4, <1>5, <1>6 DEF IInv, FileInv, TypeOK, Registered, bounds, Files
<1>9. PlanInv'
  BY <1>1, <1>5 DEF IInv, TypeOK, PlanInv
<1>10. OwnOut'
  BY <1>1 DEF IInv, OwnOut
<1>11. HasSuccessor'
  BY <1>1, <1>4, <1>5 DEF IInv, HasSuccessor, Covers
<1>12. OutInv'
  <2> SUFFICES ASSUME NEW d \in Compactors PROVE OutOk(d)'
    BY DEF OutInv
  <2>1. CASE d = c
    <3>1. OutOk(c)
      BY DEF IInv, OutInv
    <3>2. /\ out'[c] = o /\ pc'[c] = "register" /\ plan'[c] = plan[c] /\ made' = made
          /\ partition'[o] = partition[o]
      BY <1>0, <1>1 DEF IInv, TypeOK
    <3>3. /\ o <= made /\ partition[o] \in Partitions /\ plan[c][partition[o]] # {}
          /\ \A f \in plan[c][partition[o]] : f < o /\ Covers(o, f)'
      BY <1>0, <1>1, <1>2, <3>1 DEF OutOk, Covers
    <3> QED BY <2>1, <3>2, <3>3, <1>2, <1>4 DEF OutOk, Registered
  <2>2. CASE d # c
    <3>1. /\ pc'[d] = pc[d] /\ plan'[d] = plan[d] /\ out'[d] = out[d]
          /\ made' = made /\ made \in Nat
      BY <1>1, <2>2 DEF IInv, TypeOK
    <3>2. out[d] # 0 => out[d] \in Files /\ out[d] # o
      BY <1>0, <2>2, OutFacts DEF IInv, OwnOut
    <3>3. out[d] # 0 => storage'[out[d]] = storage[out[d]]
      BY <3>2, <1>4
    <3> QED BY <1>1, <3>1, <3>3, OutKept
  <2> QED BY <2>1, <2>2
<1> QED BY <1>7, <1>8, <1>9, <1>10, <1>11, <1>12 DEF IInv

LEMMA RegisterReplacementInv ==
  ASSUME IInv, NEW c \in Compactors, RegisterReplacement(c)
  PROVE  IInv'
<1>0. PICK o : o = out[c]
  OBVIOUS
<1>1. /\ pc[c] = "register" /\ pc' = [pc EXCEPT ![c] = "mark"]
      /\ UNCHANGED <<made, partition, content, bounds, plan, out>>
  BY DEF RegisterReplacement
<1>2. o # 0 /\ storage[o] = "remote"
  BY <1>0, <1>1 DEF IInv, OutInv, OutOk, Registered
<1>3. o \in Files /\ out[c] # 0
  BY <1>0, <1>2, OutFacts
<1>4. /\ \A g \in Files : g # o => storage'[g] = storage[g]
      /\ storage'[o] \in {"local"} /\ storage' \in [Files -> StorageStates]
      /\ \A g \in Files : lifecycle'[g] = lifecycle[g]
      /\ lifecycle' \in [Files -> LifecycleStates]
  BY <1>0, <1>1, <1>2, <1>3, FileFacts DEF RegisterReplacement, Register, Registered, StorageStates, LifecycleStates
<1>5. \A g \in Files : storage[g] = "uploaded" => storage'[g] = "uploaded"
  BY <1>2, <1>4
<1>6. o <= made
  BY <1>0, <1>2, OutFacts
<1>7. TypeOK'
  BY <1>1, <1>4 DEF IInv, TypeOK, Steps, bounds
<1>8. FileInv'
  BY <1>1, <1>2, <1>3, <1>4, <1>5, <1>6 DEF IInv, FileInv, TypeOK, Registered, bounds, Files
<1>9. PlanInv'
  BY <1>1, <1>5 DEF IInv, TypeOK, PlanInv
<1>10. OwnOut'
  BY <1>1 DEF IInv, OwnOut
<1>11. HasSuccessor'
  BY <1>1, <1>4, <1>5 DEF IInv, HasSuccessor, Covers
<1>12. OutInv'
  <2> SUFFICES ASSUME NEW d \in Compactors PROVE OutOk(d)'
    BY DEF OutInv
  <2>1. CASE d = c
    <3>1. OutOk(c)
      BY DEF IInv, OutInv
    <3>2. /\ out'[c] = o /\ pc'[c] = "mark" /\ plan'[c] = plan[c] /\ made' = made
          /\ partition'[o] = partition[o]
      BY <1>0, <1>1 DEF IInv, TypeOK
    <3>3. /\ o <= made /\ partition[o] \in Partitions /\ plan[c][partition[o]] # {}
          /\ \A f \in plan[c][partition[o]] : f < o /\ Covers(o, f)'
      BY <1>0, <1>1, <1>2, <3>1 DEF OutOk, Covers
    <3> QED BY <2>1, <3>2, <3>3, <1>2, <1>4 DEF OutOk, Registered
  <2>2. CASE d # c
    <3>1. /\ pc'[d] = pc[d] /\ plan'[d] = plan[d] /\ out'[d] = out[d]
          /\ made' = made /\ made \in Nat
      BY <1>1, <2>2 DEF IInv, TypeOK
    <3>2. out[d] # 0 => out[d] \in Files /\ out[d] # o
      BY <1>0, <2>2, OutFacts DEF IInv, OwnOut
    <3>3. out[d] # 0 => storage'[out[d]] = storage[out[d]]
      BY <3>2, <1>4
    <3> QED BY <1>1, <3>1, <3>3, OutKept
  <2> QED BY <2>1, <2>2
<1> QED BY <1>7, <1>8, <1>9, <1>10, <1>11, <1>12 DEF IInv

LEMMA MarkReplacementInv ==
  ASSUME IInv, NEW c \in Compactors, MarkReplacement(c)
  PROVE  IInv'
<1>0. PICK o : o = out[c]
  OBVIOUS
<1>1. /\ pc[c] = "mark" /\ pc' = [pc EXCEPT ![c] = "supersede"]
      /\ UNCHANGED <<made, partition, content, bounds, plan, out>>
  BY DEF MarkReplacement
<1>2. o # 0 /\ storage[o] \in {"local", "uploaded"}
  BY <1>0, <1>1 DEF IInv, OutInv, OutOk, Registered
<1>3. o \in Files /\ out[c] # 0
  BY <1>0, <1>2, OutFacts
<1>4. /\ \A g \in Files : g # o => storage'[g] = storage[g]
      /\ storage'[o] \in {"uploaded"} /\ storage' \in [Files -> StorageStates]
      /\ \A g \in Files : lifecycle'[g] = lifecycle[g]
      /\ lifecycle' \in [Files -> LifecycleStates]
  BY <1>0, <1>1, <1>2, <1>3, FileFacts DEF MarkReplacement, MarkUploaded, StorageStates, LifecycleStates
<1>5. \A g \in Files : storage[g] = "uploaded" => storage'[g] = "uploaded"
  BY <1>2, <1>4
<1>6. o <= made
  BY <1>0, <1>2, OutFacts
<1>7. TypeOK'
  BY <1>1, <1>4 DEF IInv, TypeOK, Steps, bounds
<1>8. FileInv'
  BY <1>1, <1>2, <1>3, <1>4, <1>5, <1>6 DEF IInv, FileInv, TypeOK, Registered, bounds, Files
<1>9. PlanInv'
  BY <1>1, <1>5 DEF IInv, TypeOK, PlanInv
<1>10. OwnOut'
  BY <1>1 DEF IInv, OwnOut
<1>11. HasSuccessor'
  BY <1>1, <1>4, <1>5 DEF IInv, HasSuccessor, Covers
<1>12. OutInv'
  <2> SUFFICES ASSUME NEW d \in Compactors PROVE OutOk(d)'
    BY DEF OutInv
  <2>1. CASE d = c
    <3>1. OutOk(c)
      BY DEF IInv, OutInv
    <3>2. /\ out'[c] = o /\ pc'[c] = "supersede" /\ plan'[c] = plan[c] /\ made' = made
          /\ partition'[o] = partition[o]
      BY <1>0, <1>1 DEF IInv, TypeOK
    <3>3. /\ o <= made /\ partition[o] \in Partitions /\ plan[c][partition[o]] # {}
          /\ \A f \in plan[c][partition[o]] : f < o /\ Covers(o, f)'
      BY <1>0, <1>1, <1>2, <3>1 DEF OutOk, Covers
    <3> QED BY <2>1, <3>2, <3>3, <1>2, <1>4 DEF OutOk, Registered
  <2>2. CASE d # c
    <3>1. /\ pc'[d] = pc[d] /\ plan'[d] = plan[d] /\ out'[d] = out[d]
          /\ made' = made /\ made \in Nat
      BY <1>1, <2>2 DEF IInv, TypeOK
    <3>2. out[d] # 0 => out[d] \in Files /\ out[d] # o
      BY <1>0, <2>2, OutFacts DEF IInv, OwnOut
    <3>3. out[d] # 0 => storage'[out[d]] = storage[out[d]]
      BY <3>2, <1>4
    <3> QED BY <1>1, <3>1, <3>3, OutKept
  <2> QED BY <2>1, <2>2
<1> QED BY <1>7, <1>8, <1>9, <1>10, <1>11, <1>12 DEF IInv

LEMMA SupersedeSourceInv ==
  ASSUME IInv, NEW c \in Compactors, SupersedeSource(c)
  PROVE  IInv'
<1>0. PICK o, p, f, rest : /\ o = out[c] /\ p = partition[o]
                          /\ f = Min(plan[c][p]) /\ rest = plan[c][p] \ {f}
  OBVIOUS
<1>1. pc[c] = "supersede" /\ UNCHANGED <<made, partition, content, bounds, storage>>
  BY DEF SupersedeSource, MarkSuperseded
<1>2. /\ lifecycle' = [lifecycle EXCEPT ![f] = "superseded"]
      /\ plan' = [plan EXCEPT ![c][p] = plan[c][p] \ {f}]
      /\ pc' = [pc EXCEPT ![c] = IF plan[c][p] = {f} THEN "write" ELSE pc[c]]
      /\ out' = [out EXCEPT ![c] = IF plan[c][p] = {f} THEN 0 ELSE out[c]]
  BY <1>0 DEF SupersedeSource, MarkSuperseded
<1>3. out[c] # 0 /\ storage[o] = "uploaded"
  BY <1>0, <1>1 DEF IInv, OutInv, OutOk
<1>4. /\ o \in Files /\ o <= made /\ p \in Partitions /\ plan[c][p] # {}
      /\ \A g \in plan[c][p] : /\ g \in Files /\ g < o /\ Covers(o, g)
                               /\ partition[g] = p /\ storage[g] = "uploaded"
  BY <1>0, <1>3, OutFacts
<1>5. f \in plan[c][p]
  <2>1. plan[c][p] \in SUBSET Nat
    BY <1>4 DEF Files
  <2> QED BY <1>0, <1>4, <2>1, MinIsElement
<1>6. TypeOK'
  BY <1>1, <1>2, <1>4, <1>5 DEF IInv, TypeOK, Steps, LifecycleStates, bounds
<1>7. FileInv'
  BY <1>1, <1>2, <1>4, <1>5 DEF IInv, FileInv, TypeOK, Registered, bounds
<1>8. /\ \A d \in Compactors : d # c => plan'[d] = plan[d]
      /\ \A q \in Partitions : q # p => plan'[c][q] = plan[c][q]
      /\ plan'[c][p] = rest
  BY <1>0, <1>2, <1>4 DEF IInv, TypeOK
<1>9. PlanInv'
  <2> SUFFICES ASSUME NEW d \in Compactors, NEW q \in Partitions, NEW g \in plan'[d][q]
               PROVE  g <= made' /\ partition'[g] = q /\ storage'[g] = "uploaded"
    BY DEF PlanInv
  <2>1. g \in plan[d][q]
    BY <1>0, <1>8
  <2>2. g <= made /\ partition[g] = q /\ storage[g] = "uploaded"
    BY <2>1 DEF IInv, PlanInv
  <2>3. made' = made /\ partition' = partition /\ storage' = storage
    BY <1>1
  <2> QED BY <2>2, <2>3
<1>10. OwnOut'
  BY <1>2 DEF IInv, TypeOK, OwnOut
<1>11. HasSuccessor'
  <2> SUFFICES ASSUME NEW g \in Files, lifecycle'[g] # "active"
               PROVE  \E h \in Files : /\ h > g /\ storage[h] = "uploaded"
                                       /\ partition[h] = partition[g] /\ Covers(h, g)
    BY <1>1 DEF HasSuccessor, Covers
  <2>1. CASE g = f
    <3>1. o > f /\ partition[o] = partition[f] /\ Covers(o, f)
      BY <1>0, <1>4, <1>5 DEF Files
    <3> QED BY <2>1, <3>1, <1>3, <1>4
  <2>2. CASE g # f
    BY <2>2, <1>2 DEF IInv, TypeOK, HasSuccessor
  <2> QED BY <2>1, <2>2
<1>12. OutInv'
  <2> SUFFICES ASSUME NEW d \in Compactors PROVE OutOk(d)'
    BY DEF OutInv
  <2>1. CASE d = c /\ plan[c][p] = {f}
    <3>1. out'[c] = 0 /\ pc'[c] = "write"
      BY <1>2, <2>1 DEF IInv, TypeOK
    <3> QED BY <2>1, <3>1 DEF OutOk
  <2>2. CASE d = c /\ plan[c][p] # {f}
    <3>1. out'[c] = o /\ pc'[c] = "supersede" /\ o # 0
      BY <1>0, <1>1, <1>2, <1>3, <2>2 DEF IInv, TypeOK
    <3>2. plan'[c][p] # {} /\ plan'[c][p] \subseteq plan[c][p]
      BY <1>0, <1>5, <1>8, <2>2
    <3>3. /\ o <= made' /\ partition'[o] = p /\ storage'[o] = "uploaded"
          /\ \A g \in plan'[c][p] : g < o /\ Covers(o, g)'
      BY <1>0, <1>1, <1>3, <1>4, <3>2 DEF Covers
    <3> QED BY <2>2, <3>1, <3>2, <3>3, <1>4 DEF OutOk
  <2>3. CASE d # c
    <3>1. /\ pc'[d] = pc[d] /\ plan'[d] = plan[d] /\ out'[d] = out[d]
          /\ made' = made /\ made \in Nat
      BY <1>1, <1>2, <1>8, <2>3 DEF IInv, TypeOK
    <3> QED BY <1>1, <3>1, OutKept
  <2> QED BY <2>1, <2>2, <2>3
<1> QED BY <1>6, <1>7, <1>9, <1>10, <1>11, <1>12 DEF IInv

------------------------------------------------------------------------------
(* The theorems *)

LEMMA WarehouseStep == IInv /\ [Next]_vars => IInv'
<1> SUFFICES ASSUME IInv, [Next]_vars PROVE IInv'
  OBVIOUS
<1>1. ASSUME NEW p \in Partitions, NEW rows \in SUBSET Rows, StoreBatch(p, rows) PROVE IInv'
  BY <1>1, StoreBatchInv
<1>2. ASSUME NEW f \in Files,
             \/ FinishBatch(f) \/ RecoverBatch(f) \/ RepairUploaded(f) \/ Archive(f) \/ Rollback(f)
      PROVE  IInv'
  BY <1>2, OperatorInv
<1>3. ASSUME NEW c \in Compactors, Compact(c) \/ Abandon(c) PROVE IInv'
  BY <1>3, ListActiveInv, WriteReplacementInv, UploadReplacementInv, RegisterReplacementInv,
     MarkReplacementInv, SupersedeSourceInv, FinishRunInv, AbandonInv DEF Compact
<1>4. CASE UNCHANGED vars
  BY <1>4 DEF vars, fileVars, bounds, IInv, TypeOK, FileInv, PlanInv, OutInv, OutOk, OwnOut,
     HasSuccessor, Registered, Covers
<1> QED BY <1>1, <1>2, <1>3, <1>4 DEF Next

(* Every reachable state has the invariant: types, and a later, uploaded    *)
(* successor with all its records for each file out of the active set.      *)
THEOREM WarehouseInvariant == Spec => []IInv
<1>1. Init => IInv
  BY InitInv
<1>2. IInv /\ [Next]_vars => IInv'
  BY WarehouseStep
<1> QED BY <1>1, <1>2, PTL DEF Spec

THEOREM WarehouseTypes == Spec => []TypeOK
<1>1. IInv => TypeOK
  BY DEF IInv
<1> QED BY <1>1, WarehouseInvariant, PTL

(* The last uploaded file with at least this version of a record is active. *)
LEMMA SuccessorsEnd ==
  ASSUME IInv, NEW f \in Files, storage[f] = "uploaded", NEW r \in content[f]
  PROVE  \E g \in ActiveFiles(partition[f]) : HasAtLeast(content[g], r)
<1> DEFINE S == {g \in Files : /\ storage[g] = "uploaded" /\ partition[g] = partition[f]
                              /\ HasAtLeast(content[g], r)}
<1>1. r \in Rows /\ content \in [Files -> SUBSET Rows]
  BY DEF IInv, TypeOK
<1>2. f \in S
  BY <1>1, RowFields DEF HasAtLeast
<1>3. S \in SUBSET (0 .. MaxFiles)
  BY DEF Files
<1>4. PICK g \in S : \A h \in S : h <= g
  BY <1>2, <1>3, GreatestExists
<1>5. lifecycle[g] = "active"
  <2> SUFFICES ASSUME lifecycle[g] # "active" PROVE FALSE
    OBVIOUS
  <2>1. PICK h \in Files : /\ h > g /\ storage[h] = "uploaded"
                          /\ partition[h] = partition[g] /\ Covers(h, g)
    BY DEF IInv, HasSuccessor
  <2>2. PICK q \in content[g] : q.uid = r.uid /\ q.version >= r.version
    BY DEF HasAtLeast
  <2>3. PICK o \in content[h] : o.uid = q.uid /\ o.version >= q.version
    BY <2>1 DEF Covers
  <2>4. o.version >= r.version
    <3>1. o \in Rows /\ q \in Rows
      BY <1>1, <2>1
    <3>2. o.version \in Nat /\ q.version \in Nat /\ r.version \in Nat
      BY <1>1, <3>1, RowFields
    <3> QED BY <2>2, <2>3, <3>2
  <2>5. h \in S
    BY <2>1, <2>2, <2>3, <2>4 DEF HasAtLeast
  <2>6. g \in Nat /\ h \in Nat
    BY <2>1 DEF Files
  <2> QED BY <1>4, <2>1, <2>5, <2>6
<1>6. g \in ActiveFiles(partition[f])
  BY <1>5 DEF ActiveFiles, IsActive
<1> QED BY <1>6

LEMMA NoRowLostNow == IInv => NoRowLost
BY SuccessorsEnd DEF NoRowLost, HasAtLeast

(* No row that was ever in an uploaded file is lost to readers: whatever    *)
(* compactions run, overlap, fail or stop, and whatever the operator        *)
(* archives or rolls back.                                                  *)
THEOREM CompactionLosesNothing == Spec => []NoRowLost
BY WarehouseInvariant, NoRowLostNow, PTL

------------------------------------------------------------------------------
(* The promise: to readers of the newest rows compaction is invisible.      *)

(* All rows that ever were in an uploaded file.                             *)
Uploaded(p) == UNION {content[f] : f \in {g \in Files : partition[g] = p /\ storage[g] = "uploaded"}}

View(p) == Deduplicate(Readable(p))

LEMMA RowsOfFiles ==
  ASSUME IInv, NEW p
  PROVE  Readable(p) \in SUBSET Rows /\ Uploaded(p) \in SUBSET Rows
         /\ Readable(p) \subseteq Uploaded(p)
BY DEF IInv, TypeOK, Readable, Uploaded, ActiveFiles, IsActive

(* The newest readable rows are the newest ever uploaded.                   *)
ViewIsNewest == \A p \in Partitions : View(p) = Deduplicate(Uploaded(p))

LEMMA ViewLemma == IInv => ViewIsNewest
<1> SUFFICES ASSUME IInv, NEW p \in Partitions PROVE View(p) = Deduplicate(Uploaded(p))
  BY DEF ViewIsNewest
<1>1. /\ Readable(p) \in SUBSET Rows /\ Uploaded(p) \in SUBSET Rows
      /\ Readable(p) \subseteq Uploaded(p)
  BY RowsOfFiles
<1>2. ASSUME NEW r \in Readable(p) PROVE HasAtLeast(Uploaded(p), r)
  BY <1>1, RowFields DEF HasAtLeast
<1>3. ASSUME NEW r \in Uploaded(p) PROVE HasAtLeast(Readable(p), r)
  <2>1. PICK f \in Files : partition[f] = p /\ storage[f] = "uploaded" /\ r \in content[f]
    BY DEF Uploaded
  <2>2. PICK g \in ActiveFiles(p) : HasAtLeast(content[g], r)
    BY <2>1, SuccessorsEnd
  <2> QED BY <2>2 DEF HasAtLeast, Readable
<1>4. Deduplicate(Readable(p)) \subseteq Deduplicate(Uploaded(p))
  BY <1>1, <1>2, <1>3, SameNewest
<1>5. Deduplicate(Uploaded(p)) \subseteq Deduplicate(Readable(p))
  BY <1>1, <1>2, <1>3, SameNewest
<1> QED BY <1>4, <1>5 DEF View

LEMMA InitPromise == Init => Newest!Init
<1> SUFFICES ASSUME Init, NEW p \in Partitions PROVE Deduplicate(Readable(p)) = {}
  BY DEF Newest!Init
<1>1. Readable(p) = {}
  BY DEF Init, Readable, ActiveFiles, IsActive
<1> QED BY <1>1 DEF Deduplicate

(* A step that uploads nothing leaves the view alone.                       *)
LEMMA NothingUploaded ==
  ASSUME ViewIsNewest, ViewIsNewest',
         \A f \in Files : storage'[f] = "uploaded" <=> storage[f] = "uploaded",
         \A f \in Files : storage[f] = "uploaded" =>
           partition'[f] = partition[f] /\ content'[f] = content[f]
  PROVE  \A p \in Partitions : View(p)' = View(p)
<1> SUFFICES ASSUME NEW p \in Partitions PROVE View(p)' = View(p)
  OBVIOUS
<1>1. Uploaded(p)' = Uploaded(p)
  BY DEF Uploaded
<1>2. View(p) = Deduplicate(Uploaded(p)) /\ View(p)' = Deduplicate(Uploaded(p)')
  BY DEF ViewIsNewest, Deduplicate
<1> QED BY <1>1, <1>2

(* Marking a file uploaded puts its rows.                                   *)
LEMMA UploadPuts ==
  ASSUME IInv, ViewIsNewest, ViewIsNewest', NEW f \in Files, partition[f] \in Partitions,
         UNCHANGED <<partition, content>>, storage' = [storage EXCEPT ![f] = "uploaded"]
  PROVE  Newest!Next
<1> DEFINE view == [p \in Partitions |-> Deduplicate(Readable(p))]
<1>0. PICK q, rows : q = partition[f] /\ rows = content[f]
  OBVIOUS
<1>1. q \in Partitions /\ rows \in SUBSET Rows
  BY <1>0 DEF IInv, TypeOK
<1>2. \A g \in Files : storage'[g] = "uploaded" <=> g = f \/ storage[g] = "uploaded"
  BY DEF IInv, TypeOK
<1>3. Uploaded(q)' = Uploaded(q) \cup rows
  BY <1>0, <1>2 DEF Uploaded
<1>4. \A p \in Partitions : p # q => Uploaded(p)' = Uploaded(p)
  BY <1>0, <1>2 DEF Uploaded
<1>5. \A p \in Partitions : View(p) = Deduplicate(Uploaded(p)) /\ View(p)' = Deduplicate(Uploaded(p)')
  BY DEF ViewIsNewest, Deduplicate
<1>6. View(q)' = Deduplicate(View(q) \cup rows)
  <2>1. Uploaded(q) \in SUBSET Rows
    BY RowsOfFiles
  <2>2. Deduplicate(Deduplicate(Uploaded(q)) \cup rows) = Deduplicate(Uploaded(q) \cup rows)
    BY <2>1, <1>1, NewestOfUnion
  <2> QED BY <1>1, <1>3, <1>5, <2>2
<1>7. \A p \in Partitions : p # q => View(p)' = View(p)
  BY <1>4, <1>5
<1>8. view' = [view EXCEPT ![q] = Deduplicate(@ \cup rows)]
  BY <1>1, <1>6, <1>7 DEF View
<1>9. Newest!Put(q, rows)
  BY <1>8 DEF Newest!Put, Newest!NewestOf, Deduplicate
<1>10. rows \in SUBSET Newest!Rows
  BY <1>1 DEF Newest!Rows, Rows
<1> QED BY <1>1, <1>9, <1>10 DEF Newest!Next

LEMMA StepPromise ==
  ASSUME IInv, ViewIsNewest, ViewIsNewest', [Next]_vars
  PROVE  Newest!Next \/ \A p \in Partitions : View(p)' = View(p)
<1>1. ASSUME NEW p \in Partitions, NEW rows \in SUBSET Rows, StoreBatch(p, rows)
      PROVE  \A q \in Partitions : View(q)' = View(q)
  <2>1. /\ \A f \in Files : f <= made =>
             /\ partition'[f] = partition[f] /\ content'[f] = content[f]
             /\ storage'[f] = storage[f]
        /\ \A f \in Files : f > made + 1 => storage'[f] = storage[f]
        /\ storage'[made + 1] = "local" /\ made \in Nat
    BY <1>1, WriteFileInv, FileFacts DEF StoreBatch
  <2>2. \A f \in Files : f > made => storage[f] = "absent"
    BY DEF IInv, FileInv
  <2>3. \A f \in Files : f <= made \/ f = made + 1 \/ f > made + 1
    BY <2>1 DEF Files
  <2>4. \A f \in Files : storage'[f] = "uploaded" <=> storage[f] = "uploaded"
    BY <2>1, <2>2, <2>3 DEF Files
  <2>5. \A f \in Files : storage[f] = "uploaded" => f <= made
    BY FileFacts
  <2> QED BY <2>1, <2>4, <2>5, NothingUploaded
<1>2. ASSUME NEW f \in Files, FinishBatch(f) \/ RepairUploaded(f) PROVE Newest!Next
  <2>1. storage[f] = "local" /\ storage' = [storage EXCEPT ![f] = "uploaded"]
        /\ UNCHANGED <<partition, content>>
    BY <1>2 DEF FinishBatch, RepairUploaded, MarkUploaded
  <2>2. partition[f] \in Partitions
    BY <2>1 DEF IInv, FileInv, TypeOK, Files
  <2> QED BY <2>1, <2>2, UploadPuts
<1>3. ASSUME NEW f \in Files, RecoverBatch(f) \/ Archive(f) \/ Rollback(f)
      PROVE  \A q \in Partitions : View(q)' = View(q)
  <2>1. UNCHANGED <<partition, content>>
        /\ \A g \in Files : storage'[g] = storage[g]
    BY <1>3 DEF RecoverBatch, Register, Registered, Archive, RetentionArchives, Rollback, IInv, TypeOK, FileInv
  <2> QED BY <2>1, NothingUploaded
<1>4. ASSUME NEW c \in Compactors, MarkReplacement(c) PROVE Newest!Next
  <2>1. out[c] # 0
    BY <1>4 DEF MarkReplacement, IInv, OutInv, OutOk
  <2>2. out[c] \in Files /\ partition[out[c]] \in Partitions
    BY <2>1, OutFacts
  <2> QED BY <1>4, <2>2, UploadPuts DEF MarkReplacement, MarkUploaded
<1>5. ASSUME NEW c \in Compactors,
             \/ ListActive(c) \/ SupersedeSource(c) \/ FinishRun(c) \/ Abandon(c)
      PROVE  \A q \in Partitions : View(q)' = View(q)
  <2>1. UNCHANGED <<partition, content, storage>>
    BY <1>5 DEF ListActive, SupersedeSource, MarkSuperseded, FinishRun, Abandon, fileVars
  <2> QED BY <2>1, NothingUploaded
<1>6. ASSUME NEW c \in Compactors, UploadReplacement(c) \/ RegisterReplacement(c)
      PROVE  \A q \in Partitions : View(q)' = View(q)
  <2>1. /\ storage[out[c]] \in {"written", "remote"} /\ UNCHANGED <<partition, content>>
        /\ storage' \in {[storage EXCEPT ![out[c]] = "remote"], [storage EXCEPT ![out[c]] = "local"]}
    BY <1>6 DEF UploadReplacement, RegisterReplacement, Register, Registered, IInv, OutInv, OutOk
  <2>2. \A g \in Files : storage'[g] = "uploaded" <=> storage[g] = "uploaded"
    BY <2>1 DEF IInv, TypeOK
  <2> QED BY <2>1, <2>2, NothingUploaded
<1>7. ASSUME NEW c \in Compactors, WriteReplacement(c)
      PROVE  \A q \in Partitions : View(q)' = View(q)
  <2>1. made \in Nat /\ \A f \in Files : f > made => storage[f] = "absent"
    BY FileFacts DEF IInv, FileInv
  <2>2. \A f \in Files : f # made + 1 =>
          partition'[f] = partition[f] /\ content'[f] = content[f] /\ storage'[f] = storage[f]
    BY <1>7 DEF WriteReplacement, WriteFile, IInv, TypeOK
  <2>3. storage' = [storage EXCEPT ![made + 1] = "written"]
    BY <1>7 DEF WriteReplacement, WriteFile
  <2>4. \A f \in Files : storage'[f] = "uploaded" <=> storage[f] = "uploaded"
    BY <2>1, <2>3 DEF IInv, TypeOK, Files
  <2>5. \A f \in Files : storage[f] = "uploaded" => f # made + 1
    BY <2>1
  <2> QED BY <2>2, <2>4, <2>5, NothingUploaded
<1>8. CASE UNCHANGED vars
  <2>1. UNCHANGED <<partition, content, storage>>
    BY <1>8 DEF vars, fileVars
  <2> QED BY <2>1, NothingUploaded
<1> QED BY <1>1, <1>2, <1>3, <1>4, <1>5, <1>6, <1>7, <1>8 DEF Next, Compact

(* The warehouse implements NewestRows: a batch puts its rows when it is    *)
(* marked uploaded, and no compaction, crash or repair changes the newest   *)
(* rows a reader can find.                                                  *)
THEOREM CompactionInvisible == Spec => KeepsNewest
<1> DEFINE view == [p \in Partitions |-> Deduplicate(Readable(p))]
<1>1. Init => Newest!Init
  BY InitPromise
<1>2. IInv /\ ViewIsNewest /\ ViewIsNewest' /\ [Next]_vars => [Newest!Next]_view
  <2>1. (\A p \in Partitions : View(p)' = View(p)) => view' = view
    BY DEF View
  <2> QED BY <2>1, StepPromise
<1>3. IInv => ViewIsNewest
  BY ViewLemma
<1> QED BY <1>1, <1>2, <1>3, WarehouseInvariant, PTL DEF Spec, KeepsNewest, Newest!Spec

HIDE WarehouseAssumption

------------------------------------------------------------------------------
(* The old posts: any number of partitions, posts, files and compactions.   *)
(* The inductive invariant is HistoryInv.  Every row there is, in a file,   *)
(* in a script's memory or in its output, is no newer than an active one's, *)
(* and a hash no newer than a file's row (RowsCovered, HashHasRow); what a  *)
(* script wrote or published is whole and no older than the old files       *)
(* (OutputAsWritten, FilesAsMade).                                          *)

OnePerUid(rows) == \A r, q \in rows : r.uid = q.uid => r = q
Dominated(rows, by) == \A r \in rows : \E q \in by : q.uid = r.uid /\ r.version <= q.version
NotOlder(rows, olds) == \A r \in rows, q \in olds : q.uid = r.uid => q.version <= r.version

OldRows == RowsOf(OldIds)
AllRows == RowsOf(Ids)
ActiveRows == RowsOf(IdsActive)

CompactRows(rows, p, olds) ==
  /\ rows \subseteq HistoryRows
  /\ OnePerUid(rows) /\ NotOlder(rows, olds)
  /\ UidsOf(rows) = {post \in OldPosts : PartitionOf[post] = p}

FileAsMade(file, olds) ==
  /\ file.lifecycle = "active"
  /\ \/ /\ file.name = NoName /\ file.storage = "uploaded"
        /\ \E r \in HistoryRows : file.rows = {r}
     \/ file.name \in Names /\ CompactRows(file.rows, file.name[2], olds)

HistoryFiles == [rows : SUBSET HistoryRows, storage : {"local", "uploaded"},
                 lifecycle : {"active", "superseded"}, name : Names \cup {NoName}]

FilesAsMade ==
  /\ OldIds \subseteq Ids
  /\ \A i \in Ids \ OldIds : FileAsMade(catalog[i], OldRows)

WorkAsRead ==
  script \in {"gate", "write"} =>
    /\ attempt # 0
    /\ OnePerUid(work) /\ NotOlder(work, OldRows)
    /\ script = "write" => UidsOf(work) = OldPosts /\ todo # {}

OutputAsWritten ==
  /\ \A p \in PostPartitions : output[p] = {} \/ CompactRows(output[p], p, OldRows)
  /\ attempt = 0 => \A p \in PostPartitions : output[p] = {}

PublishReady == script \in {"publish", "mark"} => todo # {} /\ todo \subseteq Outputs
RetireReady == script \in {"retire", "commit", "commit migration"} => NewFilesFit

RowsCovered ==
  /\ Dominated(AllRows, ActiveRows)
  /\ Dominated(work, ActiveRows)
  /\ \A p \in PostPartitions : Dominated(output[p], ActiveRows)

HashHasRow ==
  /\ uncommitted \subseteq AllRows
  /\ \A post \in OldPosts :
       /\ seen[post] # 0
       /\ seen[post] \in PostVersions => \E r \in AllRows : r.uid = post /\ seen[post] <= r.version

HistoryInv ==
  /\ HistoryTypeOK
  /\ FilesAsMade /\ WorkAsRead /\ OutputAsWritten
  /\ PublishReady /\ RetireReady
  /\ RowsCovered /\ HashHasRow

------------------------------------------------------------------------------
LEMMA DominatedBySame ==
  ASSUME NEW rows \in SUBSET HistoryRows
  PROVE  Dominated(rows, rows)
BY DEF Dominated, HistoryRows, PostVersions

LEMMA DominatedTwice ==
  ASSUME NEW X \in SUBSET HistoryRows, NEW Y \in SUBSET HistoryRows, NEW Z \in SUBSET HistoryRows,
         Dominated(X, Y), Dominated(Y, Z)
  PROVE  Dominated(X, Z)
<1> SUFFICES ASSUME NEW r \in X PROVE \E q \in Z : q.uid = r.uid /\ r.version <= q.version
  BY DEF Dominated
<1>1. PICK q \in Y : q.uid = r.uid /\ r.version <= q.version
  BY DEF Dominated
<1>2. PICK s \in Z : s.uid = q.uid /\ q.version <= s.version
  BY DEF Dominated
<1>3. r.version \in Nat /\ q.version \in Nat /\ s.version \in Nat
  BY DEF HistoryRows, PostVersions
<1> QED BY <1>1, <1>2, <1>3

LEMMA LatestOfAlike ==
  ASSUME NEW X \in SUBSET HistoryRows, NEW Y \in SUBSET HistoryRows,
         Dominated(X, Y), Dominated(Y, X)
  PROVE  LatestRows(X) \subseteq LatestRows(Y)
<1> SUFFICES ASSUME NEW r \in LatestRows(X) PROVE r \in LatestRows(Y)
  OBVIOUS
<1>1. r \in X /\ \A q \in X : q.uid = r.uid => q.version <= r.version
  BY DEF LatestRows
<1>2. PICK b \in Y : b.uid = r.uid /\ r.version <= b.version
  BY <1>1 DEF Dominated
<1>3. ASSUME NEW q \in Y, q.uid = r.uid PROVE q.version <= r.version
  <2>1. PICK a \in X : a.uid = q.uid /\ q.version <= a.version
    BY DEF Dominated
  <2>2. a.version <= r.version
    BY <1>1, <1>3, <2>1
  <2>3. q.version \in Nat /\ a.version \in Nat /\ r.version \in Nat
    BY <1>1 DEF HistoryRows, PostVersions
  <2> QED BY <2>1, <2>2, <2>3
<1>4. b = r
  <2>1. b.version <= r.version
    BY <1>2, <1>3
  <2>2. b \in HistoryRows /\ r \in HistoryRows
    BY <1>1
  <2>3. b.version = r.version
    BY <1>2, <2>1, <2>2 DEF HistoryRows, PostVersions
  <2> QED BY <1>2, <2>2, <2>3 DEF HistoryRows
<1> QED BY <1>2, <1>3, <1>4 DEF LatestRows

(* Rows that dominate each other have the same newest rows.                 *)
LEMMA AlikeRows ==
  ASSUME NEW X \in SUBSET HistoryRows, NEW Y \in SUBSET HistoryRows,
         Dominated(X, Y), Dominated(Y, X)
  PROVE  LatestRows(X) = LatestRows(Y)
<1>1. LatestRows(X) \subseteq LatestRows(Y)
  BY LatestOfAlike
<1>2. LatestRows(Y) \subseteq LatestRows(X)
  BY LatestOfAlike
<1> QED BY <1>1, <1>2

LEMMA LatestDominates ==
  ASSUME NEW rows \in SUBSET HistoryRows
  PROVE  LatestRows(rows) \subseteq rows /\ OnePerUid(LatestRows(rows))
<1>1. LatestRows(rows) \subseteq rows
  BY DEF LatestRows
<1>2. ASSUME NEW r \in LatestRows(rows), NEW q \in LatestRows(rows), r.uid = q.uid PROVE r = q
  <2>1. r \in HistoryRows /\ q \in HistoryRows /\ r.version <= q.version /\ q.version <= r.version
    BY <1>2 DEF LatestRows
  <2>2. r.version = q.version
    BY <2>1 DEF HistoryRows, PostVersions
  <2> QED BY <1>2, <2>1, <2>2 DEF HistoryRows
<1> QED BY <1>1, <1>2 DEF OnePerUid

(* The newest rows are at least as new as whatever the rows dominate.       *)
LEMMA LatestIsNotOlder ==
  ASSUME NEW rows \in SUBSET HistoryRows, NEW olds \in SUBSET HistoryRows, Dominated(olds, rows)
  PROVE  NotOlder(LatestRows(rows), olds)
<1> SUFFICES ASSUME NEW r \in LatestRows(rows), NEW q \in olds, q.uid = r.uid
             PROVE  q.version <= r.version
  BY DEF NotOlder
<1>1. PICK s \in rows : s.uid = q.uid /\ q.version <= s.version
  BY DEF Dominated
<1>2. s.version <= r.version /\ r \in rows
  BY <1>1 DEF LatestRows
<1>3. q.version \in Nat /\ s.version \in Nat /\ r.version \in Nat
  BY <1>2 DEF HistoryRows, PostVersions
<1> QED BY <1>1, <1>2, <1>3

------------------------------------------------------------------------------
LEMMA OldAndNew ==
  /\ OldIds \subseteq Nat \ {0} /\ NewIds \subseteq Nat \ {0} /\ OldIds \cap NewIds = {}
  /\ Cardinality(OldIds) \in Nat /\ OldIds = 1 .. Cardinality(OldIds)
  /\ OldIds \ {LocalId} # {}
<1>1. Cardinality(OldIds) \in Nat /\ Cardinality(PostPartitions) \in Nat
  BY HistoryAssumption, FS_CardinalityType
<1>2. Cardinality(NewIds) \in Nat
  BY <1>1, HistoryAssumption
<1>3. OldIds \ {LocalId} # {}
  BY HistoryAssumption, Zenon
<1> DEFINE n == Cardinality(OldIds)
           m == Cardinality(NewIds)
<1>4. n \in Nat /\ m \in Nat /\ OldIds = 1 .. n /\ NewIds = (n + 1) .. (n + m)
  BY <1>1, <1>2, HistoryAssumption
<1> HIDE DEF n, m
<1>5. OldIds \subseteq Nat \ {0} /\ NewIds \subseteq Nat \ {0} /\ OldIds \cap NewIds = {}
  BY <1>4
<1> QED BY <1>3, <1>4, <1>5 DEF n

(* A compacted file has a row for each record of its partition.             *)
LEMMA CompactCount ==
  ASSUME NEW rows, NEW p, NEW olds, CompactRows(rows, p, olds)
  PROVE  Cardinality(rows) = Cardinality({post \in OldPosts : PartitionOf[post] \in {p}})
<1> DEFINE posts == {post \in OldPosts : PartitionOf[post] \in {p}}
           rowOf == [post \in posts |-> CHOOSE r \in rows : r.uid = post]
<1>1. IsFiniteSet(posts)
  BY HistoryAssumption, FS_Subset, posts \subseteq OldPosts
<1>2. UidsOf(rows) = posts /\ OnePerUid(rows)
  BY DEF CompactRows
<1>3. \A post \in posts : rowOf[post] \in rows /\ rowOf[post].uid = post
  <2> SUFFICES ASSUME NEW post \in posts PROVE rowOf[post] \in rows /\ rowOf[post].uid = post
    OBVIOUS
  <2>1. \E r \in rows : r.uid = post
    BY <1>2 DEF UidsOf
  <2>2. rowOf[post] = CHOOSE r \in rows : r.uid = post
    OBVIOUS
  <2> HIDE DEF rowOf, posts
  <2> QED BY <2>1, <2>2
<1>4. rowOf \in [posts -> rows]
  BY <1>3
<1> HIDE DEF rowOf
<1>5. rowOf \in Injection(posts, rows)
  BY <1>3, <1>4 DEF Injection, IsInjective
<1>6. \A r \in rows : r.uid \in posts /\ rowOf[r.uid] = r
  <2> SUFFICES ASSUME NEW r \in rows PROVE r.uid \in posts /\ rowOf[r.uid] = r
    OBVIOUS
  <2>1. r.uid \in posts
    BY <1>2 DEF UidsOf
  <2>2. rowOf[r.uid] \in rows /\ rowOf[r.uid].uid = r.uid
    BY <2>1, <1>3
  <2> QED BY <2>1, <2>2, <1>2 DEF OnePerUid
<1>7. rowOf \in Surjection(posts, rows)
  BY <1>4, <1>6 DEF Surjection
<1>8. ExistsBijection(posts, rows)
  BY <1>5, <1>7 DEF ExistsBijection, Bijection
<1> QED BY <1>1, <1>8, FS_Bijection

(* New files that pass the row count hold every record of the old ones, in  *)
(* a version that is no older.                                              *)
LEMMA NewFilesCover ==
  ASSUME HistoryInv, CountsTellApart, NewFilesFit
  PROVE  \A q \in OldRows : \E i \in NewIds : \E r \in catalog[i].rows :
           r.uid = q.uid /\ q.version <= r.version
<1> DEFINE held == [i \in NewIds |-> IF catalog[i].name = NoName THEN {} ELSE {catalog[i].name[2]}]
           sizes == [i \in NewIds |-> IF held[i] = {} THEN 1
                       ELSE Cardinality({post \in OldPosts : PartitionOf[post] \in held[i]})]
<1>1. \A i \in NewIds : FileAsMade(catalog[i], OldRows)
  BY OldAndNew DEF HistoryInv, FilesAsMade, NewFilesFit
<1>2. NoName \notin Names
  BY DEF NoName, Names
<1>3. ASSUME NEW i \in NewIds
      PROVE  /\ held[i] \in {{}} \cup {{p} : p \in PostPartitions}
             /\ Cardinality(catalog[i].rows) = sizes[i]
  <2>1. CASE catalog[i].name = NoName
    <3>1. PICK r \in HistoryRows : catalog[i].rows = {r}
      BY <1>1, <1>2, <2>1 DEF FileAsMade
    <3> QED BY <2>1, <3>1, FS_Singleton
  <2>2. CASE catalog[i].name # NoName
    <3>1. catalog[i].name \in Names /\ CompactRows(catalog[i].rows, catalog[i].name[2], OldRows)
      BY <1>1, <2>2 DEF FileAsMade
    <3>2. catalog[i].name[2] \in PostPartitions
      BY <3>1 DEF Names
    <3>3. held[i] = {catalog[i].name[2]}
      BY <2>2
    <3>4. Cardinality(catalog[i].rows)
            = Cardinality({post \in OldPosts : PartitionOf[post] \in {catalog[i].name[2]}})
      BY <3>1, CompactCount
    <3>5. sizes[i] = Cardinality({post \in OldPosts : PartitionOf[post] \in held[i]})
      BY <3>3
    <3> HIDE DEF held, sizes
    <3> QED BY <3>2, <3>3, <3>4, <3>5
  <2> QED BY <2>1, <2>2
<1>4. held \in [NewIds -> {{}} \cup {{p} : p \in PostPartitions}]
  BY <1>3
<1>5. [i \in NewIds |-> Cardinality(catalog[i].rows)] = sizes
  BY <1>3
<1>6. TotalOf(sizes) = ExpectedRows
  BY <1>5 DEF NewFilesFit, RowCount
<1>7. UNION {held[i] : i \in NewIds} = PostPartitions
  <2> HIDE DEF held
  <2> QED BY <1>4, <1>6 DEF CountsTellApart
<1> SUFFICES ASSUME NEW q \in OldRows
             PROVE  \E i \in NewIds : \E r \in catalog[i].rows : r.uid = q.uid /\ q.version <= r.version
  OBVIOUS
<1>8. q \in HistoryRows
  <2>1. PICK i \in OldIds : q \in catalog[i].rows
    BY DEF OldRows, RowsOf
  <2>2. i \in Ids
    BY DEF HistoryInv, FilesAsMade
  <2>3. catalog \in Seq(HistoryFiles)
    BY DEF HistoryInv, HistoryTypeOK, HistoryFiles
  <2>4. catalog[i] \in HistoryFiles
    BY <2>2, <2>3 DEF Ids
  <2> QED BY <2>1, <2>4 DEF HistoryFiles
<1>9. q.uid \in OldPosts /\ PartitionOf[q.uid] \in PostPartitions
  BY <1>8, HistoryAssumption DEF HistoryRows
<1>10. PICK i \in NewIds : PartitionOf[q.uid] \in held[i]
  BY <1>7, <1>9
<1>11. CompactRows(catalog[i].rows, PartitionOf[q.uid], OldRows)
  <2>1. catalog[i].name # NoName /\ catalog[i].name[2] = PartitionOf[q.uid]
    BY <1>10
  <2> QED BY <2>1, <1>1 DEF FileAsMade
<1>12. PICK r \in catalog[i].rows : r.uid = q.uid
  BY <1>9, <1>11 DEF CompactRows, UidsOf
<1>13. q.version <= r.version
  BY <1>11, <1>12 DEF CompactRows, NotOlder
<1> QED BY <1>12, <1>13

------------------------------------------------------------------------------
(* What a step may do to the catalog *)

FilesStay ==
  /\ Ids \subseteq Ids'
  /\ \A i \in Ids : /\ catalog'[i].rows = catalog[i].rows
                    /\ catalog[i].storage = "uploaded" => catalog'[i].storage = "uploaded"

CrawlerSteps == \E post \in Recrawled, v \in PostVersions : CrawlerStores(post, v)

CatalogFits ==
  /\ FilesStay
  /\ catalog' \in Seq(HistoryFiles)
  /\ FilesAsMade'
  /\ Dominated(AllRows', ActiveRows')
  /\ CrawlerSteps \/ Dominated(AllRows', ActiveRows)

LEMMA CatalogTyped ==
  ASSUME HistoryInv
  PROVE  /\ catalog \in Seq(HistoryFiles) /\ Ids = 1 .. Len(catalog) /\ Len(catalog) \in Nat
         /\ \A i \in Ids : catalog[i] \in HistoryFiles
         /\ OldRows \subseteq AllRows /\ ActiveRows \subseteq AllRows /\ AllRows \subseteq HistoryRows
<1>1. catalog \in Seq(HistoryFiles)
  BY DEF HistoryInv, HistoryTypeOK, HistoryFiles
<1>2. Ids = 1 .. Len(catalog) /\ Len(catalog) \in Nat
  BY <1>1 DEF Ids
<1>3. \A i \in Ids : catalog[i] \in HistoryFiles
  BY <1>1 DEF Ids
<1>4. OldIds \subseteq Ids /\ IdsActive \subseteq Ids
  BY DEF HistoryInv, FilesAsMade, IdsActive
<1>5. OldRows \subseteq AllRows /\ ActiveRows \subseteq AllRows
  BY <1>4 DEF OldRows, ActiveRows, AllRows, RowsOf
<1>6. ASSUME NEW r \in AllRows PROVE r \in HistoryRows
  <2>1. PICK i \in Ids : r \in catalog[i].rows
    BY <1>6 DEF AllRows, RowsOf
  <2> QED BY <2>1, <1>3 DEF HistoryFiles
<1> QED BY <1>1, <1>2, <1>3, <1>5, <1>6

LEMMA StayFacts ==
  ASSUME HistoryInv, FilesStay
  PROVE  OldRows' = OldRows /\ AllRows \subseteq AllRows' /\ (NewFilesFit => NewFilesFit')
<1>1. OldIds \subseteq Ids
  BY DEF HistoryInv, FilesAsMade
<1>2. {catalog'[i].rows : i \in OldIds} = {catalog[i].rows : i \in OldIds}
  BY <1>1 DEF FilesStay
<1>3. OldRows' = OldRows
  BY <1>2 DEF OldRows, RowsOf
<1>4. ASSUME NEW r \in AllRows PROVE r \in AllRows'
  <2>1. PICK i \in Ids : r \in catalog[i].rows
    BY <1>4 DEF AllRows, RowsOf
  <2>2. i \in Ids' /\ r \in catalog'[i].rows
    BY <2>1 DEF FilesStay
  <2> QED BY <2>2 DEF AllRows, RowsOf
<1>5. ASSUME NewFilesFit PROVE NewFilesFit'
  <2>1. NewIds \subseteq Ids
    BY <1>5 DEF NewFilesFit
  <2>2. [i \in NewIds |-> Cardinality(catalog'[i].rows)] = [i \in NewIds |-> Cardinality(catalog[i].rows)]
    BY <2>1 DEF FilesStay
  <2>3. RowCount(NewIds)' = RowCount(NewIds)
    BY <2>2 DEF RowCount
  <2>4. \A i \in NewIds : catalog'[i].storage = "uploaded"
    BY <2>1, <1>5 DEF NewFilesFit, FilesStay
  <2>5. (OldIds \cup NewIds) \subseteq Ids'
    BY <1>5 DEF NewFilesFit, FilesStay
  <2> QED BY <2>3, <2>4, <2>5, <1>5 DEF NewFilesFit, ExpectedRows
<1> QED BY <1>3, <1>4, <1>5

(* A file is added.                                                         *)
LEMMA FileAdded ==
  ASSUME HistoryInv, NEW file \in HistoryFiles, catalog' = Append(catalog, file),
         FileAsMade(file, OldRows)
  PROVE  /\ FilesStay /\ catalog' \in Seq(HistoryFiles) /\ FilesAsMade'
         /\ AllRows' = AllRows \cup file.rows
         /\ ActiveRows' = ActiveRows \cup (IF file.storage = "uploaded" THEN file.rows ELSE {})
<1> DEFINE n == Len(catalog) + 1
<1>1. catalog' \in Seq(HistoryFiles) /\ Ids' = Ids \cup {n} /\ n \notin Ids /\ catalog'[n] = file
      /\ \A i \in Ids : catalog'[i] = catalog[i]
  BY CatalogTyped DEF Ids
<1> HIDE DEF n
<1>2. FilesStay
  BY <1>1 DEF FilesStay
<1>3. file.lifecycle = "active"
  BY DEF FileAsMade
<1>4. FilesAsMade'
  <2>1. OldRows' = OldRows
    BY <1>2, StayFacts
  <2>2. OldIds \subseteq Ids /\ \A i \in Ids \ OldIds : FileAsMade(catalog[i], OldRows)
    BY DEF HistoryInv, FilesAsMade
  <2>3. OldIds \subseteq Ids'
    BY <1>1, <2>2
  <2>4. \A i \in Ids' \ OldIds : FileAsMade(catalog'[i], OldRows)
    BY <1>1, <2>2
  <2> QED BY <2>1, <2>3, <2>4 DEF FilesAsMade
<1>5. AllRows' = AllRows \cup file.rows
  <2>1. {catalog'[i].rows : i \in Ids'} = {catalog[i].rows : i \in Ids} \cup {file.rows}
    BY <1>1
  <2> QED BY <2>1 DEF AllRows, RowsOf
<1>6. ActiveRows' = ActiveRows \cup (IF file.storage = "uploaded" THEN file.rows ELSE {})
  <2>1. IdsActive' = IdsActive \cup (IF file.storage = "uploaded" THEN {n} ELSE {})
    BY <1>1, <1>3 DEF IdsActive
  <2>2. \A i \in IdsActive : catalog'[i] = catalog[i]
    BY <1>1 DEF IdsActive
  <2>3. CASE file.storage = "uploaded"
    <3>1. {catalog'[i].rows : i \in IdsActive'} = {catalog[i].rows : i \in IdsActive} \cup {file.rows}
      BY <1>1, <2>1, <2>2, <2>3
    <3> QED BY <2>3, <3>1 DEF ActiveRows, RowsOf
  <2>4. CASE file.storage # "uploaded"
    <3>1. {catalog'[i].rows : i \in IdsActive'} = {catalog[i].rows : i \in IdsActive}
      BY <2>1, <2>2, <2>4
    <3> QED BY <2>4, <3>1 DEF ActiveRows, RowsOf
  <2> QED BY <2>3, <2>4
<1> QED BY <1>1, <1>2, <1>4, <1>5, <1>6

(* Files change their state, and what they hold stays active.               *)
LEMMA FilesRelabelled ==
  ASSUME HistoryInv, catalog' \in Seq(HistoryFiles), Ids' = Ids,
         \A i \in Ids : /\ catalog'[i].rows = catalog[i].rows /\ catalog'[i].name = catalog[i].name
                        /\ catalog[i].storage = "uploaded" => catalog'[i].storage = "uploaded",
         \A i \in Ids \ OldIds : catalog'[i].lifecycle = "active",
         Dominated(AllRows, ActiveRows')
  PROVE  CatalogFits
<1>1. FilesStay
  BY DEF FilesStay
<1>2. AllRows' = AllRows
  <2>1. {catalog'[i].rows : i \in Ids'} = {catalog[i].rows : i \in Ids}
    OBVIOUS
  <2> QED BY <2>1 DEF AllRows, RowsOf
<1>3. FilesAsMade'
  <2>1. OldRows' = OldRows
    BY <1>1, StayFacts
  <2>2. ASSUME NEW i \in Ids \ OldIds PROVE FileAsMade(catalog'[i], OldRows)
    <3>1. FileAsMade(catalog[i], OldRows)
      BY DEF HistoryInv, FilesAsMade
    <3> QED BY <3>1 DEF FileAsMade
  <2>3. OldIds \subseteq Ids
    BY DEF HistoryInv, FilesAsMade
  <2> QED BY <2>1, <2>2, <2>3 DEF FilesAsMade
<1>4. Dominated(AllRows, ActiveRows)
  BY DEF HistoryInv, RowsCovered
<1> QED BY <1>1, <1>2, <1>3, <1>4 DEF CatalogFits

LEMMA CatalogKept ==
  ASSUME HistoryInv, catalog' = catalog
  PROVE  CatalogFits
<1>1. \A i \in Ids \ OldIds : FileAsMade(catalog[i], OldRows)
  BY DEF HistoryInv, FilesAsMade
<1>2. Ids' = Ids /\ \A i \in Ids : catalog'[i] = catalog[i]
  BY DEF Ids
<1>3. \A i \in Ids \ OldIds : catalog'[i].lifecycle = "active"
  BY <1>1, <1>2 DEF FileAsMade
<1>4. ActiveRows' = ActiveRows
  BY DEF ActiveRows, RowsOf, IdsActive, Ids
<1>5. Dominated(AllRows, ActiveRows')
  BY <1>4 DEF HistoryInv, RowsCovered
<1>6. catalog' \in Seq(HistoryFiles)
  BY CatalogTyped
<1> QED BY <1>2, <1>3, <1>5, <1>6, FilesRelabelled

LEMMA StoreFits ==
  ASSUME HistoryInv, NEW post \in Recrawled, NEW v \in PostVersions, CrawlerStores(post, v)
  PROVE  /\ CatalogFits
         /\ [uid |-> post, version |-> v] \in HistoryRows
         /\ ActiveRows' = ActiveRows \cup {[uid |-> post, version |-> v]}
<1> DEFINE row == [uid |-> post, version |-> v]
           file == CatalogRow({row}, "uploaded", NoName)
<1>1. catalog' = Append(catalog, file)
  BY DEF CrawlerStores
<1>2. row \in HistoryRows
  BY HistoryAssumption DEF HistoryRows
<1>3. file \in HistoryFiles /\ FileAsMade(file, OldRows) /\ file.rows = {row} /\ file.storage = "uploaded"
  BY <1>2 DEF CatalogRow, HistoryFiles, FileAsMade
<1> HIDE DEF file
<1>4. /\ FilesStay /\ catalog' \in Seq(HistoryFiles) /\ FilesAsMade'
      /\ AllRows' = AllRows \cup {row} /\ ActiveRows' = ActiveRows \cup {row}
  BY <1>1, <1>3, FileAdded
<1>5. Dominated(AllRows, ActiveRows)
  BY DEF HistoryInv, RowsCovered
<1>6. v \in Nat
  BY DEF PostVersions
<1>7. Dominated(AllRows', ActiveRows')
  BY <1>4, <1>5, <1>6 DEF Dominated
<1>8. CrawlerSteps
  BY DEF CrawlerSteps
<1> QED BY <1>2, <1>4, <1>7, <1>8 DEF CatalogFits

LEMMA RegisterFits ==
  ASSUME HistoryInv, RegisterOutput
  PROVE  CatalogFits
<1>1. CASE catalog' = catalog
  BY <1>1, CatalogKept
<1>2. CASE catalog' # catalog
  <2> DEFINE first == Min(todo)
             file == CatalogRow(output[first], "local", Path)
  <2>1. catalog' = Append(catalog, file)
    BY <1>2 DEF RegisterOutput
  <2>2. todo \in SUBSET Nat /\ todo # {} /\ todo \subseteq Outputs
    <3>1. script = "publish"
      BY DEF RegisterOutput, Goes
    <3> QED BY <3>1, HistoryAssumption DEF HistoryInv, HistoryTypeOK, PublishReady
  <2>3. first \in todo
    BY <2>2, MinIsElement
  <2> HIDE DEF first
  <2>4. first \in PostPartitions /\ output[first] # {}
    BY <2>2, <2>3 DEF Outputs
  <2>5. CompactRows(output[first], first, OldRows) /\ attempt # 0
    BY <2>4 DEF HistoryInv, OutputAsWritten
  <2>6. Path = <<attempt, first>> /\ Path \in Names
    <3>1. attempt \in 1 .. MaxAttempts
      <4>1. attempt \in 0 .. MaxAttempts /\ MaxAttempts \in Nat
        BY HistoryAssumption DEF HistoryInv, HistoryTypeOK
      <4>2. attempt # 0
        BY <2>5
      <4> QED BY <4>1, <4>2
    <3>2. Path = <<attempt, first>>
      BY DEF Path, first
    <3> QED BY <3>1, <3>2, <2>4 DEF Names
  <2>7. file \in HistoryFiles /\ FileAsMade(file, OldRows) /\ file.rows = output[first]
        /\ file.storage = "local"
    BY <2>5, <2>6 DEF CatalogRow, HistoryFiles, FileAsMade, CompactRows
  <2> HIDE DEF file
  <2>8. /\ FilesStay /\ catalog' \in Seq(HistoryFiles) /\ FilesAsMade'
        /\ AllRows' = AllRows \cup output[first] /\ ActiveRows' = ActiveRows
    BY <2>1, <2>7, FileAdded
  <2>9. Dominated(AllRows, ActiveRows) /\ Dominated(output[first], ActiveRows)
    BY <2>4 DEF HistoryInv, RowsCovered
  <2>10. Dominated(AllRows', ActiveRows)
    BY <2>8, <2>9 DEF Dominated
  <2> QED BY <2>8, <2>10 DEF CatalogFits
<1> QED BY <1>1, <1>2

(* A file that becomes remote adds rows to the active ones, nothing more.   *)
LEMMA UploadFits ==
  ASSUME HistoryInv, NEW S,
         catalog' = [i \in Ids |-> IF i \in S THEN [catalog[i] EXCEPT !.storage = "uploaded"] ELSE catalog[i]]
  PROVE  CatalogFits
<1>1. Ids' = Ids /\ catalog' \in Seq(HistoryFiles)
  <2>1. \A i \in 1 .. Len(catalog) :
          (IF i \in S THEN [catalog[i] EXCEPT !.storage = "uploaded"] ELSE catalog[i]) \in HistoryFiles
    BY CatalogTyped DEF HistoryFiles
  <2> QED BY <2>1, CatalogTyped DEF Ids
<1>2. \A i \in Ids : /\ catalog'[i].rows = catalog[i].rows /\ catalog'[i].name = catalog[i].name
                     /\ catalog'[i].lifecycle = catalog[i].lifecycle
                     /\ catalog[i].storage = "uploaded" => catalog'[i].storage = "uploaded"
  BY CatalogTyped DEF HistoryFiles
<1>3. \A i \in Ids \ OldIds : catalog'[i].lifecycle = "active"
  BY <1>2 DEF HistoryInv, FilesAsMade, FileAsMade
<1>4. ActiveRows \subseteq ActiveRows'
  <2> SUFFICES ASSUME NEW r \in ActiveRows PROVE r \in ActiveRows'
    OBVIOUS
  <2>1. PICK i \in IdsActive : r \in catalog[i].rows
    BY DEF ActiveRows, RowsOf
  <2>2. i \in IdsActive' /\ r \in catalog'[i].rows
    BY <1>1, <1>2, <2>1 DEF IdsActive
  <2> QED BY <2>2 DEF ActiveRows, RowsOf
<1>5. Dominated(AllRows, ActiveRows')
  BY <1>4 DEF HistoryInv, RowsCovered, Dominated
<1> QED BY <1>1, <1>2, <1>3, <1>5, FilesRelabelled

(* The old files leave once the new ones hold every record of theirs.       *)
LEMMA RetireFits ==
  ASSUME HistoryInv, CountsTellApart, NewFilesFit,
         catalog' = [i \in Ids |-> IF i \in OldIds THEN [catalog[i] EXCEPT !.lifecycle = "superseded"]
                                   ELSE [catalog[i] EXCEPT !.lifecycle = "active"]]
  PROVE  CatalogFits
<1>1. Ids' = Ids /\ catalog' \in Seq(HistoryFiles)
  <2>1. \A i \in 1 .. Len(catalog) :
          (IF i \in OldIds THEN [catalog[i] EXCEPT !.lifecycle = "superseded"]
           ELSE [catalog[i] EXCEPT !.lifecycle = "active"]) \in HistoryFiles
    BY CatalogTyped DEF HistoryFiles
  <2> QED BY <2>1, CatalogTyped DEF Ids
<1>2. \A i \in Ids : /\ catalog'[i].rows = catalog[i].rows /\ catalog'[i].name = catalog[i].name
                     /\ catalog'[i].storage = catalog[i].storage
  BY CatalogTyped DEF HistoryFiles
<1>3. \A i \in Ids \ OldIds : catalog'[i].lifecycle = "active"
  BY CatalogTyped DEF HistoryFiles
<1>4. \A i \in NewIds : i \in IdsActive' /\ catalog'[i].rows = catalog[i].rows
  <2> SUFFICES ASSUME NEW i \in NewIds PROVE i \in IdsActive' /\ catalog'[i].rows = catalog[i].rows
    OBVIOUS
  <2>1. i \in Ids \ OldIds /\ catalog[i].storage = "uploaded"
    BY OldAndNew DEF NewFilesFit
  <2> QED BY <2>1, <1>1, <1>2, <1>3 DEF IdsActive
<1>5. Dominated(OldRows, ActiveRows')
  <2> SUFFICES ASSUME NEW q \in OldRows
               PROVE  \E r \in ActiveRows' : r.uid = q.uid /\ q.version <= r.version
    BY DEF Dominated
  <2>1. PICK i \in NewIds : \E r \in catalog[i].rows : r.uid = q.uid /\ q.version <= r.version
    BY NewFilesCover
  <2>2. catalog[i].rows \subseteq ActiveRows'
    BY <1>4 DEF ActiveRows, RowsOf
  <2> QED BY <2>1, <2>2
<1>6. ActiveRows \subseteq OldRows \cup ActiveRows'
  <2> SUFFICES ASSUME NEW r \in ActiveRows, r \notin OldRows PROVE r \in ActiveRows'
    OBVIOUS
  <2>1. PICK i \in IdsActive : r \in catalog[i].rows
    BY DEF ActiveRows, RowsOf
  <2>2. i \in Ids \ OldIds /\ catalog[i].storage = "uploaded"
    BY <2>1 DEF OldRows, RowsOf, IdsActive
  <2>3. i \in IdsActive' /\ r \in catalog'[i].rows
    BY <2>1, <2>2, <1>1, <1>2, <1>3 DEF IdsActive
  <2> QED BY <2>3 DEF ActiveRows, RowsOf
<1>7. ActiveRows' \subseteq HistoryRows
  <2> SUFFICES ASSUME NEW r \in ActiveRows' PROVE r \in HistoryRows
    OBVIOUS
  <2>1. PICK i \in Ids : r \in catalog'[i].rows
    BY <1>1 DEF ActiveRows, RowsOf, IdsActive
  <2>2. r \in AllRows
    BY <2>1, <1>2 DEF AllRows, RowsOf
  <2> QED BY <2>2, CatalogTyped
<1>8. Dominated(ActiveRows', ActiveRows')
  BY <1>7, DominatedBySame
<1>9. Dominated(ActiveRows, ActiveRows')
  BY <1>5, <1>6, <1>8 DEF Dominated
<1>10. Dominated(AllRows, ActiveRows')
  <2>1. Dominated(AllRows, ActiveRows)
    BY DEF HistoryInv, RowsCovered
  <2>2. ActiveRows \subseteq HistoryRows /\ AllRows \subseteq HistoryRows
    BY CatalogTyped
  <2> DEFINE after == ActiveRows'
  <2>3. after \in SUBSET HistoryRows /\ Dominated(ActiveRows, after)
    BY <1>7, <1>9
  <2> HIDE DEF after
  <2>4. Dominated(AllRows, after)
    BY <2>1, <2>2, <2>3, DominatedTwice
  <2> QED BY <2>4 DEF after
<1> QED BY <1>1, <1>2, <1>3, <1>10, FilesRelabelled

(* Which steps write which variable.                                        *)
LEMMA WhoWrites ==
  ASSUME HistoryNext
  PROVE  /\ \/ catalog' = catalog \/ CrawlerSteps \/ RegisterOutput \/ MarkOutput
            \/ CommitRetirement \/ CommitMigration \/ \E i \in Ids : RepairRemote(i)
         /\ seen' = seen \/ WriteHashes \/ \E r \in uncommitted : CrawlerCommits(r)
         /\ uncommitted' \subseteq uncommitted \/ CrawlerSteps
         /\ crawls' = crawls \/ CrawlerSteps
         /\ output' = output \/ ReadSources \/ (script = "write" /\ WriteClean)
         /\ attempt' = attempt \/ ReadSources
         /\ work' \subseteq work \/ ReadActiveHistory \/ ReadLocalHistory \/ ReadSources
         /\ todo' \subseteq todo \/ SafetyGate \/ CheckOutput
BY DEF HistoryNext, CrawlerSteps, CrawlerStores, CrawlerCommits, HashScripts, CompactScript, PublishScript,
   RetireScripts, ReadActiveHistory, ReadLocalHistory, WriteHashes, ReadSources, SafetyGate, WriteClean,
   CheckOutput, RegisterOutput, MarkOutput, CheckRetirement, VerifyRetirement, CommitRetirement,
   CheckMigration, VerifyMigration, CommitMigration, ScriptEnds, RepairRemote

LEMMA CatalogStep ==
  ASSUME HistoryInv, CountsTellApart, HistoryNext
  PROVE  CatalogFits
<1>1. CASE catalog' = catalog
  BY <1>1, CatalogKept
<1>2. CASE CrawlerSteps
  BY <1>2, StoreFits DEF CrawlerSteps
<1>3. CASE RegisterOutput
  BY <1>3, RegisterFits
<1>4. CASE MarkOutput
  <2>1. catalog' = [i \in Ids |-> IF i \in Published THEN [catalog[i] EXCEPT !.storage = "uploaded"]
                                  ELSE catalog[i]]
    BY <1>4 DEF MarkOutput
  <2> QED BY <2>1, UploadFits
<1>5. CASE CommitRetirement \/ CommitMigration
  <2>1. NewFilesFit
    BY <1>5 DEF CommitRetirement, CommitMigration, Goes, HistoryInv, RetireReady
  <2>2. \A i \in Ids \ OldIds : [catalog[i] EXCEPT !.lifecycle = "active"] = catalog[i]
    <3> SUFFICES ASSUME NEW i \in Ids \ OldIds
                 PROVE  [catalog[i] EXCEPT !.lifecycle = "active"] = catalog[i]
      OBVIOUS
    <3>1. catalog[i].lifecycle = "active" /\ catalog[i] \in HistoryFiles
      BY CatalogTyped DEF HistoryInv, FilesAsMade, FileAsMade
    <3> QED BY <3>1 DEF HistoryFiles
  <2>3. catalog' = [i \in Ids |-> IF i \in OldIds THEN [catalog[i] EXCEPT !.lifecycle = "superseded"]
                                  ELSE [catalog[i] EXCEPT !.lifecycle = "active"]]
    BY <1>5, <2>2 DEF CommitRetirement, CommitMigration, Supersede
  <2> QED BY <2>1, <2>3, RetireFits
<1>6. ASSUME NEW i \in Ids, RepairRemote(i) PROVE CatalogFits
  <2>1. catalog' = [k \in Ids |-> IF k \in {i} THEN [catalog[k] EXCEPT !.storage = "uploaded"]
                                  ELSE catalog[k]]
    BY <1>6, CatalogTyped DEF RepairRemote, Ids
  <2> QED BY <2>1, UploadFits
<1> QED BY <1>1, <1>2, <1>3, <1>4, <1>5, <1>6, WhoWrites

------------------------------------------------------------------------------
(* Every step of the crawler and the scripts *)

(* What a step leaves of the old rows, and of what the active ones dominate.*)
LEMMA AfterStep ==
  ASSUME HistoryInv, CountsTellApart, HistoryNext
  PROVE  /\ OldRows' = OldRows /\ AllRows \subseteq AllRows'
         /\ NewFilesFit => NewFilesFit'
         /\ ActiveRows' \subseteq HistoryRows
         /\ \A S \in SUBSET HistoryRows : Dominated(S, ActiveRows) => Dominated(S, ActiveRows')
<1>1. CatalogFits
  BY CatalogStep
<1>2. OldRows' = OldRows /\ AllRows \subseteq AllRows' /\ (NewFilesFit => NewFilesFit')
  BY <1>1, StayFacts DEF CatalogFits
<1> DEFINE before == ActiveRows
           after == ActiveRows'
<1>3. before \in SUBSET HistoryRows /\ before \subseteq AllRows'
  BY <1>2, CatalogTyped
<1>4. after \in SUBSET HistoryRows
  <2> SUFFICES ASSUME NEW r \in ActiveRows' PROVE r \in HistoryRows
    OBVIOUS
  <2>1. catalog' \in Seq(HistoryFiles)
    BY <1>1 DEF CatalogFits
  <2>2. PICK i \in Ids' : r \in catalog'[i].rows
    BY DEF ActiveRows, RowsOf, IdsActive
  <2>3. catalog'[i] \in HistoryFiles
    BY <2>1 DEF Ids
  <2> QED BY <2>2, <2>3 DEF HistoryFiles
<1>5. Dominated(before, after)
  BY <1>1, <1>3 DEF CatalogFits, Dominated
<1> HIDE DEF before, after
<1>6. \A S \in SUBSET HistoryRows : Dominated(S, before) => Dominated(S, after)
  BY <1>3, <1>4, <1>5, DominatedTwice
<1> QED BY <1>2, <1>4, <1>6 DEF before, after

LEMMA HistoryTypesStep ==
  ASSUME HistoryInv, CountsTellApart, HistoryNext
  PROVE  HistoryTypeOK'
<1> DEFINE Scripts == {"idle", "hashes", "gate", "write", "publish", "mark",
                       "retire", "commit", "migrate", "commit migration"}
<1>1. catalog' \in Seq(HistoryFiles)
  BY CatalogStep DEF CatalogFits
<1>2. script' \in Scripts
  <2>1. script \in Scripts
    BY DEF HistoryInv, HistoryTypeOK
  <2> QED
    BY <2>1
    DEF HistoryNext, CrawlerStores, CrawlerCommits, HashScripts, CompactScript, PublishScript, RetireScripts,
        ReadActiveHistory, ReadLocalHistory, WriteHashes, ReadSources, SafetyGate, WriteClean,
        CheckOutput, RegisterOutput, MarkOutput, CheckRetirement, VerifyRetirement, CommitRetirement,
        CheckMigration, VerifyMigration, CommitMigration, ScriptEnds, RepairRemote, Goes
<1>3. crawls' \in 0 .. MaxCrawls /\ attempt' \in 0 .. MaxAttempts
  <2>1. crawls \in 0 .. MaxCrawls /\ attempt \in 0 .. MaxAttempts
    BY DEF HistoryInv, HistoryTypeOK
  <2>2. MaxCrawls \in Nat /\ MaxAttempts \in Nat
    BY HistoryAssumption
  <2>3. \/ crawls' = crawls
        \/ crawls < MaxCrawls /\ crawls' = crawls + 1
    BY WhoWrites DEF CrawlerSteps, CrawlerStores
  <2>4. \/ attempt' = attempt
        \/ attempt < MaxAttempts /\ attempt' = attempt + 1
    BY WhoWrites DEF ReadSources
  <2> QED BY <2>1, <2>2, <2>3, <2>4
<1>4. seen' \in [OldPosts -> 0 .. Legacy]
  <2>1. seen \in [OldPosts -> 0 .. Legacy] /\ uncommitted \subseteq HistoryRows /\ work \subseteq HistoryRows
    BY DEF HistoryInv, HistoryTypeOK
  <2>2. \A r \in HistoryRows : r.version \in 0 .. Legacy
    BY HistoryAssumption DEF HistoryRows, PostVersions, Legacy
  <2>3. CASE WriteHashes
    <3>1. ASSUME NEW post \in Known \cap UidsOf(work)
          PROVE  (CHOOSE r \in work : r.uid = post).version \in 0 .. Legacy
      <4>1. \E r \in work : r.uid = post
        BY DEF UidsOf
      <4>2. (CHOOSE r \in work : r.uid = post) \in work
        BY <4>1
      <4> QED BY <4>2, <2>1, <2>2
    <3> QED BY <2>1, <2>3, <3>1 DEF WriteHashes
  <2>4. ASSUME NEW r \in uncommitted, CrawlerCommits(r) PROVE seen' \in [OldPosts -> 0 .. Legacy]
    BY <2>1, <2>2, <2>4 DEF CrawlerCommits
  <2>5. CASE seen' = seen
    BY <2>1, <2>5
  <2> QED BY <2>3, <2>4, <2>5, WhoWrites
<1>5. uncommitted' \subseteq HistoryRows
  <2>1. uncommitted \subseteq HistoryRows
    BY DEF HistoryInv, HistoryTypeOK
  <2>2. ASSUME NEW post \in Recrawled, NEW v \in PostVersions, CrawlerStores(post, v)
        PROVE  uncommitted' \subseteq HistoryRows
    BY <2>1, <2>2, HistoryAssumption DEF CrawlerStores, HistoryRows
  <2>3. CASE uncommitted' \subseteq uncommitted
    BY <2>1, <2>3
  <2> QED BY <2>2, <2>3, WhoWrites DEF CrawlerSteps
<1>6. work' \subseteq HistoryRows
  <2>1. LatestRows(RowsOf(IdsActive)) \subseteq HistoryRows
    BY CatalogTyped DEF LatestRows, ActiveRows
  <2>2. catalog[LocalId].rows \subseteq HistoryRows
    <3>1. LocalId \in Ids
      BY HistoryAssumption DEF HistoryInv, FilesAsMade
    <3>2. catalog[LocalId] \in HistoryFiles
      BY <3>1, CatalogTyped
    <3> QED BY <3>2 DEF HistoryFiles
  <2>3. work \subseteq HistoryRows
    BY DEF HistoryInv, HistoryTypeOK
  <2> QED
    BY <2>1, <2>2, <2>3, WhoWrites DEF ReadActiveHistory, ReadLocalHistory, ReadSources
<1>7. output' \in [PostPartitions -> SUBSET HistoryRows]
  <2>1. output \in [PostPartitions -> SUBSET HistoryRows] /\ work \subseteq HistoryRows
    BY DEF HistoryInv, HistoryTypeOK
  <2>2. CASE ReadSources
    BY <2>2 DEF ReadSources
  <2>3. CASE WriteClean
    BY <2>1, <2>3 DEF WriteClean
  <2>4. CASE output' = output
    BY <2>1, <2>4
  <2> QED BY <2>2, <2>3, <2>4, WhoWrites
<1>8. todo' \subseteq PostPartitions
  <2>1. todo \subseteq PostPartitions
    BY DEF HistoryInv, HistoryTypeOK
  <2>2. CASE SafetyGate
    BY <2>2, HistoryAssumption DEF SafetyGate, Known
  <2>3. CASE CheckOutput
    BY <2>3 DEF CheckOutput, Outputs
  <2>4. CASE todo' \subseteq todo
    BY <2>1, <2>4
  <2> QED BY <2>2, <2>3, <2>4, WhoWrites
<1> QED BY <1>1, <1>2, <1>3, <1>4, <1>5, <1>6, <1>7, <1>8 DEF HistoryTypeOK, HistoryFiles

LEMMA WorkStep ==
  ASSUME HistoryInv, CountsTellApart, HistoryNext
  PROVE  WorkAsRead'
<1>1. OldRows' = OldRows
  BY AfterStep
<1>2. CASE ReadSources
  <2>1. work' = LatestRows(ActiveRows) /\ script' = "gate" /\ attempt' = attempt + 1
    BY <1>2 DEF ReadSources, Goes, ActiveRows
  <2>2. attempt \in Nat
    <3>1. attempt \in 0 .. MaxAttempts
      BY DEF HistoryInv, HistoryTypeOK
    <3> QED BY <3>1, HistoryAssumption
  <2>3. Dominated(OldRows, ActiveRows)
    BY CatalogTyped DEF HistoryInv, RowsCovered, Dominated
  <2>4. OnePerUid(work') /\ NotOlder(work', OldRows)
    BY <2>1, <2>3, CatalogTyped, LatestDominates, LatestIsNotOlder
  <2> QED BY <1>1, <2>1, <2>2, <2>4 DEF WorkAsRead
<1>3. CASE SafetyGate
  <2>1. script = "gate" /\ script' = "write" /\ UNCHANGED <<attempt, work>>
        /\ UidsOf(work) = Known /\ todo' = {PartitionOf[post] : post \in Known}
    BY <1>3 DEF SafetyGate, Goes
  <2>2. Known = OldPosts
    BY DEF HistoryInv, HashHasRow, Known
  <2>3. todo' # {}
    BY <2>1, <2>2, HistoryAssumption
  <2> QED BY <1>1, <2>1, <2>2, <2>3 DEF HistoryInv, WorkAsRead
<1>4. CASE script = "write" /\ WriteClean
  <2> DEFINE p == Min(todo)
  <2>1. todo' = todo \ {p} /\ attempt' = attempt
        /\ script' = (IF todo = {p} THEN "idle" ELSE "write")
        /\ work' = (IF todo = {p} THEN {} ELSE work)
    BY <1>4 DEF WriteClean, Goes
  <2> HIDE DEF p
  <2>2. CASE todo = {p}
    BY <2>1, <2>2 DEF WorkAsRead
  <2>3. CASE todo # {p}
    <3>1. todo # {}
      BY <1>4 DEF HistoryInv, WorkAsRead
    <3>2. todo' # {} /\ work' = work /\ script' = "write"
      BY <2>1, <2>3, <3>1
    <3> QED BY <1>1, <1>4, <2>1, <3>2 DEF HistoryInv, WorkAsRead
  <2> QED BY <2>2, <2>3
<1>5. CASE UNCHANGED <<attempt, script, work, todo>>
  BY <1>1, <1>5 DEF HistoryInv, WorkAsRead
<1>6. CASE script' \notin {"gate", "write"}
  BY <1>6 DEF WorkAsRead
<1> QED
  BY <1>2, <1>3, <1>4, <1>5, <1>6
  DEF HistoryNext, CrawlerStores, CrawlerCommits, HashScripts, CompactScript, PublishScript, RetireScripts,
      ReadActiveHistory, ReadLocalHistory, WriteHashes, CheckOutput, RegisterOutput, MarkOutput,
      CheckRetirement, VerifyRetirement, CommitRetirement, CheckMigration, VerifyMigration, CommitMigration,
      ScriptEnds, RepairRemote, Goes

LEMMA OutputStep ==
  ASSUME HistoryInv, CountsTellApart, HistoryNext
  PROVE  OutputAsWritten'
<1>1. OldRows' = OldRows
  BY AfterStep
<1>2. CASE ReadSources
  BY <1>2 DEF ReadSources, OutputAsWritten
<1>3. CASE script = "write" /\ WriteClean
  <2> DEFINE p == Min(todo)
             rows == {r \in work : PartitionOf[r.uid] = p}
  <2>1. output' = [output EXCEPT ![p] = rows] /\ attempt' = attempt
    BY <1>3 DEF WriteClean
  <2>2. /\ attempt # 0 /\ OnePerUid(work) /\ NotOlder(work, OldRows) /\ UidsOf(work) = OldPosts
        /\ work \subseteq HistoryRows
    BY <1>3 DEF HistoryInv, HistoryTypeOK, WorkAsRead
  <2> HIDE DEF p
  <2>3. UidsOf(rows) = {post \in OldPosts : PartitionOf[post] = p}
    BY <2>2 DEF UidsOf
  <2>4. CompactRows(rows, p, OldRows)
    BY <2>2, <2>3 DEF CompactRows, OnePerUid, NotOlder
  <2>5. output \in [PostPartitions -> SUBSET HistoryRows]
    BY DEF HistoryInv, HistoryTypeOK
  <2> HIDE DEF rows
  <2>6. \A q \in PostPartitions : output'[q] = {} \/ CompactRows(output'[q], q, OldRows)
    BY <2>1, <2>4, <2>5 DEF HistoryInv, OutputAsWritten
  <2> QED BY <1>1, <2>1, <2>2, <2>6 DEF OutputAsWritten
<1>4. CASE UNCHANGED <<output, attempt>>
  BY <1>1, <1>4 DEF HistoryInv, OutputAsWritten
<1> QED BY <1>2, <1>3, <1>4, WhoWrites

LEMMA PublishStep ==
  ASSUME HistoryInv, CountsTellApart, HistoryNext
  PROVE  PublishReady'
<1>1. CASE CheckOutput
  <2>1. Outputs # {}
    <3>1. Cardinality(Outputs) = Cardinality(PostPartitions)
      BY <1>1, HistoryAssumption DEF CheckOutput
    <3>2. PostPartitions # {} /\ IsFiniteSet(PostPartitions)
      BY HistoryAssumption
    <3> QED BY <3>1, <3>2, FS_EmptySet
  <2>2. todo' = Outputs /\ Outputs' = Outputs
    BY <1>1 DEF CheckOutput, Outputs
  <2> QED BY <2>1, <2>2 DEF PublishReady
<1>2. CASE MarkOutput
  <2> DEFINE p == Min(todo)
  <2>1. todo' = todo \ {p} /\ Outputs' = Outputs /\ script = "mark"
        /\ script' = (IF todo = {p} THEN "idle" ELSE "publish")
    BY <1>2 DEF MarkOutput, Goes, Outputs
  <2> HIDE DEF p
  <2>2. todo # {} /\ todo \subseteq Outputs
    BY <2>1 DEF HistoryInv, PublishReady
  <2>3. CASE todo = {p}
    BY <2>1, <2>3 DEF PublishReady
  <2>4. CASE todo # {p}
    <3>1. todo' # {} /\ todo' \subseteq Outputs'
      BY <2>1, <2>2, <2>4
    <3> QED BY <3>1 DEF PublishReady
  <2> QED BY <2>3, <2>4
<1>3. CASE RegisterOutput
  BY <1>3 DEF RegisterOutput, Goes, HistoryInv, PublishReady, Outputs
<1>4. CASE UNCHANGED <<output, script, todo>>
  BY <1>4 DEF HistoryInv, PublishReady, Outputs
<1>5. CASE script' \notin {"publish", "mark"}
  BY <1>5 DEF PublishReady
<1> QED
  BY <1>1, <1>2, <1>3, <1>4, <1>5
  DEF HistoryNext, CrawlerStores, CrawlerCommits, HashScripts, CompactScript, PublishScript, RetireScripts,
      ReadActiveHistory, ReadLocalHistory, WriteHashes, ReadSources, SafetyGate, WriteClean,
      CheckRetirement, VerifyRetirement, CommitRetirement, CheckMigration, VerifyMigration, CommitMigration,
      ScriptEnds, RepairRemote, Goes

LEMMA RetireStep ==
  ASSUME HistoryInv, CountsTellApart, HistoryNext
  PROVE  RetireReady'
<1>1. NewFilesFit => NewFilesFit'
  BY AfterStep
<1>2. CASE CheckRetirement \/ VerifyMigration
  BY <1>1, <1>2 DEF CheckRetirement, VerifyMigration, RetireReady
<1>3. CASE VerifyRetirement
  BY <1>1, <1>3 DEF VerifyRetirement, Goes, HistoryInv, RetireReady
<1>4. CASE script' = script
  BY <1>1, <1>4 DEF HistoryInv, RetireReady
<1>5. CASE script' \notin {"retire", "commit", "commit migration"}
  BY <1>5 DEF RetireReady
<1> QED
  BY <1>2, <1>3, <1>4, <1>5
  DEF HistoryNext, CrawlerStores, CrawlerCommits, HashScripts, CompactScript, PublishScript, RetireScripts,
      ReadActiveHistory, ReadLocalHistory, WriteHashes, ReadSources, SafetyGate, WriteClean,
      CheckOutput, RegisterOutput, MarkOutput, CommitRetirement, CheckMigration, CommitMigration,
      ScriptEnds, RepairRemote, Goes

LEMMA CoveredStep ==
  ASSUME HistoryInv, CountsTellApart, HistoryNext
  PROVE  RowsCovered'
<1>1. \A S \in SUBSET HistoryRows : Dominated(S, ActiveRows) => Dominated(S, ActiveRows')
  BY AfterStep
<1>2. work \subseteq HistoryRows /\ output \in [PostPartitions -> SUBSET HistoryRows]
  BY DEF HistoryInv, HistoryTypeOK
<1>3. /\ Dominated(AllRows, ActiveRows) /\ Dominated(work, ActiveRows)
      /\ \A p \in PostPartitions : Dominated(output[p], ActiveRows)
  BY DEF HistoryInv, RowsCovered
<1>4. work' \subseteq AllRows \cup work
  <2>1. LatestRows(RowsOf(IdsActive)) \subseteq AllRows
    BY CatalogTyped DEF LatestRows, ActiveRows
  <2>2. catalog[LocalId].rows \subseteq AllRows
    <3>1. LocalId \in Ids
      BY HistoryAssumption DEF HistoryInv, FilesAsMade
    <3> QED BY <3>1 DEF AllRows, RowsOf
  <2> QED BY <2>1, <2>2, WhoWrites DEF ReadActiveHistory, ReadLocalHistory, ReadSources
<1>5. ASSUME NEW p \in PostPartitions PROVE output'[p] \subseteq output[p] \cup work
  <2>1. CASE WriteClean
    BY <2>1, <1>2 DEF WriteClean
  <2>2. CASE ReadSources
    BY <2>2 DEF ReadSources
  <2> QED BY <2>1, <2>2, WhoWrites
<1>6. Dominated(work', ActiveRows) /\ \A p \in PostPartitions : Dominated(output'[p], ActiveRows)
  BY <1>3, <1>4, <1>5 DEF Dominated
<1>7. work' \subseteq HistoryRows /\ \A p \in PostPartitions : output'[p] \subseteq HistoryRows
  BY <1>2, <1>4, <1>5, CatalogTyped
<1>8. Dominated(work', ActiveRows') /\ \A p \in PostPartitions : Dominated(output'[p], ActiveRows')
  BY <1>1, <1>6, <1>7
<1>9. Dominated(AllRows', ActiveRows')
  BY CatalogStep DEF CatalogFits
<1> QED BY <1>8, <1>9 DEF RowsCovered

LEMMA HashStep ==
  ASSUME HistoryInv, CountsTellApart, HistoryNext
  PROVE  HashHasRow'
<1> DEFINE HasRow(post, v) == v # 0 /\ (v \in PostVersions => \E r \in AllRows : r.uid = post /\ v <= r.version)
<1>1. AllRows \subseteq AllRows'
  BY AfterStep
<1>2. uncommitted \subseteq AllRows /\ \A post \in OldPosts : HasRow(post, seen[post])
  BY DEF HistoryInv, HashHasRow
<1>3. seen \in [OldPosts -> 0 .. Legacy] /\ uncommitted \subseteq HistoryRows /\ work \subseteq HistoryRows
  BY DEF HistoryInv, HistoryTypeOK
<1>4. \A r \in HistoryRows : r.uid \in OldPosts /\ r.version \in Nat \ {0}
  BY DEF HistoryRows, PostVersions
<1>5. uncommitted' \subseteq AllRows'
  <2>1. ASSUME NEW post \in Recrawled, NEW v \in PostVersions, CrawlerStores(post, v)
        PROVE  uncommitted' \subseteq AllRows'
    <3> DEFINE row == [uid |-> post, version |-> v]
               file == CatalogRow({row}, "uploaded", NoName)
               n == Len(catalog) + 1
    <3>1. catalog' = Append(catalog, file) /\ uncommitted' = uncommitted \cup {row}
      BY <2>1 DEF CrawlerStores
    <3>2. n \in Ids' /\ catalog'[n] = file
      BY <3>1, CatalogTyped DEF Ids
    <3>3. row \in catalog'[n].rows
      BY <3>2 DEF CatalogRow
    <3> HIDE DEF row, file, n
    <3>4. row \in AllRows'
      BY <3>2, <3>3 DEF AllRows, RowsOf
    <3> QED BY <1>1, <1>2, <3>1, <3>4
  <2>2. CASE ~ CrawlerSteps
    <3>1. uncommitted' \subseteq uncommitted
      BY <2>2, WhoWrites
    <3> QED BY <1>1, <1>2, <3>1
  <2> QED BY <2>1, <2>2 DEF CrawlerSteps
<1>6. \A post \in OldPosts : HasRow(post, seen'[post])
  <2>1. ASSUME NEW r \in uncommitted, CrawlerCommits(r)
        PROVE  \A post \in OldPosts : HasRow(post, seen'[post])
    <3>1. r \in AllRows /\ r \in HistoryRows /\ seen' = [seen EXCEPT ![r.uid] = r.version]
      BY <2>1, <1>2, <1>3 DEF CrawlerCommits
    <3>2. HasRow(r.uid, r.version)
      BY <3>1, <1>4
    <3> HIDE DEF HasRow
    <3> QED BY <1>2, <1>3, <3>1, <3>2
  <2>2. CASE WriteHashes
    <3> SUFFICES ASSUME NEW post \in OldPosts PROVE HasRow(post, seen'[post])
      OBVIOUS
    <3>1. CASE post \in Known \cap UidsOf(work)
      <4> DEFINE r == CHOOSE q \in work : q.uid = post
      <4>1. r \in work /\ r.uid = post
        <5>1. \E q \in work : q.uid = post
          BY <3>1 DEF UidsOf
        <5> QED BY <5>1
      <4>2. seen'[post] = r.version
        BY <2>2, <3>1 DEF WriteHashes
      <4> HIDE DEF r
      <4>3. PICK q \in ActiveRows : q.uid = r.uid /\ r.version <= q.version
        BY <4>1 DEF HistoryInv, RowsCovered, Dominated
      <4>4. q \in AllRows
        BY CatalogTyped
      <4> QED BY <4>1, <4>2, <4>3, <4>4, <1>3, <1>4
    <3>2. CASE post \notin Known \cap UidsOf(work)
      <4>1. seen'[post] = seen[post]
        BY <2>2, <3>2 DEF WriteHashes
      <4> QED BY <4>1, <1>2
    <3> QED BY <3>1, <3>2
  <2>3. CASE seen' = seen
    BY <2>3, <1>2
  <2> HIDE DEF HasRow
  <2> QED BY <2>1, <2>2, <2>3, WhoWrites
<1> QED BY <1>1, <1>5, <1>6 DEF HashHasRow

------------------------------------------------------------------------------
LEMMA HistoryStarts == HistoryInit => HistoryInv
<1> SUFFICES ASSUME HistoryInit PROVE HistoryInv
  OBVIOUS
<1> DEFINE Old(local, newer, i) ==
      IF i = LocalId THEN CatalogRow({r \in local : r.uid \in Recrawled}, "local", NoName)
      ELSE CatalogRow({[uid |-> post, version |-> IF post \in newer THEN MaxPostVersion ELSE 1] : post \in OldPosts},
                      "uploaded", NoName)
<1>1. PICK local \in SUBSET [uid : OldPosts, version : {1}], newer \in SUBSET Recrawled :
        catalog = [i \in OldIds |-> Old(local, newer, i)]
  BY DEF HistoryInit
<1>2. \A i \in OldIds : catalog[i] \in HistoryFiles /\ catalog[i].lifecycle = "active"
  BY <1>1, HistoryAssumption DEF CatalogRow, HistoryFiles, HistoryRows, PostVersions
<1>3. Ids = OldIds /\ catalog \in Seq(HistoryFiles)
  <2>1. Ids = OldIds
    BY <1>1 DEF Ids
  <2> DEFINE n == Cardinality(OldIds)
  <2>2. n \in Nat /\ OldIds = 1 .. n
    BY OldAndNew
  <2>3. catalog \in [OldIds -> HistoryFiles]
    BY <1>1, <1>2
  <2> HIDE DEF n
  <2> QED BY <2>1, <2>2, <2>3
<1>4. PICK k \in OldIds : k # LocalId
  BY OldAndNew
<1>5. k \in IdsActive
        /\ \A post \in OldPosts : \E q \in catalog[k].rows : q.uid = post /\ q.version \in PostVersions
  <2>1. catalog[k].rows = {[uid |-> post, version |-> IF post \in newer THEN MaxPostVersion ELSE 1] : post \in OldPosts}
        /\ catalog[k].storage = "uploaded"
    BY <1>1, <1>4 DEF CatalogRow
  <2>2. MaxPostVersion \in PostVersions /\ 1 \in PostVersions
    BY HistoryAssumption DEF PostVersions
  <2>3. \A post \in OldPosts : \E q \in catalog[k].rows : q.uid = post /\ q.version \in PostVersions
    <3> SUFFICES ASSUME NEW post \in OldPosts
                 PROVE  \E q \in catalog[k].rows : q.uid = post /\ q.version \in PostVersions
      OBVIOUS
    <3> DEFINE row == [uid |-> post, version |-> IF post \in newer THEN MaxPostVersion ELSE 1]
    <3>1. row \in catalog[k].rows
      BY <2>1
    <3>2. row.uid = post /\ row.version \in PostVersions
      BY <2>2
    <3> QED BY <3>1, <3>2
  <2> QED BY <1>2, <1>3, <2>1, <2>3 DEF IdsActive
<1>6. ASSUME NEW i \in OldIds PROVE Dominated(catalog[i].rows, ActiveRows)
  <2>1. CASE i = LocalId
    <3>1. \A r \in catalog[i].rows : r.uid \in OldPosts /\ r.version = 1
      BY <1>1, <2>1 DEF CatalogRow
    <3>2. catalog[k].rows \subseteq ActiveRows
      BY <1>5 DEF ActiveRows, RowsOf
    <3>3. \A v \in PostVersions : 1 <= v
      BY DEF PostVersions
    <3>4. \A post \in OldPosts : \E q \in ActiveRows : q.uid = post /\ 1 <= q.version
      BY <1>5, <3>2, <3>3
    <3> QED BY <3>1, <3>4 DEF Dominated
  <2>2. CASE i # LocalId
    <3>1. i \in IdsActive
      BY <1>1, <1>2, <1>3, <2>2 DEF IdsActive, CatalogRow
    <3>2. catalog[i].rows \subseteq ActiveRows
      BY <3>1 DEF ActiveRows, RowsOf
    <3>3. Dominated(catalog[i].rows, catalog[i].rows)
      BY <1>2, DominatedBySame DEF HistoryFiles
    <3> QED BY <3>2, <3>3 DEF Dominated
  <2> QED BY <2>1, <2>2
<1>7. Dominated(AllRows, ActiveRows)
  BY <1>3, <1>6 DEF AllRows, RowsOf, Dominated
<1>8. /\ uncommitted = {} /\ crawls = 0 /\ attempt = 0 /\ script = "idle" /\ work = {} /\ todo = {}
      /\ output = [p \in PostPartitions |-> {}]
      /\ seen \in {[post \in OldPosts |-> Legacy], [post \in OldPosts |-> 1]}
  BY DEF HistoryInit
<1>9. 0 \in 0 .. MaxCrawls /\ 0 \in 0 .. MaxAttempts /\ Legacy \in 0 .. Legacy /\ 1 \in 0 .. Legacy
      /\ Legacy \notin PostVersions /\ Legacy # 0
  BY HistoryAssumption DEF Legacy, PostVersions
<1>10. HistoryTypeOK
  <2>1. seen \in [OldPosts -> 0 .. Legacy]
    BY <1>8, <1>9
  <2>2. crawls \in 0 .. MaxCrawls /\ attempt \in 0 .. MaxAttempts
    BY <1>8, <1>9
  <2> QED BY <1>3, <1>8, <2>1, <2>2 DEF HistoryTypeOK, HistoryFiles
<1>11. FilesAsMade /\ WorkAsRead /\ OutputAsWritten /\ PublishReady /\ RetireReady
  BY <1>3, <1>8 DEF FilesAsMade, WorkAsRead, OutputAsWritten, PublishReady, RetireReady
<1>12. RowsCovered
  BY <1>7, <1>8 DEF RowsCovered, Dominated
<1>13. HashHasRow
  <2>1. ASSUME NEW post \in OldPosts PROVE \E r \in AllRows : r.uid = post /\ 1 <= r.version
    <3>1. PICK q \in catalog[k].rows : q.uid = post /\ q.version \in PostVersions
      BY <1>5
    <3>2. q \in AllRows
      BY <1>3, <3>1 DEF AllRows, RowsOf
    <3> QED BY <3>1, <3>2 DEF PostVersions
  <2>2. \A post \in OldPosts : seen[post] = Legacy \/ seen[post] = 1
    BY <1>8
  <2> QED BY <1>8, <1>9, <2>1, <2>2 DEF HashHasRow
<1> QED BY <1>10, <1>11, <1>12, <1>13 DEF HistoryInv

LEMMA HistoryStep ==
  ASSUME CountsTellApart, HistoryInv, [HistoryNext]_historyVars
  PROVE  HistoryInv'
<1>1. CASE HistoryNext
  <2>1. FilesAsMade'
    BY <1>1, CatalogStep DEF CatalogFits
  <2> QED BY <1>1, <2>1, HistoryTypesStep, WorkStep, OutputStep, PublishStep, RetireStep, CoveredStep, HashStep
          DEF HistoryInv
<1>2. CASE UNCHANGED historyVars
  <2>1. catalog' = catalog /\ seen' = seen /\ uncommitted' = uncommitted /\ crawls' = crawls /\ output' = output
        /\ attempt' = attempt /\ script' = script /\ work' = work /\ todo' = todo
    BY <1>2 DEF historyVars
  <2>2. OldRows' = OldRows /\ AllRows' = AllRows /\ ActiveRows' = ActiveRows /\ Outputs' = Outputs
    BY <2>1 DEF OldRows, AllRows, ActiveRows, RowsOf, IdsActive, Ids, Outputs
  <2>3. FilesAsMade' /\ (NewFilesFit => NewFilesFit')
    BY <2>1, CatalogKept, StayFacts DEF CatalogFits
  <2>4. HistoryTypeOK'
    BY <2>1 DEF HistoryInv, HistoryTypeOK
  <2>5. WorkAsRead' /\ OutputAsWritten' /\ PublishReady'
    BY <2>1, <2>2 DEF HistoryInv, WorkAsRead, OutputAsWritten, PublishReady
  <2>6. RetireReady' /\ RowsCovered' /\ HashHasRow'
    BY <2>1, <2>2, <2>3 DEF HistoryInv, RetireReady, RowsCovered, HashHasRow
  <2> QED BY <2>3, <2>4, <2>5, <2>6 DEF HistoryInv
<1> QED BY <1>1, <1>2

(* Every variable of the scripts keeps its type: files hold rows of the site, *)
(* a plan names files there are, and a script has in hand what it may retire. *)
THEOREM HistoryTypes ==
  ASSUME CountsTellApart
  PROVE  HistorySpec => []HistoryTypeOK
<1>1. HistoryInv => HistoryTypeOK
  BY DEF HistoryInv
<1> QED BY <1>1, HistoryStarts, HistoryStep, PTL DEF HistorySpec

(* The hash of a post is no newer than the active files' row of it.         *)
THEOREM SeenStaysActive ==
  ASSUME CountsTellApart
  PROVE  HistorySpec => []SeenIsActive
<1>1. HistoryInv => SeenIsActive
  <2> SUFFICES ASSUME HistoryInv, NEW post \in OldPosts, seen[post] \in PostVersions
               PROVE  \E i \in Ids : /\ catalog[i].lifecycle = "active"
                                     /\ \E r \in catalog[i].rows : r.uid = post /\ r.version >= seen[post]
    BY DEF SeenIsActive
  <2>1. PICK r \in AllRows : r.uid = post /\ seen[post] <= r.version
    BY DEF HistoryInv, HashHasRow
  <2>2. PICK q \in ActiveRows : q.uid = r.uid /\ r.version <= q.version
    BY DEF HistoryInv, RowsCovered, Dominated
  <2>3. seen[post] \in Nat /\ r.version \in Nat /\ q.version \in Nat
    BY CatalogTyped DEF HistoryRows, PostVersions
  <2>4. q.uid = post /\ q.version >= seen[post]
    BY <2>1, <2>2, <2>3
  <2>5. PICK i \in IdsActive : q \in catalog[i].rows
    BY DEF ActiveRows, RowsOf
  <2> QED BY <2>4, <2>5 DEF IdsActive
<1> QED BY <1>1, HistoryStarts, HistoryStep, PTL DEF HistorySpec

LEMMA LatestTwice ==
  ASSUME NEW rows
  PROVE  LatestRows(LatestRows(rows)) = LatestRows(rows)
BY DEF LatestRows

(* A row no older than the others of its record only replaces them.         *)
LEMMA LatestWithRow ==
  ASSUME NEW rows \in SUBSET HistoryRows, NEW row \in HistoryRows,
         \A r \in rows : r.uid = row.uid => r.version <= row.version
  PROVE  LatestRows(LatestRows(rows) \cup {row}) = LatestRows(rows \cup {row})
<1> DEFINE some == LatestRows(rows) \cup {row}
           all == rows \cup {row}
<1>1. \A r \in all : r.uid \in OldPosts /\ r.version \in Nat /\ r \in HistoryRows
  BY DEF HistoryRows, PostVersions
<1>2. \A r \in all : r.uid = row.uid /\ row.version <= r.version => r = row
  <2> SUFFICES ASSUME NEW r \in rows, r.uid = row.uid, row.version <= r.version PROVE r = row
    OBVIOUS
  <2>1. r.version <= row.version
    OBVIOUS
  <2>2. r.version = row.version
    BY <1>1, <2>1
  <2> QED BY <2>2 DEF HistoryRows
<1>3. some \subseteq all /\ row \in some
  BY DEF LatestRows
<1>4. \A r \in all : r.uid = row.uid => r.version <= row.version
  BY <1>1
<1>5. ASSUME NEW r \in all, r.uid # row.uid
      PROVE  r \in LatestRows(some) <=> r \in LatestRows(all)
  BY <1>5 DEF LatestRows
<1>6. ASSUME NEW r \in all, r.uid = row.uid
      PROVE  (r \in LatestRows(some) <=> r = row) /\ (r \in LatestRows(all) <=> r = row)
  <2>1. row \in LatestRows(all)
    BY <1>4 DEF LatestRows
  <2>2. row \in LatestRows(some)
    BY <1>3, <1>4 DEF LatestRows
  <2>3. r \in LatestRows(all) \/ r \in LatestRows(some) => row.version <= r.version
    BY <1>3, <1>6 DEF LatestRows
  <2> QED BY <1>2, <1>6, <2>1, <2>2, <2>3
<1>7. LatestRows(some) \subseteq all /\ LatestRows(all) \subseteq all
  BY <1>3 DEF LatestRows
<1> HIDE DEF some, all
<1>8. \A r \in all : r \in LatestRows(some) <=> r \in LatestRows(all)
  BY <1>5, <1>6
<1>9. LatestRows(some) = LatestRows(all)
  BY <1>7, <1>8
<1> QED BY <1>9 DEF some, all

(* The scripts lose and add nothing: only the crawler changes what a reader *)
(* finds, by the row it stores.                                             *)
THEOREM HistoryStaysNewest ==
  ASSUME CountsTellApart
  PROVE  HistorySpec => HistoryKeepsNewest
<1>1. \A rows : HistoryNewest!NewestOf(rows) = LatestRows(rows)
  BY DEF HistoryNewest!NewestOf, LatestRows
<1>2. ASSUME HistoryInv, HistoryNext
      PROVE  \E rows \in SUBSET HistoryRows : LatestRows(ActiveRows') = LatestRows(LatestRows(ActiveRows) \cup rows)
  <2> DEFINE before == ActiveRows
             after == ActiveRows'
  <2>1. before \in SUBSET HistoryRows /\ after \in SUBSET HistoryRows
    BY <1>2, AfterStep, CatalogTyped
  <2>2. ASSUME NEW post \in Recrawled, NEW v \in PostVersions, CrawlerStores(post, v)
        PROVE  \E rows \in SUBSET HistoryRows : LatestRows(after) = LatestRows(LatestRows(before) \cup rows)
    <3> DEFINE row == [uid |-> post, version |-> v]
    <3>1. row \in HistoryRows /\ after = before \cup {row}
      BY <1>2, <2>2, StoreFits
    <3>2. \A r \in before : r.uid = row.uid => r.version <= row.version
      BY <1>2, <2>2, CatalogTyped DEF CrawlerStores, AllRows
    <3> HIDE DEF row, before, after
    <3>3. LatestRows(after) = LatestRows(LatestRows(before) \cup {row})
      BY <2>1, <3>1, <3>2, LatestWithRow
    <3> QED BY <3>1, <3>3
  <2>3. CASE ~ CrawlerSteps
    <3>1. CatalogFits
      BY <1>2, CatalogStep
    <3>2. after \subseteq AllRows'
      BY DEF ActiveRows, AllRows, RowsOf, IdsActive
    <3>3. Dominated(after, before)
      BY <2>3, <3>1, <3>2 DEF CatalogFits, Dominated
    <3>4. Dominated(before, after)
      BY <1>2, <2>1, AfterStep, DominatedBySame
    <3> HIDE DEF before, after
    <3>5. LatestRows(after) = LatestRows(before)
      BY <2>1, <3>3, <3>4, AlikeRows
    <3>6. LatestRows(after) = LatestRows(LatestRows(before) \cup {})
      BY <3>5, LatestTwice
    <3> QED BY <3>6 DEF before, after
  <2> QED BY <2>2, <2>3 DEF CrawlerSteps
<1>3. ASSUME HistoryInv, HistoryNext PROVE HistoryNewest!Next
  <2>1. PICK rows \in SUBSET HistoryRows : LatestRows(ActiveRows') = LatestRows(LatestRows(ActiveRows) \cup rows)
    BY <1>2, <1>3
  <2>2. [p \in {1} |-> LatestRows(ActiveRows')]
          = [[p \in {1} |-> LatestRows(ActiveRows)] EXCEPT ![1] = LatestRows(LatestRows(ActiveRows) \cup rows)]
    BY <2>1
  <2>3. HistoryNewest!Put(1, rows)
    BY <1>1, <2>2 DEF HistoryNewest!Put, ActiveRows
  <2>4. rows \in SUBSET HistoryNewest!Rows
    BY DEF HistoryNewest!Rows, HistoryRows
  <2> QED BY <2>3, <2>4 DEF HistoryNewest!Next
<1>4. HistoryInv /\ [HistoryNext]_historyVars => [catalog' # catalog => HistoryNewest!Next]_catalog
  BY <1>3 DEF historyVars
<1> QED BY <1>4, HistoryStarts, HistoryStep, PTL DEF HistorySpec, HistoryKeepsNewest

------------------------------------------------------------------------------
(* Queries: the partitions and buckets that are left out hold no wanted row *)

USE QueryAssumption

LayoutKnown == layout \in Layouts
Counts == {layout.buckets} \cup layout.legacy

(* The calendar is monotone, and a partition begins before its days.        *)
LEMMA Monotone ==
  ASSUME NEW d \in Int, NEW e \in Int, d <= e, NEW days \in Nat \ {0}
  PROVE  d \div days <= e \div days
OBVIOUS

LEMMA Multiples ==
  ASSUME NEW a \in Int, NEW b \in Int, a <= b, NEW days \in Nat \ {0}
  PROVE  a * days <= b * days
OBVIOUS

LEMMA PartitionBegins ==
  ASSUME NEW d \in Int, NEW e \in Int, d <= e, NEW days \in Nat \ {0}
  PROVE  /\ FirstDay(d, days) \in Int /\ FirstDay(e, days) \in Int
         /\ FirstDay(d, days) <= FirstDay(e, days) /\ FirstDay(e, days) <= e
         /\ FirstDay(e, 1) = e
<1> DEFINE a == d \div days
           b == e \div days
<1>1. a \in Int /\ b \in Int
  OBVIOUS
<1>2. a <= b
  BY Monotone
<1>3. b * days <= e
  OBVIOUS
<1> HIDE DEF a, b
<1>4. a * days <= b * days /\ a * days \in Int /\ b * days \in Int
  BY <1>1, <1>2, Multiples
<1>5. FirstDay(d, days) = a * days /\ FirstDay(e, days) = b * days
  BY DEF FirstDay, a, b
<1>6. FirstDay(e, 1) = e
  BY DEF FirstDay
<1>7. QED
  BY <1>3, <1>4, <1>5, <1>6

(* What a file says of each of its rows.                                    *)
InFile(r, f) == \E count \in Counts : f.date = FileOf(r, count).date /\ f.bucket = FileOf(r, count).bucket

LEMMA WantedInRange ==
  ASSUME LayoutKnown, NEW q \in Questions, NEW r \in QueryRows, NEW f,
         Answerable(q), Wanted(q, r), InFile(r, f)
  PROVE  InRange(q, f)
<1> SUFFICES ASSUME HasRange(q) PROVE f.date \in FirstDate(q) .. LastDate(q)
  BY DEF InRange
<1>1. /\ q.first \in Int /\ q.last \in Int /\ q.zone \in Int /\ layout.days \in Nat \ {0}
      /\ r.event \in Int /\ layout.time = "event" /\ r.event # -1
      /\ r.event + q.zone >= 2 * q.first /\ r.event + q.zone < 2 * (q.last + 1)
  BY DEF LayoutKnown, HasRange, Answerable, Wanted, NoDate
<1>2. PICK count \in Counts : f.date = FileOf(r, count).date
  BY DEF InFile
<1> DEFINE d == DayOf(r.event)
           s == DayOf(Start(q))
<1>3. /\ Start(q) \in Int /\ Start(q) <= r.event /\ EndExclusive(q) - 1 \in Int
      /\ r.event <= EndExclusive(q) - 1
  BY <1>1 DEF Start, EndExclusive
<1>4. d \in Int /\ s \in Int /\ s <= d /\ LastDate(q) \in Int /\ d <= LastDate(q)
  BY <1>1, <1>3, Monotone DEF DayOf, LastDate
<1>5. f.date = FirstDay(d, layout.days) \/ f.date = FirstDay(d, 1)
  BY <1>1, <1>2 DEF FileOf, PartitionTime
<1>6. FirstDate(q) = FirstDay(s, layout.days)
  BY DEF FirstDate
<1> HIDE DEF d, s
<1>7. /\ FirstDay(s, layout.days) \in Int /\ FirstDay(d, layout.days) \in Int
      /\ FirstDay(s, layout.days) <= FirstDay(d, layout.days) /\ FirstDay(d, layout.days) <= d
      /\ FirstDay(d, 1) = d
  BY <1>1, <1>4, PartitionBegins
<1>8. QED
  BY <1>4, <1>5, <1>6, <1>7

LEMMA WantedInBuckets ==
  ASSUME LayoutKnown, NEW q \in Questions, NEW r \in QueryRows, NEW f, Wanted(q, r), InFile(r, f)
  PROVE  InBuckets(q, f)
<1> SUFFICES ASSUME q.instruments # {}, ~RelationFilter(q) PROVE f.bucket \in BucketsOf(q)
  BY DEF InBuckets
<1>1. r.instrument \in q.instruments
  BY DEF RelationFilter, Wanted
<1>2. PICK count \in Counts : f.bucket = FileOf(r, count).bucket
  BY DEF InFile
<1>3. QED
  BY <1>1, <1>2 DEF FileOf, BucketsOf, Counts

(* Row by row, the filters that are pushed down and those that are not say   *)
(* what the arguments mean.                                                 *)
LEMMA FiltersMean ==
  ASSUME LayoutKnown, NEW q \in Questions, NEW r \in QueryRows, Answerable(q)
  PROVE  PassesScan(q, r) /\ MatchesRelation(q, r) <=> Wanted(q, r)
<1>1. /\ q.first \in Int /\ q.last \in Int /\ q.zone \in Int /\ r.event \in Int
      /\ layout.relations \in BOOLEAN /\ q.instruments \subseteq Instruments
  BY DEF LayoutKnown
<1>2. /\ q.first # NoDate => (r.event >= Start(q) <=> r.event + q.zone >= 2 * q.first)
      /\ q.last # NoDate => (r.event < EndExclusive(q) <=> r.event + q.zone < 2 * (q.last + 1))
  BY <1>1 DEF Start, EndExclusive
<1>3. CASE RelationFilter(q)
  <2>1. q.columns = {"instrument_id", "relations_json"} /\ q.instruments # {} /\ layout.relations
    BY <1>3 DEF Answerable, RelationFilter, Projected
  <2>2. QED
    BY <1>2, <1>3, <2>1 DEF PassesScan, MatchesRelation, Wanted
<1>4. CASE ~RelationFilter(q)
  BY <1>1, <1>2, <1>4 DEF PassesScan, MatchesRelation, Wanted, RelationFilter
<1>5. QED
  BY <1>3, <1>4

------------------------------------------------------------------------------
(* Queries: the invariant                                                   *)

QTypes ==
  /\ layout \in Layouts /\ files \in [FileIds -> QueryFiles]
  /\ live \subseteq Used /\ listed \subseteq Used /\ toRead \subseteq listed
  /\ question \in Questions \cup {NoQuestion} /\ answer \subseteq listed \X QueryRows
  /\ reading \in {"idle", "files", "done", "raised"}

(* Files are numbered as they are stored, hold what their date and bucket    *)
(* say, and have finitely many rows.                                        *)
QNumbers == \E n \in 0 .. MaxQueryFiles : Used = 1 .. n
QFiles == \A i \in FileIds : \A r \in files[i].rows : InFile(r, files[i])
QFinite == \E rows \in SUBSET QueryRows : IsFiniteSet(rows) /\ \A i \in FileIds : files[i].rows \subseteq rows

(* The wanted rows of some files; what a reader has answered of those it has *)
(* read or left out.                                                        *)
WantedOf(S) == {x \in S \X QueryRows : x[2] \in files[x[1]].rows /\ Wanted(question, x[2])}
Enough(n) == IF question.limit = 0 \/ n < question.limit THEN n ELSE question.limit
AnswersAll(owed) == answer \subseteq owed /\ Cardinality(answer) = Enough(Cardinality(owed))

QReading ==
  /\ reading = "idle" => answer = {}
  /\ reading # "idle" => question \in Questions
  /\ reading = "files" /\ Answerable(question) => AnswersAll(WantedOf(listed \ toRead))
  /\ reading = "done" /\ Answerable(question) => AnswersAll(WantedOf(listed))

QInv == QTypes /\ QNumbers /\ QFiles /\ QFinite /\ QReading

LEMMA QInitially == QueryInit => QInv
<1> SUFFICES ASSUME QueryInit PROVE QInv
  OBVIOUS
<1>1. Used = {}
  BY DEF QueryInit, Used, NoFile
<1>2. NoFile \in QueryFiles
  BY DEF NoFile, QueryFiles
<1>3. QTypes
  BY <1>1, <1>2 DEF QueryInit, QTypes
<1>4. QNumbers
  <2>1. Used = 1 .. 0 /\ 0 \in 0 .. MaxQueryFiles
    BY <1>1
  <2>2. QED
    BY <2>1 DEF QNumbers
<1>5. QFiles /\ QFinite
  BY FS_EmptySet DEF QueryInit, QFiles, QFinite, NoFile
<1>6. QReading
  BY DEF QueryInit, QReading
<1>7. QED
  BY <1>3, <1>4, <1>5, <1>6 DEF QInv

(* The next file has a number no file has.                                  *)
LEMMA NextIsFresh ==
  ASSUME QTypes, QNumbers, Cardinality(Used) < MaxQueryFiles
  PROVE  NextFile \in FileIds /\ NextFile \notin Used /\ \E n \in 0 .. MaxQueryFiles : Used \cup {NextFile} = 1 .. n
<1>1. PICK n \in 0 .. MaxQueryFiles : Used = 1 .. n
  BY DEF QNumbers
<1>2. Cardinality(Used) = n
  <2>1. n \in Int /\ 1 \in Int /\ n >= 0
    BY <1>1
  <2>2. Cardinality(1 .. n) = IF 1 > n THEN 0 ELSE n - 1 + 1
    BY <2>1, FS_Interval
  <2>3. QED
    BY <1>1, <2>1, <2>2
<1>3. NextFile = n + 1 /\ n + 1 \in 0 .. MaxQueryFiles
  BY <1>2 DEF NextFile
<1>4. 1 .. (n + 1) = (1 .. n) \cup {n + 1}
  OBVIOUS
<1>5. QED
  BY <1>1, <1>3, <1>4 DEF FileIds

LEMMA WantedFinite ==
  ASSUME QInv, NEW S \in SUBSET FileIds
  PROVE  IsFiniteSet(WantedOf(S))
<1>1. PICK rows \in SUBSET QueryRows : IsFiniteSet(rows) /\ \A i \in FileIds : files[i].rows \subseteq rows
  BY DEF QInv, QFinite
<1>2. IsFiniteSet(FileIds)
  BY FS_Interval DEF FileIds
<1>3. IsFiniteSet(FileIds \X rows)
  BY <1>1, <1>2, FS_Product
<1>4. WantedOf(S) \subseteq FileIds \X rows
  BY <1>1 DEF WantedOf
<1>5. QED
  BY <1>3, <1>4, FS_Subset

(* A new file changes nothing for a reader.                                 *)
LEMMA NewFile ==
  ASSUME QInv, Cardinality(Used) < MaxQueryFiles,
         NEW f \in QueryFiles, f.rows # {}, IsFiniteSet(f.rows), \A r \in f.rows : InFile(r, f),
         files' = [files EXCEPT ![NextFile] = f], live' \subseteq live \cup {NextFile},
         UNCHANGED <<layout, question, reading, toRead, answer, listed>>
  PROVE  QInv'
<1>1. /\ NextFile \in FileIds /\ NextFile \notin Used
      /\ \E n \in 0 .. MaxQueryFiles : Used \cup {NextFile} = 1 .. n
      /\ files \in [FileIds -> QueryFiles]
  BY NextIsFresh DEF QInv, QTypes
<1> DEFINE new == NextFile
<1> HIDE DEF new
<1>2. /\ files' \in [FileIds -> QueryFiles] /\ files'[new] = f
      /\ \A i \in FileIds \ {new} : files'[i] = files[i]
  BY <1>1 DEF new
<1>3. Used' = Used \cup {new}
  BY <1>1, <1>2 DEF Used, new
<1>4. QTypes'
  BY <1>1, <1>2, <1>3 DEF QInv, QTypes, new
<1>5. QNumbers'
  BY <1>1, <1>3 DEF QNumbers, new
<1>6. \A r, g : InFile(r, g)' = InFile(r, g)
  BY DEF InFile, Counts, FileOf, FirstDay, DayOf, PartitionTime, BucketOf
<1>7. QFiles'
  BY <1>2, <1>6 DEF QInv, QFiles
<1>8. QFinite'
  <2>1. PICK rows \in SUBSET QueryRows : IsFiniteSet(rows) /\ \A i \in FileIds : files[i].rows \subseteq rows
    BY DEF QInv, QFinite
  <2>2. IsFiniteSet(rows \cup f.rows) /\ rows \cup f.rows \in SUBSET QueryRows
    BY <2>1, FS_Union DEF QueryFiles
  <2>3. \A i \in FileIds : files'[i].rows \subseteq rows \cup f.rows
    BY <1>2, <2>1
  <2>4. QED
    BY <2>2, <2>3 DEF QFinite
<1>9. QReading'
  <2>1. new \notin listed /\ listed \subseteq FileIds
    BY <1>1 DEF QInv, QTypes, new, Used
  <2>2. WantedOf(listed)' = WantedOf(listed) /\ WantedOf(listed \ toRead)' = WantedOf(listed \ toRead)
    BY <1>2, <2>1 DEF WantedOf, Wanted
  <2>3. QED
    BY <2>2 DEF QInv, QReading, AnswersAll, Enough, Answerable, RelationFilter, HasRange
<1>10. QED
  BY <1>4, <1>5, <1>7, <1>8, <1>9 DEF QInv

LEMMA StoreRowStep ==
  ASSUME QInv, NEW r \in QueryRows, NEW count \in Counts, StoreRow(r, count) PROVE QInv'
<1> DEFINE f == FileOf(r, count)
<1>1. /\ Cardinality(Used) < MaxQueryFiles /\ files' = [files EXCEPT ![NextFile] = f]
      /\ live' \subseteq live \cup {NextFile} /\ UNCHANGED <<layout, question, reading, toRead, answer, listed>>
  BY DEF StoreRow
<1>2. f.rows = {r} /\ InFile(r, f)
  BY DEF FileOf, InFile
<1>3. f \in QueryFiles
  <2>1. /\ layout.days \in Nat \ {0} /\ count \in Nat \ {0} /\ HashOf[r.instrument] \in Nat
        /\ PartitionTime(r) \in Int
    BY DEF QInv, QTypes, Counts, PartitionTime
  <2>2. FirstDay(DayOf(PartitionTime(r)), IF count = layout.buckets THEN layout.days ELSE 1) \in Int
    BY <2>1 DEF FirstDay, DayOf
  <2>3. BucketOf(r.instrument, count) \in Nat
    BY <2>1 DEF BucketOf
  <2>4. QED
    BY <2>2, <2>3 DEF FileOf, QueryFiles
<1> HIDE DEF f
<1>4. IsFiniteSet(f.rows)
  <2>1. IsFiniteSet({r})
    BY FS_Singleton
  <2>2. QED
    BY <1>2, <2>1
<1>5. QED
  BY <1>1, <1>2, <1>3, <1>4, NewFile

LEMMA CompactStep ==
  ASSUME QInv, NEW i \in live, NEW j \in live, CompactFiles(i, j) PROVE QInv'
<1> DEFINE f == [files[i] EXCEPT !.rows = @ \cup files[j].rows]
<1>1. /\ Cardinality(Used) < MaxQueryFiles /\ files' = [files EXCEPT ![NextFile] = f]
      /\ live' \subseteq live \cup {NextFile} /\ UNCHANGED <<layout, question, reading, toRead, answer, listed>>
      /\ files[i].date = files[j].date /\ files[i].bucket = files[j].bucket
  BY DEF CompactFiles
<1>2. /\ i \in FileIds /\ j \in FileIds /\ files[i] \in QueryFiles /\ files[j] \in QueryFiles
      /\ files[i].rows # {}
  BY DEF QInv, QTypes, Used
<1>3. /\ f \in QueryFiles /\ f.rows = files[i].rows \cup files[j].rows
      /\ f.date = files[i].date /\ f.bucket = files[i].bucket
  BY <1>2 DEF QueryFiles
<1> HIDE DEF f
<1>4. \A r \in f.rows : InFile(r, f)
  BY <1>1, <1>2, <1>3 DEF QInv, QFiles, InFile
<1>5. IsFiniteSet(f.rows)
  <2>1. PICK rows \in SUBSET QueryRows : IsFiniteSet(rows) /\ \A k \in FileIds : files[k].rows \subseteq rows
    BY DEF QInv, QFinite
  <2>2. f.rows \subseteq rows
    BY <1>2, <1>3, <2>1
  <2>3. QED
    BY <2>1, <2>2, FS_Subset
<1>6. QED
  BY <1>1, <1>2, <1>3, <1>4, <1>5, NewFile

(* A step of the reader leaves the files alone.                             *)
LEMMA SameFiles ==
  ASSUME QInv, UNCHANGED <<layout, files>>
  PROVE  QNumbers' /\ QFiles' /\ QFinite' /\ Used' = Used
<1>1. Used' = Used
  BY DEF Used
<1>2. \A r, f : InFile(r, f)' = InFile(r, f)
  BY DEF InFile, Counts, FileOf, FirstDay, DayOf, PartitionTime, BucketOf
<1>3. QFiles' /\ QFinite'
  BY <1>2 DEF QInv, QFiles, QFinite
<1>4. QED
  BY <1>1, <1>3 DEF QInv, QNumbers

(* The query is asked: what is left out holds nothing that is wanted.       *)
LEMMA AskStep ==
  ASSUME QInv, NEW q \in Questions, Ask(q) PROVE QInv'
<1>1. /\ reading = "idle" /\ reading' = "files" /\ question' = q /\ listed' = live
      /\ toRead' = {i \in live : InRange(q, files[i]) /\ InBuckets(q, files[i])}
      /\ UNCHANGED <<layout, files, live, answer>> /\ answer = {}
  BY DEF Ask, QInv, QReading
<1>2. QTypes'
  BY <1>1, SameFiles DEF QInv, QTypes
<1>3. QNumbers' /\ QFiles' /\ QFinite'
  BY <1>1, SameFiles
<1>4. ASSUME Answerable(q) PROVE WantedOf(listed \ toRead)' = {}
  <2>1. SUFFICES ASSUME NEW i \in live \ toRead', NEW r \in QueryRows, r \in files[i].rows, Wanted(q, r)
                 PROVE  FALSE
    BY <1>1 DEF WantedOf, Wanted
  <2>2. i \in FileIds /\ LayoutKnown
    BY DEF QInv, QTypes, Used, LayoutKnown
  <2>3. InFile(r, files[i])
    BY <2>1, <2>2 DEF QInv, QFiles
  <2>4. InRange(q, files[i]) /\ InBuckets(q, files[i])
    BY <1>4, <2>1, <2>2, <2>3, WantedInRange, WantedInBuckets
  <2>5. QED
    BY <1>1, <2>4
<1>5. Answerable(question)' = Answerable(q)
  BY <1>1 DEF Answerable, RelationFilter, HasRange
<1>6. QReading'
  <2>1. ASSUME Answerable(q) PROVE AnswersAll(WantedOf(listed \ toRead))'
    <3>1. q.limit \in Nat
      OBVIOUS
    <3>2. answer' = {} /\ WantedOf(listed \ toRead)' = {} /\ Cardinality({}) = 0
      BY <1>1, <1>4, <2>1, FS_EmptySet
    <3>3. Enough(0)' = 0
      BY <1>1, <3>1 DEF Enough
    <3>4. QED
      BY <3>2, <3>3 DEF AnswersAll
  <2>2. QED
    BY <1>1, <1>5, <2>1 DEF QReading
<1>7. QED
  BY <1>2, <1>3, <1>6 DEF QInv

LEMMA RowsOfFile ==
  ASSUME NEW i, NEW rows, IsFiniteSet(rows)
  PROVE  IsFiniteSet({i} \X rows) /\ Cardinality({i} \X rows) = Cardinality(rows)
<1>1. IsFiniteSet({i}) /\ Cardinality({i}) = 1
  BY FS_Singleton
<1>2. Cardinality(rows) \in Nat
  BY FS_CardinalityType
<1>3. IsFiniteSet({i} \X rows) /\ Cardinality({i} \X rows) = 1 * Cardinality(rows)
  BY <1>1, FS_Product
<1>4. QED
  BY <1>2, <1>3

LEMMA DisjointUnion ==
  ASSUME NEW S, NEW T, IsFiniteSet(S), IsFiniteSet(T), S \cap T = {}
  PROVE  /\ IsFiniteSet(S \cup T) /\ Cardinality(S \cup T) = Cardinality(S) + Cardinality(T)
         /\ Cardinality(S) \in Nat /\ Cardinality(T) \in Nat
<1>1. Cardinality(S) \in Nat /\ Cardinality(T) \in Nat
  BY FS_CardinalityType
<1>2. Cardinality(S \cup T) = Cardinality(S) + Cardinality(T) - Cardinality(S \cap T) /\ IsFiniteSet(S \cup T)
  BY FS_Union
<1>3. Cardinality(S \cap T) = 0
  BY FS_EmptySet
<1>4. QED
  BY <1>1, <1>2, <1>3

LEMMA LeastOfTwo ==
  ASSUME NEW m \in Int, NEW n \in Int PROVE Min({m, n}) = IF m <= n THEN m ELSE n
<1>1. CASE m <= n
  <2>1. \A x \in {m, n} : (\A y \in {m, n} : x =< y) <=> x = m
    BY <1>1
  <2>2. QED
    BY <1>1, <2>1 DEF Min
<1>2. CASE ~(m <= n)
  <2>1. \A x \in {m, n} : (\A y \in {m, n} : x =< y) <=> x = n
    BY <1>2
  <2>2. QED
    BY <1>2, <2>1 DEF Min
<1>3. QED
  BY <1>1, <1>2

(* A file is read: its wanted rows, or as many as there is room for.        *)
LEMMA ReadFileStep ==
  ASSUME QInv, ReadFile PROVE QInv'
<1> DEFINE i == Min(toRead)
           rows == RowsRead(question, files[i])
<1>1. /\ reading = "files" /\ toRead # {} /\ ~Satisfied(question) /\ toRead' = toRead \ {i}
      /\ UNCHANGED <<layout, files, live, question, reading, listed>>
  BY DEF ReadFile
<1>2. PICK yielded \in SUBSET rows :
        /\ Cardinality(yielded) = IF question.limit = 0 THEN Cardinality(rows)
                                  ELSE Min({Room(question), Cardinality(rows)})
        /\ answer' = answer \cup {<<i, r>> : r \in yielded}
  BY DEF ReadFile
<1>3. i \in toRead /\ i \in listed /\ i \in FileIds
  <2>1. toRead \in SUBSET Nat /\ toRead \subseteq listed /\ listed \subseteq FileIds
    BY DEF QInv, QTypes, Used, FileIds
  <2>2. QED
    BY <1>1, <2>1, MinIsElement
<1>4. files \in [FileIds -> QueryFiles] /\ rows \subseteq files[i].rows /\ files[i].rows \subseteq QueryRows
  BY <1>3 DEF QInv, QTypes, RowsRead, QueryFiles
<1>5. question \in Questions /\ question.limit \in Nat /\ LayoutKnown
  BY <1>1 DEF QInv, QReading, QTypes, LayoutKnown
<1>6. IsFiniteSet(rows) /\ IsFiniteSet(yielded) /\ Cardinality(yielded) <= Cardinality(rows)
  <2>1. PICK all \in SUBSET QueryRows : IsFiniteSet(all) /\ \A k \in FileIds : files[k].rows \subseteq all
    BY DEF QInv, QFinite
  <2>2. rows \subseteq all
    BY <1>3, <1>4, <2>1
  <2>3. IsFiniteSet(rows)
    BY <2>1, <2>2, FS_Subset
  <2>4. QED
    BY <1>2, <2>3, FS_Subset
<1>7. {<<i, r>> : r \in yielded} = {i} \X yielded
  OBVIOUS
<1> HIDE DEF i, rows
<1>8. QTypes'
  BY <1>1, <1>2, <1>3, <1>4, SameFiles DEF QInv, QTypes
<1>9. QNumbers' /\ QFiles' /\ QFinite'
  BY <1>1, SameFiles
<1>10. ASSUME Answerable(question) PROVE AnswersAll(WantedOf(listed \ toRead))'
  <2> DEFINE before == WantedOf(listed \ toRead)
  <2>1. \A r \in files[i].rows : r \in rows <=> Wanted(question, r)
    BY <1>4, <1>5, <1>10, FiltersMean DEF rows, RowsRead
  <2>2. WantedOf(listed \ toRead)' = before \cup ({i} \X rows)
    BY <1>1, <1>3, <1>4, <2>1 DEF WantedOf, Wanted
  <2>3. before \cap ({i} \X rows) = {} /\ answer \subseteq before /\ Cardinality(answer) = Enough(Cardinality(before))
    BY <1>1, <1>3, <1>10 DEF WantedOf, QInv, QReading, AnswersAll
  <2>4. IsFiniteSet(before)
    <3>1. listed \ toRead \in SUBSET FileIds
      BY DEF QInv, QTypes, Used
    <3>2. QED
      BY <3>1, WantedFinite
  <2> HIDE DEF before
  <2>5. IsFiniteSet(answer)
    BY <2>3, <2>4, FS_Subset
  <2>6. /\ IsFiniteSet({i} \X rows) /\ Cardinality({i} \X rows) = Cardinality(rows)
        /\ IsFiniteSet({i} \X yielded) /\ Cardinality({i} \X yielded) = Cardinality(yielded)
    BY <1>6, RowsOfFile
  <2>7. /\ Cardinality(before \cup ({i} \X rows)) = Cardinality(before) + Cardinality(rows)
        /\ Cardinality(before) \in Nat /\ Cardinality(rows) \in Nat
    BY <2>3, <2>4, <2>6, DisjointUnion, SMTT(30)
  <2>8. answer \cap ({i} \X yielded) = {}
    BY <2>3
  <2>9. /\ Cardinality(answer \cup ({i} \X yielded)) = Cardinality(answer) + Cardinality(yielded)
        /\ Cardinality(answer) \in Nat
    BY <2>5, <2>6, <2>8, DisjointUnion
  <2>10. Enough(Cardinality(before) + Cardinality(rows)) = Cardinality(answer) + Cardinality(yielded)
    <3>1. CASE question.limit = 0
      BY <1>2, <2>3, <3>1 DEF Enough
    <3>2. CASE question.limit # 0
      <4>1. Room(question) = question.limit - Cardinality(answer) /\ Room(question) \in Int /\ Room(question) # 0
        BY <1>1, <1>5, <2>9, <3>2 DEF Room, Satisfied
      <4>2. Cardinality(yielded) = IF Room(question) <= Cardinality(rows) THEN Room(question) ELSE Cardinality(rows)
        BY <1>2, <2>7, <3>2, <4>1, LeastOfTwo
      <4>3. QED
        BY <1>5, <2>3, <2>7, <2>9, <3>2, <4>1, <4>2 DEF Enough
    <3>3. QED
      BY <3>1, <3>2
  <2>11. answer' = answer \cup ({i} \X yielded) /\ answer' \subseteq before \cup ({i} \X rows)
    BY <1>2, <1>7, <2>3
  <2>12. \A n : Enough(n)' = Enough(n)
    BY <1>1 DEF Enough
  <2>13. QED
    BY <2>2, <2>7, <2>9, <2>10, <2>11, <2>12 DEF AnswersAll
<1>11. Answerable(question)' = Answerable(question)
  BY <1>1 DEF Answerable, RelationFilter, HasRange
<1>12. QReading'
  BY <1>1, <1>5, <1>10, <1>11 DEF QReading
<1>13. QED
  BY <1>8, <1>9, <1>12 DEF QInv

LEMMA EndQueryStep ==
  ASSUME QInv, EndQuery PROVE QInv'
<1>1. /\ reading = "files" /\ reading' = "done" /\ toRead' = {} /\ (toRead = {} \/ Satisfied(question))
      /\ UNCHANGED <<layout, files, live, question, answer, listed>>
      /\ question \in Questions /\ question.limit \in Nat
  BY DEF EndQuery, QInv, QReading
<1>2. QTypes' /\ QNumbers' /\ QFiles' /\ QFinite'
  BY <1>1, SameFiles DEF QInv, QTypes
<1>3. ASSUME Answerable(question) PROVE AnswersAll(WantedOf(listed))
  <2> DEFINE before == WantedOf(listed \ toRead)
             all == WantedOf(listed)
  <2>1. answer \subseteq before /\ Cardinality(answer) = Enough(Cardinality(before))
    BY <1>1, <1>3 DEF QInv, QReading, AnswersAll
  <2>2. before \subseteq all
    BY DEF WantedOf
  <2>3. toRead = {} => before = all
    BY DEF WantedOf
  <2>4. IsFiniteSet(all)
    <3>1. listed \in SUBSET FileIds
      BY DEF QInv, QTypes, Used
    <3>2. QED
      BY <3>1, WantedFinite
  <2> HIDE DEF before, all
  <2>5. /\ IsFiniteSet(before) /\ Cardinality(before) <= Cardinality(all)
        /\ Cardinality(before) \in Nat /\ Cardinality(all) \in Nat
    BY <2>2, <2>4, FS_Subset, FS_CardinalityType
  <2>6. Cardinality(answer) \in Nat
    BY <2>1, <2>5, <1>1 DEF Enough
  <2>7. Enough(Cardinality(all)) = Cardinality(answer)
    <3>1. CASE toRead = {}
      BY <2>1, <2>3, <3>1
    <3>2. CASE Satisfied(question)
      <4>1. question.limit # 0 /\ Cardinality(answer) = question.limit
        BY <1>1, <2>6, <3>2 DEF Satisfied, Room
      <4>2. QED
        BY <1>1, <2>1, <2>5, <4>1 DEF Enough
    <3>3. QED
      BY <1>1, <3>1, <3>2
  <2>8. answer \subseteq all
    BY <2>1, <2>2
  <2>9. QED
    BY <2>7, <2>8 DEF AnswersAll, all
<1>4. WantedOf(listed)' = WantedOf(listed) /\ \A n : Enough(n)' = Enough(n)
  BY <1>1 DEF WantedOf, Wanted, Enough
<1>5. Answerable(question)' = Answerable(question)
  BY <1>1 DEF Answerable, RelationFilter, HasRange
<1>6. QReading'
  BY <1>1, <1>3, <1>4, <1>5 DEF QReading, AnswersAll
<1>7. QED
  BY <1>2, <1>6 DEF QInv

LEMMA StillStep ==
  ASSUME QInv, MaterializeRaises \/ UNCHANGED queryVars PROVE QInv'
<1>1. /\ UNCHANGED <<layout, files, live, question, answer, listed>> /\ toRead' \in {{}, toRead}
      /\ \/ reading = "files" /\ reading' = "raised"
         \/ reading' = reading /\ toRead' = toRead
  BY DEF MaterializeRaises, queryVars
<1>2. QTypes' /\ QNumbers' /\ QFiles' /\ QFinite'
  BY <1>1, SameFiles DEF QInv, QTypes
<1>3. WantedOf(listed)' = WantedOf(listed) /\ \A n : Enough(n)' = Enough(n)
  BY <1>1 DEF WantedOf, Wanted, Enough
<1>4. toRead' = toRead => WantedOf(listed \ toRead)' = WantedOf(listed \ toRead)
  BY <1>1 DEF WantedOf, Wanted
<1>5. Answerable(question)' = Answerable(question)
  BY <1>1 DEF Answerable, RelationFilter, HasRange
<1>6. QReading'
  BY <1>1, <1>3, <1>4, <1>5 DEF QInv, QReading, AnswersAll
<1>7. QED
  BY <1>2, <1>6 DEF QInv

LEMMA QueryStep == QInv /\ [QueryNext]_queryVars => QInv'
<1> SUFFICES ASSUME QInv, [QueryNext]_queryVars PROVE QInv'
  OBVIOUS
<1>1. CASE \E r \in QueryRows, count \in Counts : StoreRow(r, count)
  BY <1>1, StoreRowStep
<1>2. CASE \E i, j \in live : CompactFiles(i, j)
  BY <1>2, CompactStep
<1>3. CASE \E q \in Questions : Ask(q)
  BY <1>3, AskStep
<1>4. CASE ReadFile
  BY <1>4, ReadFileStep
<1>5. CASE EndQuery
  BY <1>5, EndQueryStep
<1>6. CASE MaterializeRaises \/ UNCHANGED queryVars
  BY <1>6, StillStep
<1>7. QED
  BY <1>1, <1>2, <1>3, <1>4, <1>5, <1>6 DEF QueryNext, Counts

(* A query answers what its arguments mean, for any layout of partitions and *)
(* buckets, any earlier bucket counts, time zone, limit and rows, while      *)
(* crawls and compactions go on.                                            *)
THEOREM QueriesAnswer == QuerySpecification => []QueryAnswers
<1>1. QInv => QueryAnswers
  <2>1. SUFFICES ASSUME QInv, reading = "done", Answerable(question)
                 PROVE  /\ answer \subseteq Owed
                        /\ Cardinality(answer) = IF question.limit = 0 THEN Cardinality(Owed)
                                                 ELSE Min({question.limit, Cardinality(Owed)})
    BY DEF QueryAnswers
  <2>2. question.limit \in Nat /\ listed \in SUBSET FileIds /\ AnswersAll(WantedOf(listed))
        /\ files \in [FileIds -> QueryFiles]
    BY <2>1 DEF QInv, QReading, QTypes, Used
  <2>3. Owed = WantedOf(listed)
    BY <2>2 DEF Owed, WantedOf, QueryFiles
  <2>4. Cardinality(WantedOf(listed)) \in Nat
    BY <2>1, <2>2, WantedFinite, FS_CardinalityType
  <2>5. Min({question.limit, Cardinality(Owed)}) =
          IF question.limit <= Cardinality(Owed) THEN question.limit ELSE Cardinality(Owed)
    BY <2>2, <2>3, <2>4, LeastOfTwo
  <2>6. QED
    BY <2>2, <2>3, <2>4, <2>5 DEF AnswersAll, Enough
<1>2. QED
  BY <1>1, QInitially, QueryStep, PTL DEF QuerySpecification

(* Whatever is asked, a reader looks only into files that were listed, and  *)
(* answers with rows of those.                                              *)
THEOREM QueryTypes == QuerySpecification => []QueryTypeOK
<1>1. QInv => QueryTypeOK
  BY DEF QInv, QTypes, QueryTypeOK
<1>2. QED
  BY <1>1, QInitially, QueryStep, PTL DEF QuerySpecification
=============================================================================
