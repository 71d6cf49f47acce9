---------------------------- MODULE SequentialProofs ----------------------------
(***************************************************************************)
(* Why the sequential runtime keeps the promise of every crawl although    *)
(* its barrier looks only at SeenStore: a version SeenStore holds belongs  *)
(* to a stored row, so what the barrier lets pass is stored, and nothing   *)
(* that is stored is ever taken back between the barrier and the save.     *)
(***************************************************************************)
EXTENDS SequentialCrawl, WellFoundedInduction, SequenceTheorems, TLAPS

USE SequentialAssumption

------------------------------------------------------------------------------
(* The last row of a record in a batch                                      *)

LEMMA LastExists ==
  ASSUME NEW N \in Nat, NEW T \in SUBSET (1 .. N), T # {}
  PROVE  \E n \in T : \A k \in T : k <= n
<1> DEFINE fromEnd == {i \in Nat : \E n \in T : n + i = N}
<1>1. fromEnd \subseteq Nat /\ fromEnd # {}
  <2>1. PICK n \in T : TRUE
    OBVIOUS
  <2>2. N - n \in Nat /\ n + (N - n) = N
    BY <2>1
  <2>3. QED
    BY <2>1, <2>2
<1>2. PICK i \in fromEnd : \A j \in fromEnd : ~ (<<j, i>> \in OpToRel(<, Nat))
  BY <1>1, NatLessThanWellFounded, WFMin
<1>3. \A j \in fromEnd : <<j, i>> \in OpToRel(<, Nat) <=> j < i
  BY <1>2 DEF OpToRel
<1>4. \A j \in fromEnd : ~(j < i)
  BY <1>2, <1>3, Zenon
<1>5. PICK n \in T : n + i = N
  BY <1>2
<1>6. ASSUME NEW k \in T PROVE k <= n
  <2>1. N - k \in fromEnd
    <3>1. k \in Nat /\ N - k \in Nat /\ k + (N - k) = N
      BY <1>6
    <3>2. QED
      BY <1>6, <3>1
  <2>2. ~(N - k < i)
    BY <1>4, <2>1
  <2>3. i \in Nat /\ n \in Nat /\ k \in Nat
    <3>1. i \in Nat
      BY <1>1, <1>2, Zenon
    <3>2. n \in 1 .. N /\ k \in 1 .. N
      BY <1>5, <1>6
    <3>3. QED
      BY <3>1, <3>2
  <2>4. i = N - n
    BY <1>5, <2>3
  <2> HIDE DEF fromEnd
  <2>5. QED
    BY <2>2, <2>3, <2>4
<1>7. QED
  BY <1>5, <1>6

(* commit_many leaves the version of a row of the batch, or what was there.  *)
LEMMA CommittedOf ==
  ASSUME NEW hashes, NEW b \in Seq(Contents), NEW u \in SeqUids
  PROVE  \/ \E c \in ToSet(b) : c.uid = u /\ Committed(hashes, b)[u] = c.version
         \/ (\A c \in ToSet(b) : c.uid # u) /\ Committed(hashes, b)[u] = hashes[u]
<1>1. CASE \E n \in DOMAIN b : b[n].uid = u
  <2> DEFINE of == {n \in DOMAIN b : b[n].uid = u}
             last == CHOOSE n \in DOMAIN b : b[n].uid = u /\ \A k \in DOMAIN b : b[k].uid = u => k <= n
  <2>1. Len(b) \in Nat /\ of \in SUBSET (1 .. Len(b)) /\ of # {}
    BY <1>1
  <2>2. \E n \in of : \A k \in of : k <= n
    BY <2>1, LastExists
  <2>3. last \in DOMAIN b /\ b[last].uid = u
    BY <2>2
  <2>4. Committed(hashes, b)[u] = b[last].version
    <3>1. Committed(hashes, b)[u] = IF \E n \in DOMAIN b : b[n].uid = u THEN b[last].version ELSE hashes[u]
      BY Zenon DEF Committed
    <3>2. QED
      BY <1>1, <3>1
  <2> HIDE DEF last
  <2>5. b[last] \in ToSet(b)
    BY <2>3 DEF ToSet
  <2>6. QED
    BY <2>3, <2>4, <2>5
<1>2. CASE ~ \E n \in DOMAIN b : b[n].uid = u
  <2>1. Committed(hashes, b)[u] = hashes[u]
    BY <1>2 DEF Committed
  <2>2. \A c \in ToSet(b) : c.uid # u
    BY <1>2 DEF ToSet
  <2>3. QED
    BY <2>1, <2>2
<1>3. QED
  BY <1>1, <1>2

LEMMA RowsOfBatch ==
  ASSUME NEW b \in Seq(Contents) PROVE ToSet(b) \subseteq Contents
BY DEF ToSet

(* What commit_many leaves in SeenStore belongs to the batch or was there.   *)
SeenIn(hashes, rows) ==
  /\ hashes \in [SeqUids -> Nat]
  /\ \A u \in SeqUids : hashes[u] # 0 => \E c \in rows : c.uid = u /\ c.version = hashes[u]

LEMMA CommittedIsSeen ==
  ASSUME NEW rows \in SUBSET Contents, NEW b \in Seq(Contents), SeenIn(seenHash, rows)
  PROVE  SeenIn(Committed(seenHash, b), rows \cup ToSet(b))
<1> DEFINE hashes == Committed(seenHash, b)
<1>1. ASSUME NEW u \in SeqUids
      PROVE  /\ hashes[u] \in Nat
             /\ hashes[u] # 0 => \E c \in rows \cup ToSet(b) : c.uid = u /\ c.version = hashes[u]
  <2>1. CASE \E c \in ToSet(b) : c.uid = u /\ hashes[u] = c.version
    BY <2>1, RowsOfBatch
  <2>2. CASE hashes[u] = seenHash[u]
    <3> HIDE DEF hashes
    <3>1. QED
      BY <2>2 DEF SeenIn
  <2>3. QED
    BY <2>1, <2>2, CommittedOf
<1>2. hashes = [u \in SeqUids |-> hashes[u]]
  BY DEF Committed
<1> HIDE DEF hashes
<1>3. hashes \in [SeqUids -> Nat]
  BY <1>1, <1>2
<1>4. SeenIn(hashes, rows \cup ToSet(b))
  BY <1>1, <1>3 DEF SeenIn
<1>5. QED
  BY <1>4 DEF hashes

------------------------------------------------------------------------------
(* The invariant                                                            *)

InScope ==
  \/ seqAt \in {"crawl", "barrier", "recheck", "save", "refused"}
  \/ seqAt = "flush" /\ afterFlush = "recheck"

STypes ==
  /\ seqBuffer \in [BufferKeys -> SeqBatches] /\ flushing \subseteq SeqBatches /\ manifests \subseteq SeqBatches
  /\ afterFlush \in {"recheck", "off"} /\ stored \subseteq Contents
  /\ seqCheckpoint \in [SeqScopes -> SUBSET SeqMarks]

(* The candidate grows from the stored checkpoint, and covers nothing but    *)
(* what is stored and what the barrier will ask for.                        *)
SCandidate ==
  /\ tracked \subseteq Contents /\ seqCandidate \subseteq stored \cup tracked \cup {SeqComplete}
  /\ InScope => scopeNow \in SeqScopes /\ seqCheckpoint[scopeNow] \subseteq seqCandidate

SCovered == \A s \in SeqScopes : seqCheckpoint[s] \subseteq stored \cup {SeqComplete}
SPassed == seqAt = "save" => tracked \subseteq stored

SInv == STypes /\ SeenIn(seenHash, stored) /\ SCandidate /\ SCovered /\ SPassed

(* What a step of the barrier may do to the durable state.                  *)
StoresMore == stored \subseteq stored' /\ stored' \subseteq Contents /\ UNCHANGED seqCheckpoint

LEMMA Starts == SequentialInit => SInv
<1> SUFFICES ASSUME SequentialInit PROVE SInv
  OBVIOUS
<1>1. STypes
  <2>1. <<>> \in SeqBatches
    BY DEF SeqBatches
  <2>2. QED
    BY <2>1 DEF SequentialInit, STypes, EmptyBuffer
<1>2. SeenIn(seenHash, stored)
  BY DEF SequentialInit, SeenIn
<1>3. QED
  BY <1>1, <1>2 DEF SequentialInit, SInv, SCandidate, InScope, SCovered, SPassed

LEMMA ProcessStores ==
  ASSUME SInv, NEW b \in SeqBatches, ProcessBatch(b)
  PROVE  StoresMore /\ SeenIn(seenHash, stored)' /\ UNCHANGED manifests
<1>1. ToSet(b) \subseteq Contents
  BY DEF ToSet, SeqBatches
<1>2. SeenIn(Committed(seenHash, b), stored \cup ToSet(b))
  BY CommittedIsSeen DEF SInv, STypes, SeqBatches
<1>3. stored' = stored \cup ToSet(b) /\ seenHash' = Committed(seenHash, b) /\ UNCHANGED <<seqCheckpoint, manifests>>
  BY DEF ProcessBatch
<1>4. SeenIn(seenHash, stored)'
  BY <1>2, <1>3 DEF SeenIn
<1>5. QED
  BY <1>1, <1>3, <1>4 DEF StoresMore, SInv, STypes

LEMMA FailStores ==
  ASSUME SInv, NEW b \in SeqBatches, ProcessFails(b)
  PROVE  StoresMore /\ SeenIn(seenHash, stored)' /\ manifests' \subseteq SeqBatches
<1>1. ToSet(b) \subseteq Contents
  BY DEF ToSet, SeqBatches
<1>2. /\ stored' = stored \/ stored' = stored \cup ToSet(b)
      /\ UNCHANGED <<seqCheckpoint, seenHash>>
      /\ manifests' \subseteq manifests \cup {b}
  BY DEF ProcessFails
<1>3. SeenIn(seenHash, stored)'
  BY <1>2 DEF SInv, SeenIn
<1>4. QED
  BY <1>1, <1>2, <1>3 DEF StoresMore, SInv, STypes

(* A row the barrier takes for durable is stored: SeenStore has its version, *)
(* and no other row has its uid and its version.                            *)
LEMMA SeenIsStored ==
  ASSUME SInv, NEW c \in Contents, seenHash[c.uid] = c.version PROVE c \in stored
<1>1. c.version # 0 /\ c.uid \in SeqUids
  BY DEF SeqUids
<1>2. PICK d \in stored : d.uid = c.uid /\ d.version = seenHash[c.uid]
  BY <1>1 DEF SInv, SeenIn
<1>3. d \in Contents
  BY DEF SInv, STypes
<1>4. QED
  BY <1>1, <1>2, <1>3

LEMMA DurableIsStored ==
  ASSUME SInv, AllDurable PROVE tracked \subseteq stored
BY SeenIsStored DEF AllDurable, IsDurable, SInv, SCandidate

LEMMA BatchesOfBuffer ==
  ASSUME NEW buffer \in [BufferKeys -> SeqBatches] PROVE NonEmpty(buffer) \subseteq SeqBatches
BY DEF NonEmpty

LEMMA NoRows == EmptyBuffer \in [BufferKeys -> SeqBatches]
<1>1. <<>> \in SeqBatches
  BY DEF SeqBatches
<1>2. QED
  BY <1>1 DEF EmptyBuffer

(* A scope left behind asks for nothing any more.                           *)
LEMMA EndsClean ==
  ASSUME SInv, EndScope, StoresMore \/ UNCHANGED <<stored, seqCheckpoint>>, ~InScope'
  PROVE  SCandidate' /\ SCovered'
BY DEF SInv, STypes, EndScope, StoresMore, SCandidate, SCovered

(* Where the scope goes on, storing more does no harm.                      *)
LEMMA StoringKeeps ==
  ASSUME SInv, StoresMore, UNCHANGED <<tracked, seqCandidate, scopeNow>>, InScope' => InScope
  PROVE  SCandidate' /\ SCovered'
BY DEF SInv, STypes, StoresMore, SCandidate, SCovered

------------------------------------------------------------------------------
(* Steps                                                                    *)

LEMMA RecoverStep ==
  ASSUME SInv, NEW b \in manifests, SeqRecover(b) PROVE SInv' /\ StoresMore
<1>1. b \in SeqBatches /\ ToSet(b) \subseteq Contents
  BY DEF SInv, STypes, SeqBatches, ToSet
<1>2. /\ stored' = stored \cup ToSet(b) /\ seenHash' = Committed(seenHash, b)
      /\ manifests' = manifests \ {b}
      /\ UNCHANGED <<seqAt, scopeNow, tracked, seqCandidate, seqBuffer, flushing, afterFlush, seqCheckpoint>>
  BY DEF SeqRecover, scopeVars
<1>3. SeenIn(Committed(seenHash, b), stored \cup ToSet(b))
  BY <1>1, CommittedIsSeen DEF SInv, STypes, SeqBatches
<1>4. SeenIn(seenHash, stored)'
  BY <1>2, <1>3 DEF SeenIn
<1>5. StoresMore
  BY <1>1, <1>2 DEF StoresMore, SInv, STypes
<1>6. STypes'
  BY <1>2, <1>5 DEF SInv, STypes, StoresMore
<1>7. InScope' = InScope
  BY <1>2 DEF InScope
<1>8. SPassed'
  BY <1>2 DEF SInv, SPassed
<1>9. QED
  BY <1>2, <1>4, <1>5, <1>6, <1>7, <1>8, StoringKeeps DEF SInv

LEMMA StartStep ==
  ASSUME SInv, SeqStart PROVE SInv' /\ UNCHANGED <<stored, seqCheckpoint>>
BY DEF SeqStart, durableVars, scopeVars, SInv, STypes, SeenIn, SCandidate, InScope, SCovered, SPassed

LEMMA BeginStep ==
  ASSUME SInv, NEW s \in SeqScopes, SeqBeginScope(s)
  PROVE  SInv' /\ UNCHANGED <<stored, seqCheckpoint>>
<1>1. seqCheckpoint[s] \subseteq stored \cup {SeqComplete}
  BY DEF SInv, SCovered
<1>2. QED
  BY <1>1 DEF SeqBeginScope, durableVars, SInv, STypes, SeenIn, SCandidate, InScope, SCovered, SPassed

LEMMA FlushAllStep ==
  ASSUME SInv, FlushAll, UNCHANGED durableVars PROVE SInv' /\ UNCHANGED <<stored, seqCheckpoint>>
<1>1. /\ seqAt' = "flush" /\ afterFlush' = "off" /\ seqBuffer' = EmptyBuffer /\ EndScope
      /\ flushing' \subseteq SeqBatches /\ UNCHANGED <<stored, seqCheckpoint, seenHash, manifests>>
  BY BatchesOfBuffer DEF FlushAll, durableVars, SInv, STypes
<1>2. STypes'
  BY <1>1, NoRows DEF SInv, STypes
<1>3. SCandidate' /\ SCovered'
  BY <1>1, EndsClean DEF InScope
<1>4. QED
  BY <1>1, <1>2, <1>3 DEF SInv, SeenIn, SPassed

(* A record grows the batch of its partition, and perhaps fills it.         *)
LEMMA GrownIsBatch ==
  ASSUME SInv, NEW c \in Contents PROVE Grown(c) \in SeqBatches /\ PartitionFor[c.uid] \in BufferKeys
BY DEF Grown, BufferKeys, SeqUids, SInv, STypes, SeqBatches

LEMMA EmptiedBuffer ==
  ASSUME SInv, NEW p PROVE [seqBuffer EXCEPT ![p] = <<>>] \in [BufferKeys -> SeqBatches]
<1>1. <<>> \in SeqBatches
  BY DEF SeqBatches
<1>2. QED
  BY <1>1 DEF SInv, STypes

LEMMA RecordStep ==
  ASSUME SInv, NEW c \in Contents, NEW hook \in BOOLEAN, SeqRecord(c, hook)
  PROVE  SInv' /\ StoresMore
<1>1. /\ tracked' = tracked \cup {c} /\ seqCandidate' \in {seqCandidate, seqCandidate \cup {c}}
      /\ seqAt = "crawl" /\ UNCHANGED <<seqAt, scopeNow, flushing, afterFlush>>
  BY DEF SeqRecord, Track
<1>2. /\ StoresMore /\ SeenIn(seenHash, stored)' /\ manifests' \subseteq SeqBatches
      /\ seqBuffer' \in [BufferKeys -> SeqBatches]
  <2>1. CASE Fills(c)
    <3>1. ProcessBatch(Grown(c)) /\ seqBuffer' = [seqBuffer EXCEPT ![PartitionFor[c.uid]] = <<>>]
      BY <2>1 DEF SeqRecord
    <3>2. QED
      BY <3>1, GrownIsBatch, ProcessStores, EmptiedBuffer DEF SInv, STypes
  <2>2. CASE ~Fills(c)
    <3>1. UNCHANGED durableVars
      BY <2>2 DEF SeqRecord
    <3>2. seqBuffer' = seqBuffer \/ seqBuffer' = [seqBuffer EXCEPT ![PartitionFor[c.uid]] = Grown(c)]
      BY <2>2 DEF SeqRecord
    <3>3. seqBuffer' \in [BufferKeys -> SeqBatches]
      BY <3>2, GrownIsBatch DEF SInv, STypes
    <3>4. QED
      BY <3>1, <3>3 DEF durableVars, StoresMore, SInv, STypes, SeenIn
  <2>3. QED
    BY <2>1, <2>2
<1>3. STypes'
  BY <1>1, <1>2 DEF SInv, STypes, StoresMore
<1>4. SCandidate' /\ SCovered'
  <2>1. /\ scopeNow \in SeqScopes /\ seqCheckpoint[scopeNow] \subseteq seqCandidate
        /\ seqCandidate \subseteq stored \cup tracked \cup {SeqComplete} /\ tracked \subseteq Contents
    BY <1>1 DEF SInv, SCandidate, InScope
  <2>2. tracked' \subseteq Contents /\ seqCandidate \subseteq seqCandidate'
        /\ seqCandidate' \subseteq stored' \cup tracked' \cup {SeqComplete}
    BY <1>1, <1>2, <2>1 DEF StoresMore
  <2>3. QED
    BY <1>1, <1>2, <2>1, <2>2 DEF StoresMore, SInv, SCandidate, SCovered
<1>5. SPassed'
  BY <1>1 DEF SPassed
<1>6. QED
  BY <1>2, <1>3, <1>4, <1>5 DEF SInv

LEMMA RecordRaisesStep ==
  ASSUME SInv, NEW c \in Contents, SeqRecordRaises(c) PROVE SInv' /\ StoresMore
<1>1. StoresMore /\ SeenIn(seenHash, stored)' /\ manifests' \subseteq SeqBatches
  BY GrownIsBatch, FailStores DEF SeqRecordRaises
<1>2. /\ seqAt' = "flush" /\ afterFlush' = "off" /\ seqBuffer' = EmptyBuffer /\ EndScope
      /\ flushing' \subseteq SeqBatches
  BY EmptiedBuffer, BatchesOfBuffer DEF SeqRecordRaises
<1>3. STypes'
  BY <1>1, <1>2, NoRows DEF SInv, STypes, StoresMore
<1>4. SCandidate' /\ SCovered'
  BY <1>1, <1>2, EndsClean DEF InScope
<1>5. QED
  BY <1>1, <1>2, <1>3, <1>4 DEF SInv, SPassed

LEMMA SkipStep ==
  ASSUME SInv, NEW c \in Contents, SeqSkip(c) PROVE SInv' /\ UNCHANGED <<stored, seqCheckpoint>>
BY DEF SeqSkip, durableVars, SInv, STypes, SeenIn, SCandidate, InScope, SCovered, SPassed

LEMMA HookStep ==
  ASSUME SInv, NEW complete \in BOOLEAN, SeqScopeHook(complete) PROVE SInv' /\ UNCHANGED <<stored, seqCheckpoint>>
BY DEF SeqScopeHook, durableVars, SInv, STypes, SeenIn, SCandidate, InScope, SCovered, SPassed

(* The barrier: what passes is stored.                                      *)
LEMMA BarrierStep ==
  ASSUME SInv, WaitUntilDurable PROVE SInv' /\ UNCHANGED <<stored, seqCheckpoint>>
<1>1. /\ seqAt = "barrier" /\ UNCHANGED <<scopeNow, tracked, seqCandidate, seqCheckpoint, stored, seenHash, manifests>>
      /\ SCandidate /\ InScope
  BY DEF WaitUntilDurable, scopeVars, durableVars, SInv, InScope
<1>2. CASE AllDurable
  <2>1. seqAt' = "save" /\ UNCHANGED <<flushing, afterFlush, seqBuffer>>
    BY <1>2 DEF WaitUntilDurable
  <2>2. QED
    BY <1>1, <1>2, <2>1, DurableIsStored DEF SInv, STypes, SeenIn, SCandidate, InScope, SCovered, SPassed
<1>3. CASE ~AllDurable
  <2>1. /\ seqAt' = "flush" /\ afterFlush' = "recheck" /\ flushing' = ScopeBatches
        /\ seqBuffer' = [p \in BufferKeys |-> IF seqBuffer[p] \in ScopeBatches THEN <<>> ELSE seqBuffer[p]]
    BY <1>3 DEF WaitUntilDurable
  <2>2. flushing' \subseteq SeqBatches
    BY <2>1, BatchesOfBuffer DEF ScopeBatches, SInv, STypes
  <2>3. seqBuffer' \in [BufferKeys -> SeqBatches]
    <3>1. <<>> \in SeqBatches
      BY DEF SeqBatches
    <3>2. \A p \in BufferKeys : seqBuffer[p] \in SeqBatches
      BY DEF SInv, STypes
    <3>3. QED
      BY <2>1, <3>1, <3>2
  <2>4. STypes'
    BY <1>1, <2>1, <2>2, <2>3 DEF SInv, STypes
  <2>5. QED
    BY <1>1, <2>1, <2>4 DEF SInv, SeenIn, SCandidate, InScope, SCovered, SPassed
<1>4. QED
  BY <1>2, <1>3

LEMMA FlushStep ==
  ASSUME SInv, NEW b \in flushing, FlushBatch(b) PROVE SInv' /\ StoresMore
<1>1. StoresMore /\ SeenIn(seenHash, stored)' /\ UNCHANGED manifests
  BY ProcessStores DEF FlushBatch, SInv, STypes
<1>2. /\ seqAt = "flush" /\ flushing' \subseteq flushing
      /\ UNCHANGED <<seqAt, scopeNow, tracked, seqCandidate, seqBuffer, afterFlush>>
  BY DEF FlushBatch, scopeVars
<1>3. STypes'
  BY <1>1, <1>2 DEF SInv, STypes, StoresMore
<1>4. SCandidate' /\ SCovered'
  BY <1>1, <1>2, StoringKeeps DEF InScope
<1>5. QED
  BY <1>1, <1>2, <1>3, <1>4 DEF SInv, SPassed

LEMMA FlushRaisesStep ==
  ASSUME SInv, NEW b \in flushing, FlushRaises(b) PROVE SInv' /\ StoresMore
<1>1. StoresMore /\ SeenIn(seenHash, stored)' /\ manifests' \subseteq SeqBatches
  BY FailStores DEF FlushRaises, SInv, STypes
<1>2. seqAt' = "flush" /\ flushing' = {} /\ afterFlush' = "off" /\ seqBuffer' = EmptyBuffer /\ EndScope
  BY DEF FlushRaises
<1>3. STypes'
  BY <1>1, <1>2, NoRows DEF SInv, STypes, StoresMore
<1>4. SCandidate' /\ SCovered'
  BY <1>1, <1>2, EndsClean DEF InScope
<1>5. QED
  BY <1>1, <1>2, <1>3, <1>4 DEF SInv, SPassed

LEMMA FlushOverStep ==
  ASSUME SInv, FlushOver PROVE SInv' /\ UNCHANGED <<stored, seqCheckpoint>>
<1>1. /\ seqAt = "flush" /\ seqAt' = afterFlush /\ afterFlush \in {"recheck", "off"}
      /\ UNCHANGED <<scopeNow, tracked, seqCandidate, seqBuffer, flushing, afterFlush>>
      /\ UNCHANGED <<seqCheckpoint, stored, seenHash, manifests>>
  BY DEF FlushOver, scopeVars, durableVars, SInv, STypes
<1>2. InScope' => InScope
  BY <1>1 DEF InScope
<1>3. QED
  BY <1>1, <1>2 DEF SInv, STypes, SeenIn, SCandidate, SCovered, SPassed

LEMMA RecheckStep ==
  ASSUME SInv, Recheck PROVE SInv' /\ UNCHANGED <<stored, seqCheckpoint>>
<1>1. /\ seqAt = "recheck" /\ seqAt' \in {"save", "refused"} /\ (seqAt' = "save" => AllDurable)
      /\ UNCHANGED <<scopeNow, tracked, seqCandidate, seqBuffer, flushing, afterFlush>>
      /\ UNCHANGED <<seqCheckpoint, stored, seenHash, manifests>>
  BY DEF Recheck, scopeVars, durableVars
<1>2. SPassed'
  BY <1>1, DurableIsStored DEF SPassed
<1>3. QED
  BY <1>1, <1>2 DEF SInv, STypes, SeenIn, SCandidate, InScope, SCovered

(* What a step of the whole runtime may do to the durable state.            *)
SavesMore ==
  /\ UNCHANGED stored
  /\ seqCheckpoint' \in [SeqScopes -> SUBSET SeqMarks]
  /\ \A s \in SeqScopes : /\ seqCheckpoint[s] \subseteq seqCheckpoint'[s]
                          /\ seqCheckpoint'[s] \subseteq stored \cup {SeqComplete}

LEMMA SaveStep ==
  ASSUME SInv, SaveCandidate PROVE SInv' /\ SavesMore
<1>1. /\ seqAt = "save" /\ seqAt' = "next" /\ seqCheckpoint' = [seqCheckpoint EXCEPT ![scopeNow] = seqCandidate]
      /\ EndScope /\ UNCHANGED <<seqBuffer, flushing, afterFlush, stored, seenHash, manifests>>
  BY DEF SaveCandidate
<1>2. /\ scopeNow \in SeqScopes /\ seqCheckpoint[scopeNow] \subseteq seqCandidate
      /\ seqCandidate \subseteq stored \cup {SeqComplete} /\ stored \subseteq Contents
  BY <1>1 DEF SInv, SCandidate, InScope, SPassed, STypes
<1>3. seqCandidate \subseteq SeqMarks
  BY <1>2 DEF SeqMarks
<1>4. SavesMore
  BY <1>1, <1>2, <1>3 DEF SavesMore, SInv, STypes, SCovered
<1>5. STypes'
  BY <1>1, <1>4 DEF SInv, STypes, SavesMore
<1>6. SCandidate' /\ SCovered'
  BY <1>1, <1>4 DEF SCandidate, SCovered, EndScope, InScope, SavesMore
<1>7. QED
  BY <1>1, <1>4, <1>5, <1>6 DEF SInv, SeenIn, SPassed

LEMMA CrashStep ==
  ASSUME SInv, SeqCrash PROVE SInv' /\ StoresMore
<1>1. StoresMore /\ SeenIn(seenHash, stored)' /\ manifests' \subseteq SeqBatches
  <2>1. CASE UNCHANGED durableVars
    BY <2>1 DEF durableVars, StoresMore, SInv, STypes, SeenIn
  <2>2. ASSUME NEW b \in flushing, ProcessFails(b)
        PROVE  StoresMore /\ SeenIn(seenHash, stored)' /\ manifests' \subseteq SeqBatches
    BY <2>2, FailStores DEF SInv, STypes
  <2>3. QED
    BY <2>1, <2>2 DEF SeqCrash
<1>2. seqAt' = "off" /\ flushing' = {} /\ afterFlush' = "off" /\ seqBuffer' = EmptyBuffer /\ EndScope
  BY DEF SeqCrash
<1>3. STypes'
  BY <1>1, <1>2, NoRows DEF SInv, STypes, StoresMore
<1>4. SCandidate' /\ SCovered'
  BY <1>1, <1>2, EndsClean DEF InScope
<1>5. QED
  BY <1>1, <1>2, <1>3, <1>4 DEF SInv, SPassed

(* The scopes left to crawl.                                                *)
ScopesLeft == seqScopes \subseteq SeqScopes

LEMMA ScopesStay == ScopesLeft /\ [SequentialNext]_seqVars => ScopesLeft'
BY DEF ScopesLeft, SequentialNext, seqVars, durableVars, scopeVars, SeqRecover, SeqStart, SeqRunOver, ScopeRaises,
       SeqBeginScope, SeqRecordRaises, SeqSkip, SeqRecord, SeqScopeHook, FlushBatch, FlushRaises, WaitUntilDurable,
       FlushOver, Recheck, SaveCandidate, SeqCrash

LEMMA StutterStep ==
  ASSUME SInv, UNCHANGED seqVars PROVE SInv' /\ UNCHANGED <<stored, seqCheckpoint>>
BY DEF seqVars, SInv, STypes, SeenIn, SCandidate, InScope, SCovered, SPassed

LEMMA SequentialStep ==
  ASSUME SInv, ScopesLeft, [SequentialNext]_seqVars
  PROVE  SInv' /\ (StoresMore \/ SavesMore \/ UNCHANGED <<stored, seqCheckpoint>>)
<1>1. CASE \E b \in manifests : SeqRecover(b)
  BY <1>1, RecoverStep
<1>2. CASE SeqStart
  BY <1>2, StartStep
<1>3. CASE SeqRunOver \/ ScopeRaises
  BY <1>3, FlushAllStep DEF SeqRunOver, ScopeRaises
<1>4. CASE \E s \in seqScopes : SeqBeginScope(s)
  BY <1>4, BeginStep DEF ScopesLeft
<1>5. CASE \E c \in Contents : SeqRecordRaises(c) \/ SeqSkip(c) \/ \E hook \in BOOLEAN : SeqRecord(c, hook)
  BY <1>5, RecordRaisesStep, SkipStep, RecordStep
<1>6. CASE \E complete \in BOOLEAN : SeqScopeHook(complete)
  BY <1>6, HookStep
<1>7. CASE \E b \in flushing : FlushBatch(b) \/ FlushRaises(b)
  BY <1>7, FlushStep, FlushRaisesStep
<1>8. CASE WaitUntilDurable
  BY <1>8, BarrierStep
<1>9. CASE FlushOver
  BY <1>9, FlushOverStep
<1>10. CASE Recheck
  BY <1>10, RecheckStep
<1>11. CASE SaveCandidate
  BY <1>11, SaveStep
<1>12. CASE SeqCrash
  BY <1>12, CrashStep
<1>13. CASE UNCHANGED seqVars
  BY <1>13, StutterStep
<1>14. QED
  BY <1>1, <1>2, <1>3, <1>4, <1>5, <1>6, <1>7, <1>8, <1>9, <1>10, <1>11, <1>12, <1>13 DEF SequentialNext

(* The inductive invariant: what SeenStore holds is stored, candidates and   *)
(* checkpoints are covered by it, and what the barrier let pass too.        *)
THEOREM SequentialInvariant == SequentialSpec => [](SInv /\ ScopesLeft)
<1>1. SequentialInit => ScopesLeft
  BY DEF SequentialInit, ScopesLeft
<1>2. QED
  BY <1>1, Starts, ScopesStay, SequentialStep, PTL DEF SequentialSpec

LEMMA PromiseStarts == SequentialInit => SequentialPromise!Init
BY DEF SequentialInit, SequentialPromise!Init, SequentialPromise!Covered

LEMMA PromiseSteps ==
  ASSUME SInv, SInv', StoresMore \/ SavesMore \/ UNCHANGED <<stored, seqCheckpoint>>
  PROVE  [SequentialPromise!Next]_<<stored, seqCheckpoint>>
<1>1. CASE StoresMore
  BY <1>1 DEF StoresMore, SequentialPromise!Next, SequentialPromise!Store
<1>2. CASE SavesMore
  <2>1. SequentialPromise!Covered(seqCheckpoint')
    BY <1>2 DEF SavesMore, SequentialPromise!Covered, SeqMarks
  <2>2. QED
    BY <1>2, <2>1 DEF SavesMore, SequentialPromise!Next, SequentialPromise!Save
<1>3. QED
  BY <1>1, <1>2

(* The sequential runtime implements DurableCrawl for any scopes, records,   *)
(* versions and partitions, and however often it is interrupted.            *)
THEOREM SequentialImplements == SequentialSpec => SequentialKeepsPromise
<1>1. SInv /\ ScopesLeft /\ [SequentialNext]_seqVars => [SequentialPromise!Next]_<<stored, seqCheckpoint>>
  BY SequentialStep, PromiseSteps
<1>2. QED
  BY <1>1, PromiseStarts, SequentialInvariant, PTL
     DEF SequentialSpec, SequentialKeepsPromise, SequentialPromise!Spec

------------------------------------------------------------------------------
(* Its types                                                                *)

SRest ==
  /\ seqAt \in {"off", "next", "crawl", "barrier", "flush", "recheck", "save", "refused"}
  /\ scopeNow \in SeqScopes \cup {NoScope} /\ shown \subseteq Contents /\ tracked \subseteq shown
  /\ seqRuns \in 0 .. MaxSeqRuns

LEMMA RestStep == SInv /\ ScopesLeft /\ SRest /\ [SequentialNext]_seqVars => SRest'
<1> SUFFICES ASSUME SInv, ScopesLeft, SRest, [SequentialNext]_seqVars PROVE SRest'
  OBVIOUS
<1>1. MaxSeqRuns \in Nat /\ seqRuns \in Nat /\ afterFlush \in {"recheck", "off"}
  BY SequentialAssumption DEF SInv, STypes, SRest
<1>2. ASSUME NEW b \in manifests, SeqRecover(b) PROVE SRest'
  BY <1>2 DEF SeqRecover, scopeVars, SRest
<1>3. CASE SeqStart
  BY <1>1, <1>3 DEF SeqStart, scopeVars, SRest
<1>4. CASE SeqRunOver \/ ScopeRaises
  BY <1>4 DEF SeqRunOver, ScopeRaises, FlushAll, EndScope, SRest
<1>5. ASSUME NEW s \in seqScopes, SeqBeginScope(s) PROVE SRest'
  BY <1>5 DEF SeqBeginScope, ScopesLeft, SRest
<1>6. ASSUME NEW c \in Contents, SeqRecordRaises(c) \/ SeqSkip(c) PROVE SRest'
  BY <1>6 DEF SeqRecordRaises, SeqSkip, EndScope, SRest
<1>7. ASSUME NEW c \in Contents, NEW hook \in BOOLEAN, SeqRecord(c, hook) PROVE SRest'
  BY <1>7 DEF SeqRecord, Track, SRest
<1>8. ASSUME NEW complete \in BOOLEAN, SeqScopeHook(complete) PROVE SRest'
  BY <1>8 DEF SeqScopeHook, SRest
<1>9. ASSUME NEW b \in flushing, FlushBatch(b) \/ FlushRaises(b) PROVE SRest'
  BY <1>9 DEF FlushBatch, FlushRaises, scopeVars, EndScope, SRest
<1>10. CASE WaitUntilDurable \/ Recheck
  BY <1>10 DEF WaitUntilDurable, Recheck, scopeVars, SRest
<1>11. CASE FlushOver
  BY <1>1, <1>11 DEF FlushOver, scopeVars, SRest
<1>12. CASE SaveCandidate \/ SeqCrash
  BY <1>12 DEF SaveCandidate, SeqCrash, EndScope, SRest
<1>13. CASE UNCHANGED seqVars
  BY <1>13 DEF seqVars, SRest
<1> QED
  BY <1>2, <1>3, <1>4, <1>5, <1>6, <1>7, <1>8, <1>9, <1>10, <1>11, <1>12, <1>13 DEF SequentialNext

(* The runtime keeps to the values its code can give its state: it is never  *)
(* in a scope it does not have, and what a hook adds to a candidate is what  *)
(* the plugin has shown or what is stored.                                  *)
THEOREM SequentialTypes == SequentialSpec => []SequentialTypeOK
<1>1. SequentialInit => SRest
  <2>1. MaxSeqRuns \in Nat
    BY SequentialAssumption
  <2> QED BY <2>1 DEF SequentialInit, SRest
<1>2. SequentialSpec => SequentialInit /\ [][SequentialNext]_seqVars
  BY DEF SequentialSpec
<1>3. SInv /\ ScopesLeft /\ SRest => SequentialTypeOK
  <2> SUFFICES ASSUME SInv, ScopesLeft, SRest PROVE SequentialTypeOK
    OBVIOUS
  <2>1. seqCandidate \subseteq SeqMarks
    BY DEF SInv, STypes, SRest, SCandidate, SeqMarks
  <2>2. seenHash \in [SeqUids -> Nat]
    BY DEF SInv, SeenIn
  <2> QED BY <2>1, <2>2 DEF SInv, STypes, SRest, ScopesLeft, SequentialTypeOK
<1> QED BY <1>1, <1>2, <1>3, RestStep, SequentialInvariant, PTL

------------------------------------------------------------------------------
(* Why the barrier refuses two versions of a record only                    *)

(* A row waits in a buffer, or in a batch that was popped from one.          *)
Waits(c) ==
  \/ \E p \in BufferKeys : c \in ToSet(seqBuffer[p])
  \/ \E b \in flushing : c \in ToSet(b)

REmpty ==
  /\ seqAt \notin {"crawl", "barrier"} => seqBuffer = EmptyBuffer
  /\ seqAt # "flush" => flushing = {}

(* Batches of different partitions share no record.                         *)
RApart ==
  /\ \A p \in BufferKeys : \A c \in ToSet(seqBuffer[p]) : PartitionFor[c.uid] = p
  /\ InScope => \A b, e \in flushing : \A c \in ToSet(b), d \in ToSet(e) :
                  PartitionFor[c.uid] = PartitionFor[d.uid] => b = e

(* What waits is of this scope, and nothing of its record was stored since. *)
RWaiting == InScope => \A c \in Contents : Waits(c) => c \in tracked /\ Unseen(c)

(* A row that does not wait is stored, and SeenStore has it unless it has    *)
(* another version of the scope.                                            *)
Settled(c) == c \in stored /\ (Unseen(c) => \E d \in tracked : d.uid = c.uid /\ d # c)
RTracked == InScope => tracked \subseteq shown /\ \A c \in tracked : Waits(c) \/ Settled(c)

RRefused == seqAt = "refused" => ~AllDurable

RInv == REmpty /\ RApart /\ RWaiting /\ RTracked /\ RRefused

LEMMA NothingWaits ==
  ASSUME seqBuffer = EmptyBuffer, flushing = {}, NEW c PROVE ~Waits(c)
BY DEF Waits, EmptyBuffer, ToSet

LEMMA RInitially == SequentialInit => RInv
BY DEF SequentialInit, RInv, REmpty, RApart, RWaiting, RTracked, RRefused, InScope, EmptyBuffer, ToSet

(* Out of a scope, only the buffer matters.                                 *)
LEMMA LeavesScope ==
  ASSUME ~InScope', seqBuffer' = EmptyBuffer, seqAt' # "flush" => flushing' = {}
  PROVE  RInv'
<1>1. REmpty'
  BY DEF REmpty
<1>2. RApart'
  BY DEF RApart, EmptyBuffer, ToSet
<1>3. RWaiting' /\ RTracked'
  BY DEF RWaiting, RTracked
<1>4. RRefused'
  BY DEF RRefused, InScope
<1>5. QED
  BY <1>1, <1>2, <1>3, <1>4 DEF RInv

(* A batch settles its rows, and those that were.                           *)
LEMMA BatchSettles ==
  ASSUME SInv, NEW b \in Seq(Contents), ProcessBatch(b),
         tracked \subseteq tracked', ToSet(b) \subseteq tracked',
         NEW c \in Contents, Settled(c) \/ c \in ToSet(b)
  PROVE  Settled(c)'
<1>1. stored' = stored \cup ToSet(b) /\ seenHash' = Committed(seenHash, b) /\ c.uid \in SeqUids
  BY DEF ProcessBatch, SeqUids
<1>2. CASE \E d \in ToSet(b) : d.uid = c.uid /\ seenHash'[c.uid] = d.version
  <2>1. PICK d \in ToSet(b) : d.uid = c.uid /\ seenHash'[c.uid] = d.version
    BY <1>2
  <2>2. QED
    BY <1>1, <2>1 DEF Settled, Unseen
<1>3. CASE (\A d \in ToSet(b) : d.uid # c.uid) /\ seenHash'[c.uid] = seenHash[c.uid]
  BY <1>1, <1>3 DEF Settled, Unseen
<1>4. QED
  BY <1>1, <1>2, <1>3, CommittedOf

(* It leaves the records of other partitions alone.                         *)
LEMMA OthersStayUnseen ==
  ASSUME NEW b \in Seq(Contents), ProcessBatch(b), NEW c \in Contents, Unseen(c),
         \A d \in ToSet(b) : d.uid # c.uid
  PROVE  Unseen(c)'
<1>1. seenHash' = Committed(seenHash, b) /\ c.uid \in SeqUids
  BY DEF ProcessBatch, SeqUids
<1>2. seenHash'[c.uid] = seenHash[c.uid]
  BY <1>1, CommittedOf
<1>3. QED
  BY <1>2 DEF Unseen

LEMMA RBeginStep ==
  ASSUME SInv, RInv, NEW s \in SeqScopes, SeqBeginScope(s) PROVE RInv'
<1>1. /\ seqAt' = "crawl" /\ seqBuffer' = EmptyBuffer /\ flushing' = {} /\ tracked' = {}
  BY DEF SeqBeginScope, RInv, REmpty
<1>2. REmpty' /\ RApart'
  BY <1>1 DEF REmpty, RApart, EmptyBuffer, ToSet
<1>3. RWaiting' /\ RTracked'
  BY <1>1 DEF RWaiting, RTracked, Waits, EmptyBuffer, ToSet
<1>4. QED
  BY <1>1, <1>2, <1>3 DEF RInv, RRefused

(* What does not touch rows, tracked ones and hashes keeps what is said.    *)
LEMMA RStays ==
  ASSUME RInv, UNCHANGED <<seqBuffer, flushing, tracked, seenHash>>, stored \subseteq stored',
         shown \subseteq shown', InScope' => InScope, REmpty', RRefused'
  PROVE  RInv'
<1>1. \A c : Waits(c)' = Waits(c) /\ Unseen(c)' = Unseen(c) /\ (Settled(c) => Settled(c)')
  BY DEF Waits, Unseen, Settled
<1>2. RApart'
  BY DEF RInv, RApart
<1>3. RWaiting' /\ RTracked'
  BY <1>1 DEF RInv, RWaiting, RTracked
<1>4. QED
  BY <1>2, <1>3 DEF RInv

LEMMA AppendedRows ==
  ASSUME NEW b \in Seq(Contents), NEW c \in Contents
  PROVE  ToSet(Append(b, c)) = ToSet(b) \cup {c}
<1>1. Append(b, c) \in Seq(Contents) /\ Len(Append(b, c)) = Len(b) + 1
  OBVIOUS
<1>2. \A n \in 1 .. Len(b) : Append(b, c)[n] = b[n]
  OBVIOUS
<1>3. Append(b, c)[Len(b) + 1] = c
  OBVIOUS
<1>4. DOMAIN b = 1 .. Len(b) /\ DOMAIN Append(b, c) = 1 .. (Len(b) + 1) /\ Len(b) \in Nat
  BY <1>1
<1>5. ToSet(Append(b, c)) \subseteq ToSet(b) \cup {c}
  BY <1>2, <1>3, <1>4 DEF ToSet
<1>6. c \in ToSet(Append(b, c))
  BY <1>3, <1>4 DEF ToSet
<1>7. ToSet(b) \subseteq ToSet(Append(b, c))
  BY <1>2, <1>4 DEF ToSet
<1>8. QED
  BY <1>5, <1>6, <1>7

LEMMA RRecordStep ==
  ASSUME SInv, RInv, NEW c \in Contents, NEW hook \in BOOLEAN, SeqRecord(c, hook) PROVE RInv'
<1> DEFINE p == PartitionFor[c.uid]
<1>1. /\ seqAt = "crawl" /\ seqAt' = "crawl" /\ flushing = {} /\ flushing' = {}
      /\ c \notin shown /\ shown' = shown \cup {c} /\ tracked' = tracked \cup {c} /\ InScope
      /\ seqBuffer \in [BufferKeys -> Seq(Contents)] /\ p \in BufferKeys
  BY GrownIsBatch DEF SeqRecord, Track, InScope, RInv, REmpty, SInv, STypes, SeqBatches
<1>2. ToSet(Grown(c)) = ToSet(seqBuffer[p]) \cup {c} /\ Grown(c) \in Seq(Contents)
  BY <1>1, AppendedRows DEF Grown
<1>3. /\ \A x \in Contents : Waits(x) => x \in tracked /\ Unseen(x)
      /\ tracked \subseteq shown /\ \A x \in tracked : Waits(x) \/ Settled(x)
      /\ tracked \subseteq Contents
      /\ \A q \in BufferKeys : \A x \in ToSet(seqBuffer[q]) : PartitionFor[x.uid] = q
  BY <1>1 DEF RInv, RWaiting, RTracked, RApart, SInv, SCandidate
<1>4. \A x : Waits(x) <=> \E q \in BufferKeys : x \in ToSet(seqBuffer[q])
  BY <1>1 DEF Waits
<1>5. \A x : Waits(x)' <=> \E q \in BufferKeys : x \in ToSet(seqBuffer'[q])
  BY <1>1 DEF Waits
<1>6. \A q \in BufferKeys : ToSet(seqBuffer[q]) \subseteq Contents
  BY <1>1, RowsOfBatch
<1>7. REmpty' /\ RRefused'
  BY <1>1 DEF REmpty, RRefused
<1> HIDE DEF p
<1>8. CASE Fills(c)
  <2>1. ProcessBatch(Grown(c)) /\ seqBuffer' = [seqBuffer EXCEPT ![p] = <<>>]
    BY <1>8 DEF SeqRecord, p
  <2>2. seqBuffer'[p] = <<>> /\ \A q \in BufferKeys \ {p} : seqBuffer'[q] = seqBuffer[q]
    BY <2>1, <1>1
  <2>3. ToSet(<<>>) = {}
    BY DEF ToSet
  <2>4. RApart'
    BY <1>1, <1>3, <2>2, <2>3 DEF RApart
  <2>5. ASSUME NEW x \in Contents, Waits(x)' PROVE x \in tracked' /\ Unseen(x)'
    <3>1. PICK q \in BufferKeys \ {p} : x \in ToSet(seqBuffer[q])
      BY <1>5, <2>2, <2>3, <2>5
    <3>2. x \in tracked /\ Unseen(x) /\ PartitionFor[x.uid] # p
      BY <1>3, <1>4, <3>1
    <3>3. \A d \in ToSet(Grown(c)) : PartitionFor[d.uid] = p
      BY <1>1, <1>2, <1>3 DEF p
    <3>4. Unseen(x)'
      BY <1>2, <2>1, <3>2, <3>3, OthersStayUnseen
    <3>5. QED
      BY <1>1, <3>2, <3>4
  <2>6. ToSet(Grown(c)) \subseteq tracked'
    BY <1>1, <1>2, <1>3, <1>4, <1>6
  <2>7. ASSUME NEW x \in tracked' PROVE Waits(x)' \/ Settled(x)'
    <3>1. x \in ToSet(Grown(c)) \/ Settled(x) \/ \E q \in BufferKeys \ {p} : x \in ToSet(seqBuffer[q])
      BY <1>1, <1>2, <1>3, <1>4
    <3>2. x \in Contents
      BY <1>1, <1>3
    <3>3. CASE x \in ToSet(Grown(c)) \/ Settled(x)
      BY <1>1, <1>2, <2>1, <2>6, <3>2, <3>3, BatchSettles
    <3>4. CASE \E q \in BufferKeys \ {p} : x \in ToSet(seqBuffer[q])
      BY <1>5, <2>2, <3>4
    <3>5. QED
      BY <3>1, <3>3, <3>4
  <2>8. QED
    BY <1>1, <1>3, <1>7, <2>4, <2>5, <2>7 DEF RInv, RWaiting, RTracked
<1>9. CASE ~Fills(c)
  <2>1. UNCHANGED <<stored, seenHash>>
    BY <1>9 DEF SeqRecord, durableVars
  <2>2. \A x : Unseen(x)' = Unseen(x)
    BY <2>1 DEF Unseen
  <2>3. \A x : Settled(x) => Settled(x)'
    BY <1>1, <2>1, <2>2 DEF Settled
  <2>4. CASE Unseen(c)
    <3>1. seqBuffer' = [seqBuffer EXCEPT ![p] = Grown(c)]
      BY <1>9, <2>4 DEF SeqRecord, p
    <3>2. seqBuffer'[p] = Grown(c) /\ \A q \in BufferKeys \ {p} : seqBuffer'[q] = seqBuffer[q]
      BY <1>1, <3>1
    <3>3. \A x : Waits(x)' <=> Waits(x) \/ x = c
      BY <1>1, <1>2, <1>4, <1>5, <3>2
    <3>4. RApart'
      BY <1>1, <1>2, <1>3, <3>2 DEF RApart, p
    <3>5. RWaiting'
      BY <1>1, <1>3, <2>2, <2>4, <3>3 DEF RWaiting
    <3>6. RTracked'
      BY <1>1, <1>3, <2>3, <3>3 DEF RTracked
    <3>7. QED
      BY <1>7, <3>4, <3>5, <3>6 DEF RInv
  <2>5. CASE ~Unseen(c)
    <3>1. seqBuffer' = seqBuffer
      BY <1>9, <2>5 DEF SeqRecord
    <3>2. \A x : Waits(x)' = Waits(x)
      BY <1>1, <3>1 DEF Waits
    <3>3. Settled(c)'
      BY <2>1, <2>2, <2>5, SeenIsStored DEF Settled, Unseen
    <3>4. RApart'
      BY <1>1, <1>3, <3>1 DEF RApart
    <3>5. RWaiting' /\ RTracked'
      BY <1>1, <1>3, <2>2, <2>3, <3>2, <3>3 DEF RWaiting, RTracked
    <3>6. QED
      BY <1>7, <3>4, <3>5 DEF RInv
  <2>6. QED
    BY <2>4, <2>5
<1>10. QED
  BY <1>8, <1>9

(* The barrier finds no row in a buffer when all is durable, since a row in  *)
(* a buffer is not; otherwise it pops all of them.                          *)
LEMMA RBarrierStep ==
  ASSUME SInv, RInv, WaitUntilDurable PROVE RInv'
<1>1. /\ seqAt = "barrier" /\ InScope /\ flushing = {} /\ seqBuffer \in [BufferKeys -> Seq(Contents)]
      /\ UNCHANGED <<tracked, shown, stored, seenHash>>
  BY DEF WaitUntilDurable, scopeVars, durableVars, InScope, RInv, REmpty, SInv, STypes, SeqBatches
<1>2. \A x : Unseen(x)' = Unseen(x) /\ (Settled(x) => Settled(x)')
  BY <1>1 DEF Unseen, Settled
<1>3. \A q \in BufferKeys : \A n \in DOMAIN seqBuffer[q] :
        seqBuffer[q][n] \in Contents /\ Waits(seqBuffer[q][n])
  BY <1>1 DEF Waits, ToSet
<1>4. CASE AllDurable
  <2>1. seqAt' = "save" /\ flushing' = {} /\ UNCHANGED seqBuffer
    BY <1>1, <1>4 DEF WaitUntilDurable
  <2>2. \A q \in BufferKeys : DOMAIN seqBuffer[q] = {}
    BY <1>1, <1>3, <1>4 DEF AllDurable, IsDurable, Unseen, RInv, RWaiting
  <2>3. \A q \in BufferKeys : seqBuffer[q] = <<>>
    <3>1. SUFFICES ASSUME NEW q \in BufferKeys PROVE seqBuffer[q] = <<>>
      OBVIOUS
    <3>2. seqBuffer[q] \in Seq(Contents)
      BY <1>1
    <3>3. Len(seqBuffer[q]) \in Nat /\ DOMAIN seqBuffer[q] = 1 .. Len(seqBuffer[q])
      BY <3>2, LenProperties
    <3>4. Len(seqBuffer[q]) = 0
      <4>1. \A n \in Nat : 1 .. n = {} => n = 0
        OBVIOUS
      <4>2. 1 .. Len(seqBuffer[q]) = {}
        BY <2>2, <3>3, Zenon
      <4>3. QED
        BY <3>3, <4>1, <4>2
    <3>5. QED
      BY <3>2, <3>4, EmptySeq
  <2>4. seqBuffer = EmptyBuffer
    BY <1>1, <2>3 DEF EmptyBuffer
  <2>5. REmpty' /\ RRefused'
    BY <2>1, <2>4 DEF REmpty, RRefused, EmptyBuffer
  <2>6. QED
    BY <1>1, <2>1, <2>5, RStays
<1>5. CASE ~AllDurable
  <2>1. /\ seqAt' = "flush" /\ afterFlush' = "recheck" /\ flushing' = NonEmpty(seqBuffer)
        /\ seqBuffer' = [q \in BufferKeys |-> IF seqBuffer[q] \in NonEmpty(seqBuffer) THEN <<>> ELSE seqBuffer[q]]
    BY <1>5 DEF WaitUntilDurable, ScopeBatches
  <2>2. seqBuffer' = EmptyBuffer
    <3>1. \A q \in BufferKeys : seqBuffer[q] \in NonEmpty(seqBuffer) \/ seqBuffer[q] = <<>>
      BY DEF NonEmpty
    <3>2. QED
      BY <2>1, <3>1 DEF EmptyBuffer
  <2>3. \A x : Waits(x)' <=> Waits(x)
    <3>1. \A x : Waits(x) <=> \E q \in BufferKeys : x \in ToSet(seqBuffer[q])
      BY <1>1 DEF Waits
    <3>2. \A x : Waits(x)' <=> \E b \in NonEmpty(seqBuffer) : x \in ToSet(b)
      BY <2>1, <2>2 DEF Waits, EmptyBuffer, ToSet
    <3>3. \A q \in BufferKeys : seqBuffer[q] = <<>> => ToSet(seqBuffer[q]) = {}
      BY DEF ToSet
    <3>4. QED
      BY <3>1, <3>2, <3>3 DEF NonEmpty
  <2>4. RApart'
    <3>1. \A q \in BufferKeys : \A x \in ToSet(seqBuffer[q]) : PartitionFor[x.uid] = q
      BY DEF RInv, RApart
    <3>2. \A b \in flushing' : \E q \in BufferKeys : b = seqBuffer[q]
      BY <2>1 DEF NonEmpty
    <3>3. \A b, e \in flushing' : \A x \in ToSet(b), y \in ToSet(e) :
            PartitionFor[x.uid] = PartitionFor[y.uid] => b = e
      BY <3>1, <3>2
    <3>4. \A q \in BufferKeys : ToSet(seqBuffer'[q]) = {}
      BY <2>2 DEF EmptyBuffer, ToSet
    <3>5. QED
      BY <3>3, <3>4 DEF RApart
  <2>5. REmpty' /\ RRefused'
    BY <2>1, <2>2 DEF REmpty, RRefused, EmptyBuffer
  <2>6. RWaiting' /\ RTracked'
    BY <1>1, <1>2, <2>3 DEF RInv, RWaiting, RTracked
  <2>7. QED
    BY <2>4, <2>5, <2>6 DEF RInv
<1>6. QED
  BY <1>4, <1>5

LEMMA RFlushStep ==
  ASSUME SInv, RInv, NEW b \in flushing, FlushBatch(b) PROVE RInv'
<1>1. /\ seqAt = "flush" /\ ProcessBatch(b) /\ flushing' = flushing \ {b} /\ b \in Seq(Contents)
      /\ UNCHANGED <<seqAt, afterFlush, shown, tracked, seqBuffer>> /\ seqBuffer = EmptyBuffer
      /\ flushing \subseteq Seq(Contents)
  BY DEF FlushBatch, scopeVars, SInv, STypes, SeqBatches, RInv, REmpty
<1>2. CASE ~InScope
  BY <1>1, <1>2, LeavesScope DEF InScope, EmptyBuffer
<1>3. CASE InScope
  <2>1. /\ \A x \in Contents : Waits(x) => x \in tracked /\ Unseen(x)
        /\ tracked \subseteq shown /\ \A x \in tracked : Waits(x) \/ Settled(x)
        /\ tracked \subseteq Contents
        /\ \A d, e \in flushing : \A x \in ToSet(d), y \in ToSet(e) :
             PartitionFor[x.uid] = PartitionFor[y.uid] => d = e
    BY <1>3 DEF RInv, RWaiting, RTracked, RApart, SInv, SCandidate
  <2>2. \A x : Waits(x) <=> \E d \in flushing : x \in ToSet(d)
    BY <1>1 DEF Waits, EmptyBuffer, ToSet
  <2>3. \A x : Waits(x)' <=> \E d \in flushing \ {b} : x \in ToSet(d)
    BY <1>1 DEF Waits, EmptyBuffer, ToSet
  <2>4. ToSet(b) \subseteq tracked' /\ ToSet(b) \subseteq Contents
    BY <1>1, <2>1, <2>2, RowsOfBatch
  <2>5. ASSUME NEW x \in Contents, Waits(x)' PROVE x \in tracked' /\ Unseen(x)'
    <3>1. PICK d \in flushing \ {b} : x \in ToSet(d)
      BY <2>3, <2>5
    <3>2. \A y \in ToSet(b) : y.uid # x.uid
      BY <2>1, <3>1
    <3>3. QED
      BY <1>1, <2>1, <2>2, <3>1, <3>2, OthersStayUnseen
  <2>6. ASSUME NEW x \in tracked' PROVE Waits(x)' \/ Settled(x)'
    <3>1. x \in ToSet(b) \/ Settled(x) \/ \E d \in flushing \ {b} : x \in ToSet(d)
      BY <1>1, <2>1, <2>2
    <3>2. CASE x \in ToSet(b) \/ Settled(x)
      BY <1>1, <2>1, <2>4, <3>2, BatchSettles
    <3>3. QED
      BY <2>3, <3>1, <3>2
  <2>7. RWaiting' /\ RTracked'
    BY <1>1, <2>1, <2>5, <2>6 DEF RWaiting, RTracked
  <2>8. RApart'
    <3>1. \A q \in BufferKeys : ToSet(seqBuffer'[q]) = {}
      BY <1>1 DEF EmptyBuffer, ToSet
    <3>2. flushing' \subseteq flushing
      BY <1>1
    <3>3. QED
      BY <2>1, <3>1, <3>2 DEF RApart
  <2>9. REmpty' /\ RRefused'
    BY <1>1 DEF REmpty, RRefused, EmptyBuffer
  <2>10. QED
    BY <2>7, <2>8, <2>9 DEF RInv
<1>4. QED
  BY <1>2, <1>3

LEMMA RStep ==
  ASSUME SInv, RInv, ScopesLeft, [SequentialNext]_seqVars PROVE RInv'
<1>1. CASE \E b \in manifests : SeqRecover(b)
  <2>1. seqAt = "off" /\ UNCHANGED <<seqAt, seqBuffer, flushing>>
    BY <1>1 DEF SeqRecover
  <2>2. QED
    BY <2>1, LeavesScope DEF RInv, REmpty, InScope, EmptyBuffer
<1>2. CASE SeqStart
  <2>1. seqAt = "off" /\ seqAt' = "next" /\ UNCHANGED <<seqBuffer, flushing>>
    BY <1>2 DEF SeqStart
  <2>2. QED
    BY <2>1, LeavesScope DEF RInv, REmpty, InScope, EmptyBuffer
<1>3. CASE SeqRunOver \/ ScopeRaises
  <2>1. seqAt' = "flush" /\ afterFlush' = "off" /\ seqBuffer' = EmptyBuffer
    BY <1>3 DEF SeqRunOver, ScopeRaises, FlushAll
  <2>2. QED
    BY <2>1, LeavesScope DEF InScope
<1>4. CASE \E s \in seqScopes : SeqBeginScope(s)
  BY <1>4, RBeginStep DEF ScopesLeft
<1>5. CASE \E c \in Contents : SeqRecordRaises(c)
  <2>1. seqAt' = "flush" /\ afterFlush' = "off" /\ seqBuffer' = EmptyBuffer
    BY <1>5 DEF SeqRecordRaises
  <2>2. QED
    BY <2>1, LeavesScope DEF InScope
<1>6. CASE \E c \in Contents : SeqSkip(c)
  <2>1. /\ seqAt = "crawl" /\ seqAt' = "crawl" /\ shown \subseteq shown'
        /\ UNCHANGED <<seqBuffer, flushing, tracked, seenHash, stored>>
    BY <1>6 DEF SeqSkip, durableVars
  <2>2. QED
    BY <2>1, RStays DEF RInv, REmpty, RRefused, InScope
<1>7. CASE \E c \in Contents, hook \in BOOLEAN : SeqRecord(c, hook)
  BY <1>7, RRecordStep
<1>8. CASE \E complete \in BOOLEAN : SeqScopeHook(complete)
  <2>1. /\ seqAt = "crawl" /\ seqAt' = "barrier"
        /\ UNCHANGED <<seqBuffer, flushing, tracked, shown, seenHash, stored>>
    BY <1>8 DEF SeqScopeHook, durableVars
  <2>2. QED
    BY <2>1, RStays DEF RInv, REmpty, RRefused, InScope
<1>9. CASE \E b \in flushing : FlushBatch(b)
  BY <1>9, RFlushStep
<1>10. CASE \E b \in flushing : FlushRaises(b)
  <2>1. seqAt' = "flush" /\ afterFlush' = "off" /\ seqBuffer' = EmptyBuffer
    BY <1>10 DEF FlushRaises
  <2>2. QED
    BY <2>1, LeavesScope DEF InScope
<1>11. CASE WaitUntilDurable
  BY <1>11, RBarrierStep
<1>12. CASE FlushOver
  <2>1. /\ seqAt = "flush" /\ flushing = {} /\ seqAt' = afterFlush /\ afterFlush \in {"recheck", "off"}
        /\ UNCHANGED <<seqBuffer, flushing, afterFlush, tracked, shown, seenHash, stored>>
    BY <1>12 DEF FlushOver, scopeVars, durableVars, SInv, STypes
  <2>2. QED
    BY <2>1, RStays DEF RInv, REmpty, RRefused, InScope, EmptyBuffer
<1>13. CASE Recheck
  <2>1. /\ seqAt = "recheck" /\ seqAt' \in {"save", "refused"} /\ (seqAt' = "refused" => ~AllDurable)
        /\ UNCHANGED <<seqBuffer, flushing, tracked, shown, seenHash, stored>>
    BY <1>13 DEF Recheck, scopeVars, durableVars
  <2>2. RRefused'
    BY <2>1 DEF RRefused, AllDurable, IsDurable
  <2>3. QED
    BY <2>1, <2>2, RStays DEF RInv, REmpty, InScope, EmptyBuffer
<1>14. CASE SaveCandidate
  <2>1. seqAt = "save" /\ seqAt' = "next" /\ UNCHANGED <<seqBuffer, flushing>>
    BY <1>14 DEF SaveCandidate
  <2>2. QED
    BY <2>1, LeavesScope DEF RInv, REmpty, InScope, EmptyBuffer
<1>15. CASE SeqCrash
  <2>1. seqAt' = "off" /\ flushing' = {} /\ seqBuffer' = EmptyBuffer
    BY <1>15 DEF SeqCrash
  <2>2. QED
    BY <2>1, LeavesScope DEF InScope
<1>16. CASE UNCHANGED seqVars
  BY <1>16, RStays DEF seqVars, RInv, REmpty, RRefused, InScope, EmptyBuffer, AllDurable, IsDurable
<1>17. QED
  BY <1>1, <1>2, <1>3, <1>4, <1>5, <1>6, <1>7, <1>8, <1>9, <1>10, <1>11, <1>12, <1>13, <1>14, <1>15, <1>16
     DEF SequentialNext

(* A scope is refused only when its pages showed two versions of a record,   *)
(* for any records, partitions and buffer sizes: by then every row of it is *)
(* stored, and SeenStore has its hash or that of the other version.         *)
THEOREM RefusalIsTwoVersions == SequentialSpec => []RefusesTwoVersionsOnly
<1>1. RInv => RefusesTwoVersionsOnly
  <2>1. SUFFICES ASSUME RInv, seqAt = "refused" PROVE RefusesTwoVersionsOnly
    BY DEF RefusesTwoVersionsOnly
  <2>2. seqBuffer = EmptyBuffer /\ flushing = {} /\ InScope /\ ~AllDurable
    BY <2>1 DEF RInv, REmpty, RRefused, InScope
  <2>3. \A c \in tracked : Settled(c)
    BY <2>1, <2>2, NothingWaits DEF RInv, RTracked
  <2>4. QED
    BY <2>2, <2>3 DEF RefusesTwoVersionsOnly, Settled, Unseen, AllDurable, IsDurable
<1>2. SequentialSpec => []RInv
  BY RInitially, RStep, SequentialInvariant, PTL DEF SequentialSpec
<1>3. QED
  BY <1>1, <1>2, PTL
=============================================================================
