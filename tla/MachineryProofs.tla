---------------------------- MODULE MachineryProofs ----------------------------
(***************************************************************************)
(* Proofs about the parts a crawl relies on, for any values of their       *)
(* constants.  The browser pool: a worker is never with two leases, and a  *)
(* free one has a context.  The HTTP transport: its slots are shared, and  *)
(* none gives up before its last attempt.  The bounded pipeline: a run     *)
(* that returns has delivered.  The seen store: it is never ahead of the   *)
(* site, and a document that has settled is not stored again.  The sites   *)
(* of a platform run: nobody waits for slots that do not come back.  The   *)
(* watermark: it is the end of the longest complete prefix.  The command   *)
(* line: a sweep crawls what was typed.                                    *)
(*                                                                         *)
(* None of those with tasks is ever stuck: while there is work, somebody's *)
(* guard is true (LeasesKeepMoving, RequestsKeepMoving,                    *)
(* PipelineKeepsMoving, PlatformKeepsMoving).  And a pipeline and a        *)
(* platform run take finitely many steps (PipelineRunsOut,                 *)
(* PlatformRunsOut): each step lowers a number.                            *)
(***************************************************************************)
EXTENDS Watermark, BrowserPool, PlatformSites, HttpRequests, SeenVersions, BoundedPipeline, CrawlSettings,
        FiniteSetTheorems, SequenceTheorems, WellFoundedInduction, TLAPS

------------------------------------------------------------------------------
(* What is left to do, place by place: so many units at each of finitely    *)
(* many places.  A step that takes more units from one place than it adds   *)
(* to another lowers their number.                                          *)
UnitsOf(left) == UNION {{p} \X (1 .. left[p]) : p \in DOMAIN left}
LoadOf(left) == Cardinality(UnitsOf(left))

LEMMA UnitsAre ==
  ASSUME NEW P, NEW left \in [P -> Nat]
  PROVE  /\ \A p \in P, j \in Nat : <<p, j>> \in UnitsOf(left) <=> j \in 1 .. left[p]
         /\ \A u \in UnitsOf(left) : u = <<u[1], u[2]>> /\ u[1] \in P /\ u[2] \in 1 .. left[u[1]] /\ u[2] \in Nat
<1>1. DOMAIN left = P /\ \A p \in P : left[p] \in Nat
  OBVIOUS
<1>2. \A p \in P, j \in Nat : <<p, j>> \in UnitsOf(left) <=> j \in 1 .. left[p]
  BY <1>1 DEF UnitsOf
<1>3. \A u \in UnitsOf(left) : u = <<u[1], u[2]>> /\ u[1] \in P /\ u[2] \in 1 .. left[u[1]] /\ u[2] \in Nat
  BY <1>1 DEF UnitsOf
<1> QED BY <1>2, <1>3

LEMMA LoadCounts ==
  ASSUME NEW P, IsFiniteSet(P), NEW left \in [P -> Nat]
  PROVE  IsFiniteSet(UnitsOf(left)) /\ LoadOf(left) \in Nat
<1> DEFINE heap == [p \in P |-> {p} \X (1 .. left[p])]
           heaps == {heap[p] : p \in P}
<1>1. \A p \in P : IsFiniteSet(heap[p])
  <2> SUFFICES ASSUME NEW p \in P PROVE IsFiniteSet({p} \X (1 .. left[p]))
    OBVIOUS
  <2>1. 1 \in Int /\ left[p] \in Int
    OBVIOUS
  <2>2. IsFiniteSet({p}) /\ IsFiniteSet(1 .. left[p])
    <3>1. IsFiniteSet(1 .. left[p])
      BY <2>1, FS_Interval
    <3> QED BY <3>1, FS_Singleton
  <2> QED BY <2>2, FS_Product
<1>2. IsFiniteSet(heaps)
  <2>1. heap \in Surjection(P, heaps)
    BY DEF Surjection
  <2> QED BY <2>1, FS_Surjection
<1>3. IsFiniteSet(UNION heaps)
  <2> HIDE DEF heap
  <2>1. \A T \in heaps : IsFiniteSet(T)
    BY <1>1
  <2> HIDE DEF heaps
  <2> QED BY <1>2, <2>1, FS_UNION
<1>4. UnitsOf(left) = UNION heaps
  BY DEF UnitsOf
<1> QED BY <1>3, <1>4, FS_CardinalityType DEF LoadOf

\* At one place it falls, and at no other does it rise.
LEMMA LoadFallsAt ==
  ASSUME NEW P, IsFiniteSet(P), NEW old \in [P -> Nat], NEW new \in [P -> Nat],
         NEW p \in P, new[p] < old[p], \A x \in P : new[x] <= old[x]
  PROVE  LoadOf(new) < LoadOf(old)
<1>1. UnitsOf(new) \subseteq UnitsOf(old)
  <2> SUFFICES ASSUME NEW u \in UnitsOf(new) PROVE u \in UnitsOf(old)
    OBVIOUS
  <2>1. u = <<u[1], u[2]>> /\ u[1] \in P /\ u[2] \in 1 .. new[u[1]] /\ u[2] \in Nat
    BY UnitsAre
  <2>2. new[u[1]] \in Nat /\ old[u[1]] \in Nat /\ new[u[1]] <= old[u[1]]
    BY <2>1
  <2>3. u[2] \in 1 .. old[u[1]]
    BY <2>1, <2>2
  <2> QED BY <2>1, <2>3, UnitsAre
<1>2. <<p, old[p]>> \in UnitsOf(old) /\ <<p, old[p]>> \notin UnitsOf(new)
  <2>1. old[p] \in Nat /\ new[p] \in Nat /\ old[p] \in 1 .. old[p] /\ old[p] \notin 1 .. new[p]
    OBVIOUS
  <2> QED BY <2>1, UnitsAre
<1>3. IsFiniteSet(UnitsOf(old)) /\ LoadOf(old) \in Nat /\ LoadOf(new) \in Nat
  BY LoadCounts
<1>4. LoadOf(new) <= LoadOf(old) /\ LoadOf(new) # LoadOf(old)
  BY <1>1, <1>2, <1>3, FS_Subset DEF LoadOf
<1> QED BY <1>3, <1>4

LEMMA HeapCounts ==
  ASSUME NEW p, NEW a \in Nat, NEW b \in Nat, a <= b
  PROVE  IsFiniteSet({p} \X ((a + 1) .. b)) /\ Cardinality({p} \X ((a + 1) .. b)) = b - a
<1> DEFINE span == (a + 1) .. b
<1>1. IsFiniteSet(span) /\ Cardinality(span) = b - a
  <2>1. a + 1 \in Int /\ b \in Int
    OBVIOUS
  <2>2. IsFiniteSet(span) /\ Cardinality(span) = IF a + 1 > b THEN 0 ELSE b - (a + 1) + 1
    BY <2>1, FS_Interval
  <2> QED BY <2>2
<1>2. IsFiniteSet({p}) /\ Cardinality({p}) = 1
  BY FS_Singleton
<1> HIDE DEF span
<1>3. IsFiniteSet({p} \X span) /\ Cardinality({p} \X span) = 1 * Cardinality(span)
  BY <1>1, <1>2, FS_Product
<1>4. 1 * Cardinality(span) = Cardinality(span)
  BY <1>1
<1> QED BY <1>1, <1>3, <1>4 DEF span

\* It moves from p to q, and less than has left p comes to q.
LEMMA LoadMoves ==
  ASSUME NEW P, IsFiniteSet(P), NEW old \in [P -> Nat], NEW new \in [P -> Nat],
         NEW p \in P, NEW q \in P, new[p] + new[q] < old[p] + old[q], new[p] <= old[p],
         \A x \in P \ {p, q} : new[x] <= old[x]
  PROVE  LoadOf(new) < LoadOf(old)
<1>1. /\ old[p] \in Nat /\ new[p] \in Nat /\ old[q] \in Nat /\ new[q] \in Nat
  OBVIOUS
<1>2. CASE new[q] <= old[q]
  <2>1. \A x \in P : new[x] <= old[x]
    BY <1>2
  <2>2. new[p] < old[p] \/ new[q] < old[q]
    BY <1>1
  <2> QED BY <2>1, <2>2, LoadFallsAt
<1>3. CASE old[q] < new[q]
  <2> DEFINE gone == {p} \X ((new[p] + 1) .. old[p])
             come == {q} \X ((old[q] + 1) .. new[q])
             stay == UnitsOf(old) \ gone
  <2>1. p # q
    BY <1>1, <1>3
  <2>2. IsFiniteSet(UnitsOf(old)) /\ LoadOf(old) \in Nat /\ LoadOf(new) \in Nat
    BY LoadCounts
  <2>3. gone \subseteq UnitsOf(old)
    <3> SUFFICES ASSUME NEW j \in (new[p] + 1) .. old[p] PROVE <<p, j>> \in UnitsOf(old)
      OBVIOUS
    <3>1. j \in Nat /\ j \in 1 .. old[p]
      BY <1>1
    <3> QED BY <3>1, UnitsAre
  <2>4. IsFiniteSet(gone) /\ Cardinality(gone) = old[p] - new[p]
    BY <1>1, HeapCounts
  <2>5. IsFiniteSet(come) /\ Cardinality(come) = new[q] - old[q]
    <3>1. old[q] <= new[q]
      BY <1>1, <1>3
    <3> HIDE DEF gone, stay
    <3> QED BY <1>1, <3>1, HeapCounts
  <2>6. UnitsOf(new) \subseteq stay \cup come
    <3> SUFFICES ASSUME NEW u \in UnitsOf(new), u \notin come PROVE u \in UnitsOf(old) /\ u \notin gone
      OBVIOUS
    <3>1. u = <<u[1], u[2]>> /\ u[1] \in P /\ u[2] \in 1 .. new[u[1]] /\ u[2] \in Nat
      BY UnitsAre
    <3>2. new[u[1]] \in Nat /\ old[u[1]] \in Nat
      BY <3>1
    <3>3. u[2] \in 1 .. old[u[1]]
      <4>1. CASE u[1] = q
        BY <1>1, <3>1, <4>1
      <4>2. CASE u[1] # q
        <5>1. new[u[1]] <= old[u[1]]
          BY <3>1, <4>2
        <5> QED BY <3>1, <3>2, <5>1
      <4> QED BY <4>1, <4>2
    <3>4. u \notin gone
      BY <1>1, <3>1
    <3> QED BY <3>1, <3>3, <3>4, UnitsAre
  <2> HIDE DEF gone, come
  <2>7. IsFiniteSet(stay) /\ Cardinality(stay) = LoadOf(old) - Cardinality(gone)
    <3>1. UnitsOf(old) \cap gone = gone
      BY <2>3
    <3> QED BY <2>2, <3>1, FS_Difference DEF LoadOf
  <2> HIDE DEF stay
  <2>8. /\ IsFiniteSet(stay \cup come)
        /\ Cardinality(stay \cup come) = Cardinality(stay) + Cardinality(come) - Cardinality(stay \cap come)
    BY <2>5, <2>7, FS_Union
  <2>9. Cardinality(stay \cap come) \in Nat /\ Cardinality(stay \cup come) \in Nat
    BY <2>5, <2>8, FS_Intersection, FS_CardinalityType
  <2>10. LoadOf(new) <= Cardinality(stay \cup come)
    BY <2>6, <2>8, FS_Subset DEF LoadOf
  <2>11. PICK a \in Nat, b \in Nat, c \in Nat, d \in Nat :
           a = LoadOf(old) /\ b = LoadOf(new) /\ c = Cardinality(stay \cap come) /\ d = Cardinality(stay \cup come)
    BY <2>2, <2>9
  <2>12. d = (a - (old[p] - new[p])) + (new[q] - old[q]) - c /\ b <= d
    BY <2>4, <2>5, <2>7, <2>8, <2>10, <2>11
  <2>13. b < a
    BY <1>1, <2>11, <2>12
  <2> QED BY <2>11, <2>13
<1> QED BY <1>1, <1>2, <1>3

-----------------------------------------------------------------------------
(* The browser pool.                                                       *)

Holds == {"page", "use", "restart", "renew"}

(* A lease has a worker from the time it took one from the queue to the    *)
(* time it gives it back or loses it; before the start there are none.     *)
BLeases ==
  /\ \A l \in Leases : leaseAt[l] \in Holds <=> leased[l] # NoBrowser
  /\ poolAt = "off" => \A l \in Leases : leaseAt[l] = "idle"

(* While the pool is open a worker is in one place.                        *)
BOnce ==
  poolAt = "open" =>
    /\ \A i, j \in 1 .. Len(free) : free[i] = free[j] => i = j
    /\ \A i \in 1 .. Len(free), l \in Leases : leased[l] # free[i]
    /\ \A l, k \in Leases : leased[l] = leased[k] /\ leased[l] # NoBrowser => l = k

(* A worker is without its context only while it is restarted.             *)
BUp ==
  poolAt = "open" =>
    /\ \A i \in 1 .. Len(free) : free[i] \in browserUp
    /\ \A l \in Leases : leaseAt[l] \in {"page", "use"} => leased[l] \in browserUp

BInv == BrowserTypeOK /\ BLeases /\ BOnce /\ BUp

LEMMA BTypes ==
  ASSUME BrowserTypeOK
  PROVE  /\ free \in Seq(Browsers) /\ Len(free) \in Nat /\ \A i \in 1 .. Len(free) : free[i] \in Browsers
         /\ browserUp \subseteq Browsers /\ scopesDone \in [Browsers -> 0 .. RecycleAfter]
         /\ leased \in [Leases -> Browsers \cup {NoBrowser}]
         /\ attempts \in [Leases -> 0 .. OperationAttempts] /\ DOMAIN leaseAt = Leases
         /\ NoBrowser \notin Browsers /\ Cardinality(Browsers) \in Nat
         /\ RecycleAfter \in Nat \ {0} /\ OperationAttempts \in Nat \ {0}
<1>1. /\ free \in Seq(Browsers) /\ browserUp \subseteq Browsers /\ scopesDone \in [Browsers -> 0 .. RecycleAfter]
      /\ leased \in [Leases -> Browsers \cup {NoBrowser}] /\ attempts \in [Leases -> 0 .. OperationAttempts]
      /\ DOMAIN leaseAt = Leases
  BY DEF BrowserTypeOK
<1>2. Len(free) \in Nat /\ \A i \in 1 .. Len(free) : free[i] \in Browsers
  BY <1>1
<1>3. NoBrowser \notin Browsers /\ RecycleAfter \in Nat \ {0} /\ OperationAttempts \in Nat \ {0} /\ IsFiniteSet(Browsers)
  BY BrowserAssumption
<1>4. Cardinality(Browsers) \in Nat
  BY <1>3, FS_CardinalityType
<1>5. QED BY <1>1, <1>2, <1>3, <1>4

(* Free workers that are all different are no more than there are.         *)
LEMMA FreeAreFew ==
  ASSUME NEW f \in Seq(Browsers), \A i, j \in 1 .. Len(f) : f[i] = f[j] => i = j
  PROVE  Len(f) <= Cardinality(Browsers)
<1>1. Len(f) \in Nat /\ f \in [1 .. Len(f) -> Browsers]
  BY LenProperties
<1>2. f \in Injection(1 .. Len(f), Browsers)
  BY <1>1 DEF Injection, IsInjective
<1>3. Cardinality(1 .. Len(f)) <= Cardinality(Browsers)
  BY <1>2, BrowserAssumption, FS_Injection
<1>4. Cardinality(1 .. Len(f)) = Len(f)
  BY <1>1, FS_Interval
<1>5. QED BY <1>3, <1>4

(* A lease moves while no worker changes hands.                            *)
LEMMA LeaseWaits ==
  ASSUME BInv, NEW l \in Leases,
         NEW to \in {"idle", "channel", "worker", "page", "use", "restart", "renew", "done", "raised"},
         leaseAt' = [leaseAt EXCEPT ![l] = to],
         to \in Holds <=> leaseAt[l] \in Holds,
         poolAt # "off", attempts' \in [Leases -> 0 .. OperationAttempts],
         \/ browserUp' = browserUp /\ (to \in {"page", "use"} => leased[l] \in browserUp)
         \/ browserUp' = browserUp \ {leased[l]} /\ leaseAt[l] \in Holds /\ to \notin {"page", "use"},
         UNCHANGED <<poolAt, free, scopesDone, leased>>
  PROVE  BInv'
<1>1. /\ leaseAt'[l] = to /\ \A k \in Leases : k # l => leaseAt'[k] = leaseAt[k]
      /\ leaseAt' \in [Leases -> {"idle", "channel", "worker", "page", "use", "restart", "renew", "done", "raised"}]
  BY DEF BInv, BrowserTypeOK
<1>2. BrowserTypeOK'
  <2>1. browserUp' \subseteq Browsers
    BY BTypes DEF BInv
  <2>2. QED BY <1>1, <2>1 DEF BInv, BrowserTypeOK
<1>3. BLeases'
  BY <1>1 DEF BInv, BLeases, Holds
<1>4. BOnce'
  BY DEF BInv, BOnce
<1>5. BUp'
  <2> SUFFICES ASSUME poolAt = "open" PROVE BUp'
    BY DEF BUp
  <2>1. CASE browserUp' = browserUp /\ (to \in {"page", "use"} => leased[l] \in browserUp)
    BY <2>1, <1>1 DEF BInv, BUp
  <2>2. CASE browserUp' = browserUp \ {leased[l]} /\ leaseAt[l] \in Holds /\ to \notin {"page", "use"}
    <3>1. leased[l] # NoBrowser
      BY <2>2 DEF BInv, BLeases
    <3>2. \A i \in 1 .. Len(free) : free[i] \in browserUp'
      BY <2>2 DEF BInv, BUp, BOnce
    <3>3. ASSUME NEW k \in Leases, leaseAt'[k] \in {"page", "use"} PROVE leased[k] \in browserUp'
      <4>1. k # l /\ leaseAt[k] \in {"page", "use"}
        BY <3>3, <1>1, <2>2
      <4>2. leased[k] # leased[l] /\ leased[k] \in browserUp
        BY <4>1, <3>1 DEF BInv, BUp, BOnce
      <4>3. QED BY <4>2, <2>2
    <3>4. QED BY <3>2, <3>3 DEF BUp
  <2>3. QED BY <2>1, <2>2
<1>6. QED BY <1>2, <1>3, <1>4, <1>5 DEF BInv

(* A lease gives its worker back, or loses it.                             *)
LEMMA LeaseOver ==
  ASSUME BInv, NEW l \in Leases, leaseAt[l] \in Holds,
         NEW to \in {"channel", "done", "raised"},
         leaseAt' = [leaseAt EXCEPT ![l] = to],
         leased' = [leased EXCEPT ![l] = NoBrowser],
         attempts' \in [Leases -> 0 .. OperationAttempts],
         scopesDone' \in [Browsers -> 0 .. RecycleAfter],
         browserUp \subseteq browserUp', browserUp' \subseteq Browsers, poolAt' = poolAt,
         free' = free \/ (free' = Append(free, leased[l]) /\ ~Closing /\ leased[l] \in browserUp')
  PROVE  BInv'
<1>1. /\ leaseAt'[l] = to /\ \A k \in Leases : k # l => leaseAt'[k] = leaseAt[k]
      /\ leaseAt' \in [Leases -> {"idle", "channel", "worker", "page", "use", "restart", "renew", "done", "raised"}]
  BY DEF BInv, BrowserTypeOK
<1>2. /\ leased[l] \in Browsers /\ leased[l] # NoBrowser /\ poolAt # "off"
      /\ leased'[l] = NoBrowser /\ \A k \in Leases : k # l => leased'[k] = leased[k]
      /\ leased' \in [Leases -> Browsers \cup {NoBrowser}]
  BY BTypes DEF BInv, BLeases, Holds
<1>3. BLeases'
  BY <1>1, <1>2 DEF BInv, BLeases, Holds
<1>4. free' \in Seq(Browsers)
  <2>1. free \in Seq(Browsers)
    BY BTypes DEF BInv
  <2>2. Append(free, leased[l]) \in Seq(Browsers)
    BY <1>2, <2>1
  <2>3. QED BY <2>1, <2>2
<1>5. \/ free' = free
      \/ /\ poolAt = "open" /\ leased[l] \in browserUp'
         /\ Len(free') = Len(free) + 1 /\ free'[Len(free) + 1] = leased[l]
         /\ \A i \in 1 .. Len(free) : free'[i] = free[i]
  <2>1. ~Closing => poolAt = "open"
    BY <1>2 DEF Closing, BInv, BrowserTypeOK
  <2>2. CASE free' = Append(free, leased[l]) /\ ~Closing /\ leased[l] \in browserUp'
    <3>1. /\ Len(free') = Len(free) + 1 /\ free'[Len(free) + 1] = leased[l]
          /\ \A i \in 1 .. Len(free) : free'[i] = free[i]
      BY <1>2, <2>2, BTypes, AppendProperties DEF BInv
    <3> QED BY <2>1, <2>2, <3>1
  <2> QED BY <2>2
<1>6. BOnce'
  <2> SUFFICES ASSUME poolAt = "open" PROVE BOnce'
    BY DEF BOnce
  <2>1. /\ \A i, j \in 1 .. Len(free) : free[i] = free[j] => i = j
        /\ \A i \in 1 .. Len(free), k \in Leases : leased[k] # free[i]
        /\ \A m, k \in Leases : leased[m] = leased[k] /\ leased[m] # NoBrowser => m = k
        /\ Len(free) \in Nat /\ \A i \in 1 .. Len(free) : free[i] # NoBrowser
    BY BTypes DEF BInv, BOnce
  <2>2. \A m, k \in Leases : leased'[m] = leased'[k] /\ leased'[m] # NoBrowser => m = k
    BY <1>2, <2>1
  <2>3. CASE free' = free
    BY <2>1, <2>2, <2>3, <1>2 DEF BOnce
  <2>4. CASE free' # free
    <3>1. /\ Len(free') = Len(free) + 1 /\ free'[Len(free) + 1] = leased[l]
          /\ \A i \in 1 .. Len(free) : free'[i] = free[i]
      BY <1>5, <2>4
    <3>2. ASSUME NEW i \in 1 .. Len(free'), NEW j \in 1 .. Len(free'), free'[i] = free'[j] PROVE i = j
      <4>1. (i \in 1 .. Len(free) \/ i = Len(free) + 1) /\ (j \in 1 .. Len(free) \/ j = Len(free) + 1)
        BY <2>1, <3>1
      <4>2. \A k \in 1 .. Len(free) : free[k] # leased[l]
        BY <2>1
      <4>3. QED BY <2>1, <3>1, <3>2, <4>1, <4>2, SMTT(30)
    <3>3. \A i \in 1 .. Len(free'), k \in Leases : leased'[k] # free'[i]
      BY <1>2, <2>1, <3>1
    <3>4. QED BY <2>2, <3>2, <3>3 DEF BOnce
  <2>5. QED BY <2>3, <2>4
<1>7. BUp'
  <2> SUFFICES ASSUME poolAt = "open" PROVE BUp'
    BY DEF BUp
  <2>1. \A i \in 1 .. Len(free') : free'[i] \in browserUp'
    BY <1>5, BTypes, SMTT(30) DEF BInv, BUp
  <2>2. \A k \in Leases : leaseAt'[k] \in {"page", "use"} => leased'[k] \in browserUp'
    BY <1>1, <1>2 DEF BInv, BUp
  <2>3. QED BY <2>1, <2>2 DEF BUp
<1>8. BrowserTypeOK'
  <2>1. Len(free') <= Cardinality(Browsers)
    <3>1. CASE poolAt = "open"
      BY <3>1, <1>4, <1>6, FreeAreFew DEF BOnce
    <3>2. CASE poolAt # "open"
      BY <3>2, <1>5 DEF BInv, BrowserTypeOK
    <3>3. QED BY <3>1, <3>2
  <2>2. QED BY <1>1, <1>2, <1>4, <2>1 DEF BInv, BrowserTypeOK
<1>9. QED BY <1>3, <1>6, <1>7, <1>8 DEF BInv

LEMMA WorkerTaken ==
  ASSUME BInv, NEW l \in Leases, AcquireWorker(l)
  PROVE  BInv'
<1>1. PICK b : b = Head(free)
  OBVIOUS
<1>2. /\ leaseAt[l] = "worker" /\ leaseAt' = [leaseAt EXCEPT ![l] = "page"] /\ free # <<>>
      /\ leased' = [leased EXCEPT ![l] = b] /\ free' = Tail(free)
      /\ UNCHANGED <<poolAt, browserUp, scopesDone, attempts>>
  BY <1>1 DEF AcquireWorker, LeaseMoves
<1>3. /\ b = free[1] /\ Len(free) \in Nat \ {0} /\ free' \in Seq(Browsers) /\ Len(free') = Len(free) - 1
      /\ \A i \in 1 .. Len(free') : free'[i] = free[i + 1]
      /\ b \in Browsers /\ b # NoBrowser
  <2>1. free \in Seq(Browsers) /\ NoBrowser \notin Browsers
    BY BTypes DEF BInv
  <2>2. QED BY <2>1, <1>1, <1>2, HeadTailProperties, EmptySeq, LenProperties
<1>4. /\ leaseAt'[l] = "page" /\ \A k \in Leases : k # l => leaseAt'[k] = leaseAt[k]
      /\ leaseAt' \in [Leases -> {"idle", "channel", "worker", "page", "use", "restart", "renew", "done", "raised"}]
  BY <1>2 DEF BInv, BrowserTypeOK
<1>5. /\ leased'[l] = b /\ \A k \in Leases : k # l => leased'[k] = leased[k]
      /\ leased' \in [Leases -> Browsers \cup {NoBrowser}]
  BY <1>2, <1>3, BTypes DEF BInv
<1>6. BrowserTypeOK'
  <2>1. Len(free') <= Cardinality(Browsers)
    BY <1>3, BTypes DEF BInv, BrowserTypeOK
  <2>2. QED BY <1>2, <1>3, <1>4, <1>5, <2>1 DEF BInv, BrowserTypeOK
<1>7. BLeases'
  BY <1>2, <1>3, <1>4, <1>5 DEF BInv, BLeases, Holds
<1>8. BOnce'
  <2> SUFFICES ASSUME poolAt = "open" PROVE BOnce'
    BY <1>2 DEF BOnce
  <2>1. /\ \A i, j \in 1 .. Len(free) : free[i] = free[j] => i = j
        /\ \A i \in 1 .. Len(free), k \in Leases : leased[k] # free[i]
        /\ \A m, k \in Leases : leased[m] = leased[k] /\ leased[m] # NoBrowser => m = k
    BY DEF BInv, BOnce
  <2>2. \A i, j \in 1 .. Len(free') : free'[i] = free'[j] => i = j
    BY <1>3, <2>1
  <2>3. \A i \in 1 .. Len(free'), k \in Leases : leased'[k] # free'[i]
    BY <1>3, <1>5, <2>1
  <2>4. \A m, k \in Leases : leased'[m] = leased'[k] /\ leased'[m] # NoBrowser => m = k
    BY <1>3, <1>5, <2>1
  <2>5. QED BY <2>2, <2>3, <2>4 DEF BOnce
<1>9. BUp'
  BY <1>2, <1>3, <1>4, <1>5 DEF BInv, BUp
<1>10. QED BY <1>6, <1>7, <1>8, <1>9 DEF BInv

LEMMA PoolOpensOrCloses ==
  ASSUME BInv, StartPool \/ BeginClose \/ EndClose
  PROVE  BInv'
<1>1. UNCHANGED <<scopesDone, leaseAt, leased, attempts>>
  BY DEF StartPool, BeginClose, EndClose
<1>2. CASE StartPool
  <2>1. poolAt = "off" /\ poolAt' = "open" /\ free' \in SetToSeqs(Browsers) /\ browserUp' = Browsers
    BY <1>2 DEF StartPool
  <2>2. Cardinality(Browsers) \in Nat
    BY BTypes DEF BInv
  <2>3. /\ free' \in [1 .. Cardinality(Browsers) -> Browsers]
        /\ \A i, j \in 1 .. Cardinality(Browsers) : i # j => free'[i] # free'[j]
    BY <2>1 DEF SetToSeqs
  <2>4. free' \in Seq(Browsers) /\ Len(free') = Cardinality(Browsers)
    BY <2>2, <2>3, SeqDef
  <2>5. BrowserTypeOK'
    BY <1>1, <2>1, <2>2, <2>4 DEF BInv, BrowserTypeOK
  <2>6. \A l \in Leases : leaseAt[l] = "idle" /\ leased[l] = NoBrowser
    BY <2>1 DEF BInv, BLeases, Holds
  <2>7. NoBrowser \notin Browsers
    BY BTypes DEF BInv
  <2>8. BLeases'
    BY <1>1, <2>1, <2>6 DEF BLeases, Holds
  <2>9. BOnce' /\ BUp'
    BY <1>1, <2>1, <2>2, <2>3, <2>4, <2>6, <2>7 DEF BOnce, BUp
  <2>10. QED BY <2>5, <2>8, <2>9 DEF BInv
<1>3. CASE BeginClose \/ EndClose
  <2>1. /\ poolAt # "off" /\ poolAt' \in {"closing", "closed"}
        /\ free' \in {free, <<>>} /\ browserUp' \in {browserUp, {}}
    BY <1>3 DEF BeginClose, EndClose
  <2>2. free' \in Seq(Browsers) /\ Len(free') <= Cardinality(Browsers)
    <3>1. free \in Seq(Browsers) /\ Len(free) <= Cardinality(Browsers) /\ Cardinality(Browsers) \in Nat
      BY BTypes DEF BInv, BrowserTypeOK
    <3>2. <<>> \in Seq(Browsers) /\ Len(<<>>) = 0
      OBVIOUS
    <3>3. CASE free' = free
      BY <3>1, <3>3
    <3>4. CASE free' = <<>>
      BY <3>1, <3>2, <3>4
    <3>5. QED BY <2>1, <3>3, <3>4
  <2>3. BrowserTypeOK'
    BY <1>1, <2>1, <2>2 DEF BInv, BrowserTypeOK
  <2>4. BLeases' /\ BOnce' /\ BUp'
    BY <1>1, <2>1 DEF BInv, BLeases, BOnce, BUp
  <2>5. QED BY <2>3, <2>4 DEF BInv
<1>4. QED BY <1>2, <1>3

(* Where a failed operation goes on.                                       *)
LEMMA FailureGoesOn ==
  ASSUME BInv, NEW l \in Leases, NEW retryable \in BOOLEAN, AfterFailure(l, retryable)
  PROVE  /\ \E to \in {"channel", "raised"} : leaseAt' = [leaseAt EXCEPT ![l] = to]
         /\ attempts' \in [Leases -> 0 .. OperationAttempts]
<1>1. attempts \in [Leases -> 0 .. OperationAttempts] /\ OperationAttempts \in Nat
  BY BTypes DEF BInv
<1>2. CASE retryable /\ attempts[l] < OperationAttempts
  BY <1>1, <1>2 DEF AfterFailure
<1>3. CASE ~(retryable /\ attempts[l] < OperationAttempts)
  BY <1>1, <1>3 DEF AfterFailure
<1>4. QED BY <1>2, <1>3

LEMMA LeaseReleased ==
  ASSUME BInv, NEW l \in Leases, ReleaseGood(l) \/ LeaseCancelled(l)
  PROVE  BInv'
<1>1. /\ leaseAt[l] \in {"page", "use"} /\ leased' = [leased EXCEPT ![l] = NoBrowser]
      /\ GiveBack(leased[l]) /\ UNCHANGED <<poolAt, browserUp, attempts>>
  BY DEF ReleaseGood, LeaseCancelled
<1>2. PICK to \in {"channel", "done", "raised"} : leaseAt' = [leaseAt EXCEPT ![l] = to]
  BY DEF ReleaseGood, LeaseCancelled
<1>3. /\ leased[l] \in Browsers /\ leaseAt[l] \in Holds
      /\ scopesDone \in [Browsers -> 0 .. RecycleAfter] /\ browserUp \subseteq Browsers
      /\ attempts \in [Leases -> 0 .. OperationAttempts] /\ RecycleAfter \in Nat
  BY <1>1, BTypes DEF BInv, BLeases, Holds
<1>4. scopesDone' \in [Browsers -> 0 .. RecycleAfter]
  <2>1. CASE ReleaseGood(l)
    <3>1. PICK done : /\ done \in {scopesDone[leased[l]], scopesDone[leased[l]] + 1}
                      /\ done # scopesDone[leased[l]] => ~(scopesDone[leased[l]] + 1 >= RecycleAfter)
                      /\ scopesDone' = [scopesDone EXCEPT ![leased[l]] = done]
      BY <2>1 DEF ReleaseGood, Worn
    <3>2. done \in 0 .. RecycleAfter
      BY <3>1, <1>3
    <3>3. QED BY <3>1, <3>2, <1>3
  <2>2. CASE LeaseCancelled(l)
    BY <2>2, <1>3 DEF LeaseCancelled
  <2>3. QED BY <2>1, <2>2
<1>5. free' = free \/ (free' = Append(free, leased[l]) /\ ~Closing /\ leased[l] \in browserUp')
  <2>1. ~Closing => poolAt = "open"
    BY <1>3 DEF Closing, BInv, BrowserTypeOK, BLeases, Holds
  <2>2. QED BY <1>1, <2>1 DEF GiveBack, BInv, BUp
<1>6. QED BY <1>1, <1>2, <1>3, <1>4, <1>5, LeaseOver

LEMMA WorkerLost ==
  ASSUME BInv, NEW l \in Leases, NEW retryable \in BOOLEAN, FailsClosing(l, retryable) \/ RestartRaises(l, retryable)
  PROVE  BInv'
<1>1. /\ leaseAt[l] \in Holds /\ leased' = [leased EXCEPT ![l] = NoBrowser] /\ AfterFailure(l, retryable)
      /\ UNCHANGED <<poolAt, free, browserUp, scopesDone>>
  BY DEF FailsClosing, RestartRaises, NotGivenBack, Holds
<1>2. PICK to \in {"channel", "done", "raised"} : leaseAt' = [leaseAt EXCEPT ![l] = to]
  BY <1>1, FailureGoesOn
<1>3. attempts' \in [Leases -> 0 .. OperationAttempts]
  BY <1>1, FailureGoesOn
<1>4. scopesDone' \in [Browsers -> 0 .. RecycleAfter] /\ browserUp' \subseteq Browsers
  BY <1>1, BTypes DEF BInv
<1>5. QED BY <1>1, <1>2, <1>3, <1>4, LeaseOver

LEMMA WorkerRestarted ==
  ASSUME BInv, NEW l \in Leases, NEW retryable \in BOOLEAN, EndRestart(l, retryable)
  PROVE  BInv'
<1>1. /\ leaseAt[l] \in {"restart", "renew"} /\ leased' = [leased EXCEPT ![l] = NoBrowser]
      /\ GiveBack(leased[l]) /\ browserUp' = browserUp \cup (IF Closing THEN {} ELSE {leased[l]})
      /\ scopesDone' = [scopesDone EXCEPT ![leased[l]] = 0] /\ poolAt' = poolAt /\ Restarts(l, retryable)
  BY DEF EndRestart
<1>2. /\ leased[l] \in Browsers /\ leaseAt[l] \in Holds
      /\ scopesDone \in [Browsers -> 0 .. RecycleAfter] /\ browserUp \subseteq Browsers /\ RecycleAfter \in Nat
      /\ attempts \in [Leases -> 0 .. OperationAttempts]
  BY <1>1, BTypes DEF BInv, BLeases, Holds
<1>3. /\ \E to \in {"channel", "done", "raised"} : leaseAt' = [leaseAt EXCEPT ![l] = to]
      /\ attempts' \in [Leases -> 0 .. OperationAttempts]
  <2>1. CASE leaseAt[l] = "restart"
    BY <2>1, <1>1, FailureGoesOn DEF Restarts
  <2>2. CASE leaseAt[l] # "restart"
    BY <2>2, <1>1, <1>2 DEF Restarts
  <2>3. QED BY <2>1, <2>2
<1>4. PICK to \in {"channel", "done", "raised"} : leaseAt' = [leaseAt EXCEPT ![l] = to]
  BY <1>3
<1>5. scopesDone' \in [Browsers -> 0 .. RecycleAfter] /\ browserUp' \subseteq Browsers /\ browserUp \subseteq browserUp'
  BY <1>1, <1>2
<1>6. free' = free \/ (free' = Append(free, leased[l]) /\ ~Closing /\ leased[l] \in browserUp')
  BY <1>1 DEF GiveBack
<1>7. QED BY <1>1, <1>2, <1>3, <1>4, <1>5, <1>6, LeaseOver

LEMMA LeaseAdvances ==
  ASSUME BInv, NEW l \in Leases,
         BeginOperation(l) \/ AcquireChannel(l) \/ PoolIsClosing(l) \/ OpenPage(l) \/ WaitCancelled(l) \/ BeginRestart(l)
  PROVE  BInv'
<1> DEFINE Places == {"idle", "channel", "worker", "page", "use", "restart", "renew", "done", "raised"}
<1>1. /\ attempts \in [Leases -> 0 .. OperationAttempts] /\ OperationAttempts \in Nat \ {0}
  BY BTypes DEF BInv
<1>2. UNCHANGED <<poolAt, free, scopesDone, leased>>
  BY DEF BeginOperation, AcquireChannel, PoolIsClosing, OpenPage, WaitCancelled, BeginRestart
<1>3. poolAt # "off"
  BY DEF BeginOperation, AcquireChannel, PoolIsClosing, OpenPage, WaitCancelled, BeginRestart, LeaseMoves, BInv, BLeases
<1>4. attempts' \in [Leases -> 0 .. OperationAttempts]
  <2>1. CASE BeginOperation(l)
    BY <2>1, <1>1 DEF BeginOperation
  <2>2. CASE ~BeginOperation(l)
    BY <2>2, <1>1 DEF AcquireChannel, PoolIsClosing, OpenPage, WaitCancelled, BeginRestart
  <2>3. QED BY <2>1, <2>2
<1>5. PICK to \in Places :
        /\ leaseAt' = [leaseAt EXCEPT ![l] = to] /\ (to \in Holds <=> leaseAt[l] \in Holds)
        /\ \/ browserUp' = browserUp /\ (to \in {"page", "use"} => leased[l] \in browserUp)
           \/ browserUp' = browserUp \ {leased[l]} /\ leaseAt[l] \in Holds /\ to \notin {"page", "use"}
  <2>1. CASE BeginOperation(l) \/ AcquireChannel(l) \/ PoolIsClosing(l) \/ WaitCancelled(l)
    <3>1. PICK to \in {"channel", "worker", "raised"} : leaseAt' = [leaseAt EXCEPT ![l] = to]
      BY <2>1 DEF BeginOperation, AcquireChannel, PoolIsClosing, WaitCancelled, LeaseMoves
    <3>2. leaseAt[l] \in {"idle", "channel", "worker"} /\ browserUp' = browserUp
      BY <2>1 DEF BeginOperation, AcquireChannel, PoolIsClosing, WaitCancelled, LeaseMoves
    <3>3. QED BY <3>1, <3>2 DEF Holds
  <2>2. CASE OpenPage(l)
    BY <2>2 DEF OpenPage, LeaseMoves, Holds
  <2>3. CASE BeginRestart(l)
    <3>1. PICK to \in {"restart", "renew"} : leaseAt' = [leaseAt EXCEPT ![l] = to]
      BY <2>3 DEF BeginRestart, LeaseMoves
    <3>2. leaseAt[l] \in {"page", "use"} /\ browserUp' = browserUp \ {leased[l]}
      BY <2>3 DEF BeginRestart, LeaseMoves
    <3>3. QED BY <3>1, <3>2 DEF Holds
  <2>4. QED BY <2>1, <2>2, <2>3
<1>6. QED BY <1>2, <1>3, <1>4, <1>5, LeaseWaits

LEMMA PoolInitially == BrowserInit => BInv
<1> SUFFICES ASSUME BrowserInit PROVE BInv
  OBVIOUS
<1>1. BrowserTypeOK
  <2>1. Cardinality(Browsers) \in Nat
    BY BrowserAssumption, FS_CardinalityType
  <2>2. free \in Seq(Browsers) /\ Len(free) <= Cardinality(Browsers)
    BY <2>1 DEF BrowserInit
  <2>3. QED BY <2>2, BrowserAssumption DEF BrowserInit, BrowserTypeOK
<1>2. BLeases /\ BOnce /\ BUp
  BY DEF BrowserInit, BLeases, BOnce, BUp, Holds
<1>3. QED BY <1>1, <1>2 DEF BInv

LEMMA PoolStep == BInv /\ [BrowserNext]_browserVars => BInv'
<1> SUFFICES ASSUME BInv, [BrowserNext]_browserVars PROVE BInv'
  OBVIOUS
<1>1. CASE StartPool \/ BeginClose \/ EndClose
  BY <1>1, PoolOpensOrCloses
<1>2. ASSUME NEW l \in Leases, BeginOperation(l) \/ LeaseGoesOn(l) \/ LeaseCancelled(l) \/ WaitCancelled(l)
      PROVE  BInv'
  <2>1. CASE AcquireWorker(l)
    BY <2>1, WorkerTaken
  <2>2. CASE ReleaseGood(l) \/ LeaseCancelled(l)
    BY <2>2, LeaseReleased
  <2>3. CASE BeginOperation(l) \/ AcquireChannel(l) \/ PoolIsClosing(l) \/ OpenPage(l) \/ WaitCancelled(l) \/ BeginRestart(l)
    BY <2>3, LeaseAdvances
  <2>4. ASSUME NEW retryable \in BOOLEAN, FailsClosing(l, retryable) \/ RestartRaises(l, retryable)
        PROVE  BInv'
    BY <2>4, WorkerLost
  <2>5. ASSUME NEW retryable \in BOOLEAN, EndRestart(l, retryable)
        PROVE  BInv'
    BY <2>5, WorkerRestarted
  <2>6. QED BY <1>2, <2>1, <2>2, <2>3, <2>4, <2>5 DEF LeaseGoesOn
<1>3. CASE UNCHANGED browserVars
  BY <1>3 DEF browserVars, BInv, BrowserTypeOK, BLeases, BOnce, BUp
<1>4. QED BY <1>1, <1>2, <1>3 DEF BrowserNext

(* Counted as the property counts it.                                      *)
LEMMA OnceIsSound == BInv => WorkersAreSound
<1> SUFFICES ASSUME BInv, poolAt = "open" PROVE WorkersAreSound
  BY DEF WorkersAreSound
<1>1. DOMAIN free = 1 .. Len(free)
  BY BTypes, LenProperties DEF BInv
<1>2. \A b \in ToSet(free) : b \in browserUp
  BY <1>1 DEF BInv, BUp, ToSet
<1>3. ASSUME NEW b \in Browsers
      PROVE  Cardinality({n \in DOMAIN free : free[n] = b}) + Cardinality({l \in Leases : leased[l] = b}) <= 1
  <2> DEFINE places == {n \in DOMAIN free : free[n] = b}
             holders == {l \in Leases : leased[l] = b}
  <2>1. b # NoBrowser
    BY BTypes DEF BInv
  <2>2. /\ \A i, j \in places : i = j
        /\ \A l, k \in holders : l = k
        /\ places = {} \/ holders = {}
    BY <1>1, <2>1 DEF BInv, BOnce
  <2>3. \A S : (\A i, j \in S : i = j) => Cardinality(S) \in {0, 1} /\ (S = {} => Cardinality(S) = 0)
    <3> SUFFICES ASSUME NEW S, \A i, j \in S : i = j
                 PROVE  Cardinality(S) \in {0, 1} /\ (S = {} => Cardinality(S) = 0)
      OBVIOUS
    <3>1. CASE S = {}
      BY <3>1, FS_EmptySet
    <3>2. CASE S # {}
      <4>1. PICK x \in S : TRUE
        BY <3>2
      <4>2. S = {x}
        BY <4>1
      <4>3. QED BY <4>2, FS_Singleton
    <3>3. QED BY <3>1, <3>2
  <2> HIDE DEF places, holders
  <2>4. /\ Cardinality(places) \in {0, 1} /\ Cardinality(holders) \in {0, 1}
        /\ Cardinality(places) = 0 \/ Cardinality(holders) = 0
    BY <2>2, <2>3
  <2>5. Cardinality(places) + Cardinality(holders) <= 1
    BY <2>4
  <2>6. QED BY <2>5 DEF places, holders
<1>4. QED BY <1>2, <1>3 DEF WorkersAreSound

LEMMA PoolSafely ==
  BrowserInit /\ [][BrowserNext]_browserVars => [](BrowserTypeOK /\ WorkersAreSound)
<1>1. BInv => BrowserTypeOK /\ WorkersAreSound
  BY OnceIsSound DEF BInv
<1>2. QED BY <1>1, PoolInitially, PoolStep, PTL

(* Whatever fails, is cancelled, wears out or is restarted, until the pool *)
(* closes a free worker has a context and none is with two operations.     *)
THEOREM PoolIsSound == BrowserSpec => [](BrowserTypeOK /\ WorkersAreSound)
BY PoolSafely, PTL DEF BrowserSpec

(* What a lease waits for is there.  The guards of LeaseGoesOn, by name.    *)
LeaseCanGoOn(l) ==
  \/ leaseAt[l] = "channel" /\ Cardinality({k \in HasSlot : ChannelOf[k] = ChannelOf[l]}) < ChannelLimit[ChannelOf[l]]
  \/ leaseAt[l] = "worker" /\ (Closing \/ free # <<>>)
  \/ leaseAt[l] = "page" /\ (Closing \/ leased[l] \in browserUp)
  \/ leaseAt[l] \in {"use", "restart", "renew"}

(* While an operation is not done one of them can go on, unless every       *)
(* worker is lost.                                                         *)
LeasesNeverStuck ==
  (\E l \in Leases : leaseAt[l] \in Holds \cup {"channel", "worker"})
    => (\E l \in Leases : LeaseCanGoOn(l)) \/ \A b \in Browsers : ~InPool(b)

(* Whoever holds a worker can go on.                                        *)
LEMMA HolderGoesOn ==
  ASSUME BInv, NEW l \in Leases, leaseAt[l] \in Holds
  PROVE  LeaseCanGoOn(l)
<1>1. poolAt # "off" /\ poolAt \in {"off", "open", "closing", "closed"}
  BY DEF BInv, BLeases, BrowserTypeOK, Holds
<1>2. CASE leaseAt[l] = "page"
  BY <1>1, <1>2 DEF BInv, BUp, LeaseCanGoOn, Closing
<1>3. CASE leaseAt[l] # "page"
  BY <1>3 DEF Holds, LeaseCanGoOn
<1>4. QED BY <1>2, <1>3

(* So can whoever waits for one, or somebody else, if one is left.          *)
LEMMA WorkerComes ==
  ASSUME BInv, NEW l \in Leases, leaseAt[l] = "worker", NEW b \in Browsers, InPool(b)
  PROVE  \E k \in Leases : LeaseCanGoOn(k)
<1>1. CASE free # <<>>
  BY <1>1 DEF LeaseCanGoOn
<1>2. CASE free = <<>>
  <2>1. ToSet(free) = {}
    BY <1>2 DEF ToSet
  <2>2. PICK k \in Leases : leased[k] = b
    BY <2>1 DEF InPool
  <2>3. leaseAt[k] \in Holds
    BY <2>2, BTypes DEF BInv, BLeases
  <2>4. QED BY <2>3, HolderGoesOn
<1>3. QED BY <1>1, <1>2

LEMMA SomeLeaseGoesOn == BInv => LeasesNeverStuck
<1> SUFFICES ASSUME BInv, NEW l \in Leases, leaseAt[l] \in Holds \cup {"channel", "worker"},
                    NEW b \in Browsers, InPool(b)
             PROVE  \E k \in Leases : LeaseCanGoOn(k)
  BY DEF LeasesNeverStuck
<1>1. CASE leaseAt[l] \in Holds
  BY <1>1, HolderGoesOn
<1>2. CASE leaseAt[l] = "worker"
  BY <1>2, WorkerComes
<1>3. CASE leaseAt[l] = "channel"
  <2> DEFINE sharers == {k \in HasSlot : ChannelOf[k] = ChannelOf[l]}
  <2>1. CASE sharers = {}
    <3>1. Cardinality(sharers) = 0
      BY <2>1, FS_EmptySet
    <3>2. ChannelLimit[ChannelOf[l]] \in Nat \ {0}
      BY BrowserAssumption
    <3>3. Cardinality(sharers) < ChannelLimit[ChannelOf[l]]
      BY <3>1, <3>2
    <3>4. QED BY <1>3, <3>3 DEF LeaseCanGoOn
  <2>2. CASE sharers # {}
    <3>1. PICK k \in Leases : leaseAt[k] \in Holds \cup {"worker"}
      BY <2>2 DEF HasSlot, Holds
    <3>2. QED BY <3>1, HolderGoesOn, WorkerComes
  <2>3. QED BY <2>1, <2>2
<1>4. QED BY <1>1, <1>2, <1>3

(* Operations do not wait for each other in a circle, in the order channel, *)
(* worker, page and with a restart in the way: while one is not done, one   *)
(* of them can go on, unless restarts that raised have lost every worker.   *)
THEOREM LeasesKeepMoving == BrowserSpec => []LeasesNeverStuck
BY PoolInitially, PoolStep, SomeLeaseGoesOn, PTL DEF BrowserSpec

------------------------------------------------------------------------------
(* The requests of a transport.                                             *)

(* At most max_concurrency requests have a slot, a request is in one of its  *)
(* attempts, and what gave up was in its last one.                          *)
SlotsAreFew == Cardinality(Slots) <= MaxConcurrency
AttemptsInOrder ==
  \A r \in Requests :
    /\ requestAt[r] \in {"new", "waits"} <=> tried[r] = 0
    /\ requestAt[r] = "backoff" => tried[r] < RequestAttempts
    /\ requestAt[r] = "raised" => tried[r] = RequestAttempts

HttpInv == HttpTypeOK /\ SlotsAreFew /\ AttemptsInOrder

RequestPlaces == {"slot", "delay", "sent", "backoff", "new", "waits", "returned", "refused", "raised"}

LEMMA LeastNatural ==
  ASSUME NEW T \in SUBSET Nat, T # {}
  PROVE  \E x \in T : \A y \in T : x <= y
<1>1. IsWellFoundedOn(OpToRel(<, Nat), Nat)
  BY NatLessThanWellFounded
<1>2. PICK x \in T : \A y \in T : ~ (<<y, x>> \in OpToRel(<, Nat))
  BY <1>1, WFMin
<1>3. \A y \in T : <<y, x>> \in OpToRel(<, Nat) <=> y < x
  BY DEF OpToRel
<1>4. ASSUME NEW y \in T PROVE x <= y
  <2>1. ~ (y < x)
    BY <1>2, <1>3, Zenon
  <2>2. x \in Nat /\ y \in Nat
    OBVIOUS
  <2> QED BY <2>1, <2>2
<1> QED BY <1>4

LEMMA PoolOfProxies ==
  /\ Cardinality(Proxies) \in Nat /\ Proxies = 1 .. Cardinality(Proxies) /\ Proxies \subseteq Nat
  /\ Rested \subseteq Proxies
<1>1. Cardinality(Proxies) \in Nat
  BY HttpAssumption, FS_CardinalityType
<1> QED BY <1>1, HttpAssumption DEF Rested

(* While a proxy is rested, the pool gives one, and which one is determined.*)
LEMMA RoundRobinFinds ==
  ASSUME HttpTypeOK, Rested # {}
  PROVE  \E p \in Rested : /\ Passed(p) \cap Rested = {}
                           /\ \A q \in Rested : Passed(q) \cap Rested = {} => q = p
<1>1. /\ Rested \subseteq Nat /\ \A p \in Rested : 1 <= p /\ p <= Cardinality(Proxies)
      /\ nextProxy \in Nat /\ 1 <= nextProxy
      /\ Cardinality(Proxies) \in Nat /\ Proxies = 1 .. Cardinality(Proxies)
  BY PoolOfProxies DEF HttpTypeOK
<1> DEFINE after == {p \in Rested : p >= nextProxy}
<1>2. CASE after # {}
  <2>1. PICK p \in after : \A q \in after : p <= q
    BY <1>1, <1>2, LeastNatural
  <2>2. p \in Rested /\ Passed(p) \cap Rested = {}
    BY <1>1, <2>1 DEF Passed
  <2>3. ASSUME NEW q \in Rested, Passed(q) \cap Rested = {} PROVE q = p
    <3>1. CASE q \in after
      <4>1. p <= q /\ q >= nextProxy /\ p >= nextProxy
        BY <2>1, <3>1
      <4>2. p < q => p \in Passed(q)
        BY <1>1, <2>2, <4>1 DEF Passed
      <4> QED BY <1>1, <2>2, <2>3, <4>1, <4>2
    <3>2. CASE q \notin after
      <4>1. p \in Passed(q)
        <5>1. p \in Nat /\ p >= nextProxy /\ p \in Proxies /\ ~(q >= nextProxy)
          BY <1>1, <2>1, <2>3, <3>2
        <5>2. p \notin 1 .. (nextProxy - 1)
          BY <1>1, <5>1
        <5> QED BY <5>1, <5>2 DEF Passed
      <4>2. Passed(q) \cap Rested = {}
        BY <2>3
      <4> QED BY <2>2, <4>1, <4>2
    <3> QED BY <3>1, <3>2
  <2> QED BY <2>2, <2>3
<1>3. CASE after = {}
  <2>1. PICK p \in Rested : \A q \in Rested : p <= q
    BY <1>1, LeastNatural
  <2>2. \A q \in Rested : ~(q >= nextProxy) /\ Passed(q) = (Proxies \ (1 .. (nextProxy - 1))) \cup (1 .. (q - 1))
    BY <1>3 DEF Passed
  <2>3. \A q \in Rested : Passed(q) \cap Rested = {x \in Rested : x <= q - 1}
    <3>1. \A x \in Rested : x \in 1 .. (nextProxy - 1)
      BY <1>1, <2>2
    <3>2. \A x, q \in Rested : x \in 1 .. (q - 1) <=> x <= q - 1
      BY <1>1
    <3> QED BY <2>2, <3>1, <3>2, Zenon
  <2>4. Passed(p) \cap Rested = {}
    <3>1. \A x \in Rested : x \in Nat /\ p \in Nat /\ p <= x /\ ~(x <= p - 1)
      BY <1>1, <2>1
    <3> QED BY <2>1, <2>3, <3>1
  <2>5. ASSUME NEW q \in Rested, Passed(q) \cap Rested = {} PROVE q = p
    <3>1. p \in Nat /\ q \in Nat /\ p <= q
      BY <1>1, <2>1
    <3>2. ~(p <= q - 1)
      BY <2>1, <2>3, <2>5
    <3> QED BY <3>1, <3>2
  <2> QED BY <2>4, <2>5
<1> QED BY <1>2, <1>3

LEMMA DelayIsCapped ==
  ASSUME HttpTypeOK
  PROVE  NextDelay \in 0 .. MaxDelay
<1>1. delay \in Nat /\ ThrottleDelay \in Nat /\ MaxDelay \in Nat
  BY HttpAssumption DEF HttpTypeOK
<1> DEFINE d == Max({ThrottleDelay, 2 * delay})
<1>2. d \in Nat
  <2>1. \E x \in {ThrottleDelay, 2 * delay} : \A y \in {ThrottleDelay, 2 * delay} : x >= y
    BY <1>1
  <2>2. d \in {ThrottleDelay, 2 * delay}
    BY <2>1 DEF Max
  <2> QED BY <1>1, <2>2
<1> HIDE DEF d
<1> DEFINE m == Min({MaxDelay, d})
<1>3. \E x \in {MaxDelay, d} : \A y \in {MaxDelay, d} : x <= y
  BY <1>1, <1>2
<1>4. m \in {MaxDelay, d} /\ \A y \in {MaxDelay, d} : m <= y
  BY <1>3 DEF Min
<1>5. m \in 0 .. MaxDelay
  BY <1>1, <1>2, <1>4
<1> QED BY <1>5 DEF NextDelay, m, d

RatesTyped == failures \in 0 .. FailureThreshold /\ delay \in 0 .. MaxDelay /\ circuitOpen \in 0 .. MaxDelay

LEMMA RatesKept ==
  ASSUME HttpTypeOK, RecordFailure \/ RecordSuccess \/ UNCHANGED rateVars
  PROVE  RatesTyped'
<1>1. /\ failures \in 0 .. FailureThreshold /\ delay \in 0 .. MaxDelay /\ circuitOpen \in 0 .. MaxDelay
      /\ NextDelay \in 0 .. MaxDelay /\ FailureThreshold \in Nat /\ MaxDelay \in Nat
  BY HttpAssumption, DelayIsCapped DEF HttpTypeOK
<1>2. CASE RecordFailure
  <2>1. failures < FailureThreshold => failures + 1 \in 0 .. FailureThreshold
    BY <1>1
  <2> QED BY <1>1, <1>2, <2>1 DEF RecordFailure, RatesTyped
<1>3. CASE RecordSuccess
  <2>1. 0 \in 0 .. FailureThreshold /\ 0 \in 0 .. MaxDelay
    BY <1>1
  <2> QED BY <1>3, <2>1 DEF RecordSuccess, RatesTyped
<1>4. CASE UNCHANGED rateVars
  BY <1>1, <1>4 DEF RatesTyped, rateVars
<1> QED BY <1>2, <1>3, <1>4

(* A request that has no slot before or has none after.                      *)
LEMMA SlotsFall ==
  ASSUME HttpInv, NEW r \in Requests, NEW to \in RequestPlaces, requestAt' = [requestAt EXCEPT ![r] = to],
         requestAt[r] \in InSlot \/ to \notin InSlot
  PROVE  SlotsAreFew'
<1> DEFINE before == Slots
           now == Slots'
<1>1. requestAt \in [Requests -> InSlot \cup {"new", "waits", "returned", "refused", "raised"}]
  BY DEF HttpInv, HttpTypeOK
<1>2. now \subseteq before
  BY <1>1 DEF Slots
<1>3. before \subseteq Requests
  BY DEF Slots
<1>4. Cardinality(before) <= MaxConcurrency /\ IsFiniteSet(Requests) /\ MaxConcurrency \in Nat
  BY HttpAssumption DEF HttpInv, SlotsAreFew
<1> HIDE DEF before, now
<1>5. IsFiniteSet(before)
  BY <1>3, <1>4, FS_Subset
<1>6. Cardinality(now) \in Nat /\ Cardinality(before) \in Nat /\ Cardinality(now) <= Cardinality(before)
  BY <1>2, <1>5, FS_Subset, FS_CardinalityType
<1>7. Cardinality(now) <= MaxConcurrency
  BY <1>4, <1>6
<1> QED BY <1>7 DEF now, SlotsAreFew

LEMMA TakeSlotKeeps ==
  ASSUME HttpInv, NEW r \in Requests, TakeSlot(r)
  PROVE  SlotsAreFew'
<1> DEFINE before == Slots
           now == Slots'
<1>1. requestAt \in [Requests -> InSlot \cup {"new", "waits", "returned", "refused", "raised"}]
  BY DEF HttpInv, HttpTypeOK
<1>2. Cardinality(before) < MaxConcurrency /\ requestAt' = [requestAt EXCEPT ![r] = "slot"]
  BY DEF TakeSlot, RequestMoves
<1>3. now = before \cup {r}
  BY <1>1, <1>2 DEF Slots, InSlot
<1>4. before \subseteq Requests /\ IsFiniteSet(Requests) /\ MaxConcurrency \in Nat
  BY HttpAssumption DEF Slots
<1> HIDE DEF before, now
<1>5. IsFiniteSet(before)
  BY <1>4, FS_Subset
<1>6. Cardinality(before) \in Nat
  BY <1>5, FS_CardinalityType
<1>7. Cardinality(now) = IF r \in before THEN Cardinality(before) ELSE Cardinality(before) + 1
  BY <1>3, <1>5, FS_AddElement, Zenon
<1>8. Cardinality(now) <= MaxConcurrency
  BY <1>2, <1>4, <1>6, <1>7
<1> QED BY <1>8 DEF now, SlotsAreFew

(* What the steps of a request write, apart from where it is.               *)
RequestTyped ==
  /\ tried \in [Requests -> 0 .. RequestAttempts] /\ proxyOf \in [Requests -> Proxies \cup {Direct}]
  /\ sendIn \in [Requests -> 0 .. 2 * MaxDelay]
  /\ cooling \in [Proxies -> 0 .. Cooldown] /\ nextProxy \in Proxies \cup {1}

LEMMA AfterIsAProxy ==
  ASSUME NEW p \in Proxies PROVE After(p) \in Proxies
<1> DEFINE n == Cardinality(Proxies)
<1>1. n \in Nat /\ p \in 1 .. n /\ Proxies = 1 .. n
  BY PoolOfProxies
<1> HIDE DEF n
<1>2. n > 0 /\ p \in Nat
  BY <1>1
<1>3. p % n \in 0 .. (n - 1)
  BY <1>1, <1>2
<1>4. (p % n) + 1 \in 1 .. n
  BY <1>1, <1>2, <1>3
<1> QED BY <1>1, <1>4 DEF After, n

LEMMA AcquireKeeps ==
  ASSUME HttpTypeOK, NEW r \in Requests, BeginAttempt(r)
  PROVE  RequestTyped' /\ RatesTyped'
<1>1. PICK p \in Proxies \cup {Direct} : SelectProxy(p) /\ proxyOf' = [proxyOf EXCEPT ![r] = p]
  BY DEF BeginAttempt
<1>2. nextProxy' \in Proxies \cup {1}
  BY <1>1, AfterIsAProxy, PoolOfProxies DEF SelectProxy, HttpTypeOK
<1>3. delay \in 0 .. MaxDelay /\ circuitOpen \in 0 .. MaxDelay /\ MaxDelay \in Nat
  BY HttpAssumption DEF HttpTypeOK
<1>4. DelayBefore \in 0 .. 2 * MaxDelay
  BY <1>3 DEF DelayBefore
<1>5. /\ sendIn' = [sendIn EXCEPT ![r] = DelayBefore]
      /\ UNCHANGED <<tried, cooling, failures, delay, circuitOpen>>
  BY DEF BeginAttempt, rateVars
<1> QED BY <1>1, <1>2, <1>4, <1>5 DEF HttpTypeOK, RequestTyped, RatesTyped

LEMMA ReportKeeps ==
  ASSUME HttpTypeOK, NEW r \in Requests, NEW ok \in BOOLEAN, ReportProxy(proxyOf[r], ok)
  PROVE  cooling' \in [Proxies -> 0 .. Cooldown] /\ nextProxy' \in Proxies \cup {1}
<1>1. 0 \in 0 .. Cooldown /\ Cooldown \in 0 .. Cooldown
  BY HttpAssumption
<1>2. proxyOf[r] \in Proxies \cup {Direct} /\ cooling \in [Proxies -> 0 .. Cooldown]
      /\ nextProxy \in Proxies \cup {1}
  BY DEF HttpTypeOK
<1> QED BY <1>1, <1>2 DEF ReportProxy

LEMMA TickKeeps ==
  ASSUME HttpTypeOK, Tick
  PROVE  RequestTyped' /\ RatesTyped'
<1>1. \A n, m \in Nat : n \in 0 .. m => Less(n) \in 0 .. m
  BY DEF Less
<1>2. MaxDelay \in Nat /\ 2 * MaxDelay \in Nat /\ Cooldown \in Nat
  BY HttpAssumption
<1>3. /\ sendIn \in [Requests -> 0 .. 2 * MaxDelay] /\ cooling \in [Proxies -> 0 .. Cooldown]
      /\ circuitOpen \in 0 .. MaxDelay
  BY DEF HttpTypeOK
<1>4. \A r \in Requests : sendIn[r] \in 0 .. 2 * MaxDelay /\ sendIn[r] \in Nat
  BY <1>2, <1>3
<1>5. \A p \in Proxies : cooling[p] \in 0 .. Cooldown /\ cooling[p] \in Nat
  BY <1>2, <1>3
<1>6. \A r \in Requests : Less(sendIn[r]) \in 0 .. 2 * MaxDelay
  BY <1>1, <1>2, <1>4
<1>7. \A p \in Proxies : Less(cooling[p]) \in 0 .. Cooldown
  BY <1>1, <1>2, <1>5
<1>8. Less(circuitOpen) \in 0 .. MaxDelay
  BY <1>1, <1>2, <1>3
<1> QED BY <1>6, <1>7, <1>8 DEF Tick, HttpTypeOK, RequestTyped, RatesTyped

(* The whole of a request's step, from where it moves and what it counts.   *)
LEMMA RequestStepKeeps ==
  ASSUME HttpInv, NEW r \in Requests, NEW to \in RequestPlaces, requestAt' = [requestAt EXCEPT ![r] = to],
         \A q \in Requests : q # r => tried'[q] = tried[q],
         to \in {"new", "waits"} <=> tried'[r] = 0,
         to = "backoff" => tried'[r] < RequestAttempts,
         to = "raised" => tried'[r] = RequestAttempts,
         RequestTyped', RatesTyped', SlotsAreFew'
  PROVE  HttpInv'
<1>1. requestAt \in [Requests -> InSlot \cup {"new", "waits", "returned", "refused", "raised"}]
  BY DEF HttpInv, HttpTypeOK
<1>2. HttpTypeOK'
  BY <1>1 DEF HttpTypeOK, RequestTyped, RatesTyped, RequestPlaces, InSlot
<1>3. AttemptsInOrder'
  <2> SUFFICES ASSUME NEW q \in Requests
               PROVE  /\ requestAt'[q] \in {"new", "waits"} <=> tried'[q] = 0
                      /\ requestAt'[q] = "backoff" => tried'[q] < RequestAttempts
                      /\ requestAt'[q] = "raised" => tried'[q] = RequestAttempts
    BY DEF AttemptsInOrder
  <2>1. CASE q = r
    BY <1>1, <2>1
  <2>2. CASE q # r
    <3>1. requestAt'[q] = requestAt[q] /\ tried'[q] = tried[q]
      BY <1>1, <2>2
    <3> QED BY <3>1 DEF HttpInv, AttemptsInOrder
  <2> QED BY <2>1, <2>2
<1> QED BY <1>2, <1>3 DEF HttpInv

LEMMA RequestGoes ==
  ASSUME HttpInv, NEW r \in Requests, Request(r) \/ RequestGoesOn(r)
  PROVE  HttpInv'
<1> DEFINE a == tried[r]
<1>1. /\ HttpTypeOK /\ tried \in [Requests -> 0 .. RequestAttempts] /\ RequestAttempts \in Nat \ {0}
      /\ requestAt[r] \in {"new", "waits"} <=> a = 0
      /\ requestAt[r] = "backoff" => a < RequestAttempts
  BY HttpAssumption DEF HttpInv, HttpTypeOK, AttemptsInOrder
<1>2. RequestTyped /\ RatesTyped
  BY <1>1 DEF HttpTypeOK, RequestTyped, RatesTyped
<1>3. a \in 0 .. RequestAttempts
  BY <1>1
<1>4. CASE Request(r)
  <2>1. /\ requestAt[r] = "new" /\ requestAt' = [requestAt EXCEPT ![r] = "waits"]
        /\ UNCHANGED <<tried, proxyOf, sendIn, cooling, nextProxy, failures, delay, circuitOpen>>
    BY <1>4 DEF Request, RequestMoves, proxyVars, rateVars
  <2>2. RequestTyped' /\ RatesTyped'
    BY <1>2, <2>1 DEF RequestTyped, RatesTyped
  <2>3. SlotsAreFew'
    BY <2>1, SlotsFall DEF RequestPlaces, InSlot
  <2>4. "waits" \in RequestPlaces
    BY DEF RequestPlaces
  <2> QED BY <1>1, <2>1, <2>2, <2>3, <2>4, RequestStepKeeps
<1>5. CASE TakeSlot(r)
  <2>1. /\ requestAt' = [requestAt EXCEPT ![r] = "slot"] /\ tried' = [tried EXCEPT ![r] = 1]
        /\ UNCHANGED <<proxyOf, sendIn, cooling, nextProxy, failures, delay, circuitOpen>>
    BY <1>5 DEF TakeSlot, RequestMoves, proxyVars, rateVars
  <2>2. 1 \in 0 .. RequestAttempts
    BY <1>1
  <2>3. RequestTyped' /\ RatesTyped' /\ tried'[r] = 1 /\ \A q \in Requests : q # r => tried'[q] = tried[q]
    BY <1>1, <1>2, <2>1, <2>2 DEF RequestTyped, RatesTyped
  <2>4. SlotsAreFew'
    BY <1>5, TakeSlotKeeps
  <2>5. "slot" \in RequestPlaces /\ tried'[r] # 0 /\ "slot" \notin {"new", "waits", "backoff", "raised"}
    BY <2>3 DEF RequestPlaces
  <2> QED BY <2>1, <2>3, <2>4, <2>5, RequestStepKeeps
<1>6. CASE BeginAttempt(r) \/ Send(r)
  <2>1. PICK to \in {"delay", "sent"} :
          /\ requestAt' = [requestAt EXCEPT ![r] = to] /\ requestAt[r] \in {"slot", "delay"} /\ tried' = tried
    BY <1>6 DEF BeginAttempt, Send, RequestMoves
  <2>2. RequestTyped' /\ RatesTyped'
    <3>1. CASE Send(r)
      BY <1>2, <3>1 DEF Send, proxyVars, rateVars, RequestTyped, RatesTyped
    <3> QED BY <1>1, <1>6, <3>1, AcquireKeeps
  <2>3. SlotsAreFew'
    BY <2>1, SlotsFall DEF RequestPlaces, InSlot
  <2>4. to \in RequestPlaces
    BY <2>1 DEF RequestPlaces
  <2>5. to \notin {"new", "waits", "backoff", "raised"} /\ tried'[r] # 0
    BY <1>1, <2>1
  <2> QED BY <2>1, <2>2, <2>3, <2>4, <2>5, RequestStepKeeps
<1>7. CASE Succeeds(r) \/ Fails(r) \/ \E forbidden \in BOOLEAN : Refused(r, forbidden)
  <2>1. PICK to \in {"returned", "refused", "raised", "backoff"} :
          /\ requestAt' = [requestAt EXCEPT ![r] = to] /\ requestAt[r] = "sent"
          /\ UNCHANGED <<proxyOf, sendIn, tried>>
          /\ to = "raised" => LastAttempt(r)
          /\ to = "backoff" => ~LastAttempt(r)
          /\ \E ok \in BOOLEAN : ReportProxy(proxyOf[r], ok)
          /\ RecordFailure \/ RecordSuccess \/ UNCHANGED rateVars
    BY <1>7 DEF Succeeds, Fails, Refused, Answer, RequestMoves
  <2>2. RatesTyped'
    BY <1>1, <2>1, RatesKept
  <2>3. RequestTyped'
    <3>1. cooling' \in [Proxies -> 0 .. Cooldown] /\ nextProxy' \in Proxies \cup {1}
      BY <1>1, <2>1, ReportKeeps
    <3> QED BY <1>2, <2>1, <3>1 DEF RequestTyped
  <2>4. SlotsAreFew'
    BY <2>1, SlotsFall DEF RequestPlaces, InSlot
  <2>5. to \in RequestPlaces
    BY <2>1 DEF RequestPlaces
  <2>6. tried'[r] # 0 /\ tried'[r] = a
    BY <1>1, <2>1
  <2>7. (to = "raised" => a = RequestAttempts) /\ (to = "backoff" => a < RequestAttempts)
    BY <1>1, <1>3, <2>1 DEF LastAttempt
  <2> QED BY <2>1, <2>2, <2>3, <2>4, <2>5, <2>6, <2>7, RequestStepKeeps
<1>8. CASE BackoffOver(r)
  <2>1. /\ requestAt' = [requestAt EXCEPT ![r] = "slot"] /\ requestAt[r] = "backoff"
        /\ tried' = [tried EXCEPT ![r] = @ + 1]
        /\ UNCHANGED <<proxyOf, sendIn, cooling, nextProxy, failures, delay, circuitOpen>>
    BY <1>8 DEF BackoffOver, RequestMoves, proxyVars, rateVars
  <2>2. a + 1 \in 0 .. RequestAttempts /\ a + 1 # 0
    BY <1>1, <1>3, <2>1
  <2>3. RequestTyped' /\ RatesTyped' /\ tried'[r] = a + 1 /\ \A q \in Requests : q # r => tried'[q] = tried[q]
    BY <1>1, <1>2, <2>1, <2>2 DEF RequestTyped, RatesTyped
  <2>4. SlotsAreFew'
    BY <2>1, SlotsFall DEF RequestPlaces, InSlot
  <2>5. "slot" \in RequestPlaces
    BY DEF RequestPlaces
  <2> QED BY <2>1, <2>2, <2>3, <2>4, <2>5, RequestStepKeeps
<1> QED BY <1>4, <1>5, <1>6, <1>7, <1>8 DEF RequestGoesOn

LEMMA HttpStarts == HttpInit => HttpInv
<1> SUFFICES ASSUME HttpInit PROVE HttpInv
  OBVIOUS
<1>1. HttpTypeOK
  <2>1. /\ 0 \in 0 .. RequestAttempts /\ 0 \in 0 .. 2 * MaxDelay /\ 0 \in 0 .. Cooldown
        /\ 0 \in 0 .. FailureThreshold /\ 0 \in 0 .. MaxDelay
    BY HttpAssumption
  <2> QED BY <2>1 DEF HttpInit, HttpTypeOK
<1>2. SlotsAreFew
  <2>1. Slots = {}
    BY DEF HttpInit, Slots, InSlot
  <2>2. Cardinality({}) = 0 /\ 0 <= MaxConcurrency
    BY FS_EmptySet, HttpAssumption
  <2> QED BY <2>1, <2>2 DEF SlotsAreFew
<1>3. AttemptsInOrder
  BY DEF HttpInit, AttemptsInOrder
<1> QED BY <1>1, <1>2, <1>3 DEF HttpInv

LEMMA HttpStep == HttpInv /\ [HttpNext]_httpVars => HttpInv'
<1> SUFFICES ASSUME HttpInv, [HttpNext]_httpVars PROVE HttpInv'
  OBVIOUS
<1>1. CASE Tick
  <2>1. RequestTyped' /\ RatesTyped' /\ UNCHANGED <<requestAt, tried>>
    BY <1>1, TickKeeps DEF HttpInv, Tick
  <2>2. HttpTypeOK'
    BY <2>1 DEF HttpInv, HttpTypeOK, RequestTyped, RatesTyped
  <2> QED BY <2>1, <2>2 DEF HttpInv, SlotsAreFew, AttemptsInOrder, Slots
<1>2. CASE UNCHANGED httpVars
  BY <1>2 DEF httpVars, HttpInv, HttpTypeOK, SlotsAreFew, AttemptsInOrder, Slots
<1> QED BY <1>1, <1>2, RequestGoes DEF HttpNext

LEMMA HttpSafely ==
  HttpInit /\ [][HttpNext]_httpVars => [](HttpTypeOK /\ SlotsAreFew /\ AttemptsInOrder)
BY HttpStarts, HttpStep, PTL DEF HttpInv

(* Never more requests than max_concurrency have a slot, each is in one of  *)
(* at most max_attempts attempts, and one that raises has made them all:    *)
(* however the requests take turns, whatever pool and limiter answer.       *)
THEOREM SlotsAreShared == HttpSpec => [](HttpTypeOK /\ SlotsAreFew /\ AttemptsInOrder)
BY HttpSafely, PTL DEF HttpSpec

(* The guards of RequestGoesOn, and of the time it may need.                *)
RequestCanGoOn(r) ==
  \/ requestAt[r] = "waits" /\ Cardinality(Slots) < MaxConcurrency
  \/ /\ requestAt[r] = "slot"
     /\ \E p \in Proxies \cup {Direct} :
          \/ Rested = {} /\ p = Direct
          \/ p \in Rested /\ Passed(p) \cap Rested = {}
  \/ requestAt[r] = "delay" /\ sendIn[r] = 0
  \/ requestAt[r] \in {"sent", "backoff"}

DelayRuns(r) == requestAt[r] = "delay" /\ sendIn[r] \in 1 .. 2 * MaxDelay

RequestsNeverStuck ==
  (\E r \in Requests : requestAt[r] \in InSlot \cup {"waits"})
    => \E r \in Requests : RequestCanGoOn(r) \/ DelayRuns(r)

(* Whoever has a slot can go on or waits for a delay that ends.             *)
LEMMA SlotGoesOn ==
  ASSUME HttpInv, NEW r \in Requests, requestAt[r] \in InSlot
  PROVE  RequestCanGoOn(r) \/ DelayRuns(r)
<1>1. HttpTypeOK
  BY DEF HttpInv
<1>2. CASE requestAt[r] = "slot"
  <2>1. CASE Rested = {}
    BY <1>2, <2>1 DEF RequestCanGoOn
  <2>2. CASE Rested # {}
    <3>1. PICK p \in Rested : Passed(p) \cap Rested = {}
      BY <1>1, <2>2, RoundRobinFinds
    <3>2. p \in Proxies \cup {Direct}
      BY DEF Rested
    <3>3. QED BY <1>2, <3>1, <3>2 DEF RequestCanGoOn
  <2>3. QED BY <2>1, <2>2
<1>3. CASE requestAt[r] = "delay"
  <2>1. sendIn[r] \in 0 .. 2 * MaxDelay
    BY <1>1 DEF HttpTypeOK
  <2>2. MaxDelay \in Nat
    BY HttpAssumption
  <2>3. sendIn[r] = 0 \/ sendIn[r] \in 1 .. 2 * MaxDelay
    BY <2>1, <2>2
  <2>4. QED BY <1>3, <2>3 DEF RequestCanGoOn, DelayRuns
<1>4. CASE requestAt[r] \in {"sent", "backoff"}
  BY <1>4 DEF RequestCanGoOn
<1>5. QED BY <1>2, <1>3, <1>4 DEF InSlot

LEMMA SomeRequestGoesOn == HttpInv => RequestsNeverStuck
<1> SUFFICES ASSUME HttpInv, NEW r \in Requests, requestAt[r] \in InSlot \cup {"waits"}
             PROVE  \E k \in Requests : RequestCanGoOn(k) \/ DelayRuns(k)
  BY DEF RequestsNeverStuck
<1>1. CASE requestAt[r] \in InSlot
  BY <1>1, SlotGoesOn
<1>2. CASE requestAt[r] = "waits" /\ Slots # {}
  <2>1. PICK k \in Requests : requestAt[k] \in InSlot
    BY <1>2 DEF Slots
  <2>2. QED BY <2>1, SlotGoesOn
<1>3. CASE requestAt[r] = "waits" /\ Slots = {}
  <2>1. Cardinality(Slots) = 0 /\ MaxConcurrency \in Nat \ {0}
    BY <1>3, FS_EmptySet, HttpAssumption
  <2>2. QED BY <1>3, <2>1 DEF RequestCanGoOn
<1>4. QED BY <1>1, <1>2, <1>3

(* While a request is not answered one of them can go on, or waits for a    *)
(* delay of at most twice max_delay_seconds; none waits for a slot that     *)
(* nobody gives back or for a proxy the turn does not find.                 *)
THEOREM RequestsKeepMoving == HttpSpec => []RequestsNeverStuck
BY HttpStarts, HttpStep, SomeRequestGoesOn, PTL DEF HttpSpec

(* The limiter agrees with itself: the circuit is open after as many        *)
(* failures in a row as its threshold, never for longer than the delay;     *)
(* there is no delay without a failure, and after one it is a throttle at   *)
(* least, or the cap.                                                       *)
LimiterHonest ==
  /\ circuitOpen > 0 => failures = FailureThreshold
  /\ circuitOpen <= delay
  /\ failures = 0 => delay = 0
  /\ failures > 0 => delay >= ThrottleDelay \/ delay = MaxDelay

LEMMA DelayGrows ==
  ASSUME HttpTypeOK
  PROVE  /\ NextDelay >= ThrottleDelay \/ NextDelay = MaxDelay
         /\ NextDelay >= delay
<1>1. delay \in Nat /\ delay <= MaxDelay /\ ThrottleDelay \in Nat /\ MaxDelay \in Nat
  BY HttpAssumption DEF HttpTypeOK
<1> DEFINE d == Max({ThrottleDelay, 2 * delay})
<1>2. d \in Nat /\ d >= ThrottleDelay /\ d >= delay
  <2>1. \E x \in {ThrottleDelay, 2 * delay} : \A y \in {ThrottleDelay, 2 * delay} : x >= y
    BY <1>1
  <2>2. d \in {ThrottleDelay, 2 * delay} /\ \A y \in {ThrottleDelay, 2 * delay} : d >= y
    BY <2>1 DEF Max
  <2> QED BY <1>1, <2>2
<1> HIDE DEF d
<1> DEFINE m == Min({MaxDelay, d})
<1>3. \E x \in {MaxDelay, d} : \A y \in {MaxDelay, d} : x <= y
  BY <1>1, <1>2
<1>4. m \in {MaxDelay, d}
  BY <1>3 DEF Min
<1>5. (m >= ThrottleDelay \/ m = MaxDelay) /\ m >= delay
  BY <1>1, <1>2, <1>4
<1> QED BY <1>5 DEF NextDelay, m, d

LEMMA LimiterKept ==
  ASSUME HttpTypeOK, LimiterHonest, RecordFailure \/ RecordSuccess \/ UNCHANGED rateVars
  PROVE  LimiterHonest'
<1>1. /\ failures \in 0 .. FailureThreshold /\ delay \in 0 .. MaxDelay /\ circuitOpen \in 0 .. MaxDelay
      /\ FailureThreshold \in Nat \ {0} /\ MaxDelay \in Nat /\ ThrottleDelay \in Nat
      /\ NextDelay \in 0 .. MaxDelay
  BY HttpAssumption, DelayIsCapped DEF HttpTypeOK
<1>2. CASE RecordFailure
  <2>1. /\ NextDelay >= ThrottleDelay \/ NextDelay = MaxDelay
        /\ NextDelay >= delay
    BY DelayGrows
  <2>2. /\ failures' = (IF failures < FailureThreshold THEN failures + 1 ELSE failures)
        /\ delay' = NextDelay
        /\ circuitOpen' = (IF failures + 1 >= FailureThreshold THEN NextDelay ELSE circuitOpen)
    BY <1>2 DEF RecordFailure
  <2> HIDE DEF NextDelay
  <2>3. failures' > 0 /\ (circuitOpen' > 0 => failures' = FailureThreshold)
    BY <1>1, <2>2 DEF LimiterHonest
  <2>4. circuitOpen' <= delay'
    BY <1>1, <2>1, <2>2 DEF LimiterHonest
  <2>5. QED BY <1>1, <2>1, <2>2, <2>3, <2>4 DEF LimiterHonest
<1>3. CASE RecordSuccess
  BY <1>1, <1>3 DEF RecordSuccess, LimiterHonest
<1>4. CASE UNCHANGED rateVars
  BY <1>4 DEF rateVars, LimiterHonest
<1>5. QED BY <1>2, <1>3, <1>4

LEMMA LimiterStep == HttpInv /\ LimiterHonest /\ [HttpNext]_httpVars => LimiterHonest'
<1> SUFFICES ASSUME HttpTypeOK, LimiterHonest, [HttpNext]_httpVars PROVE LimiterHonest'
  BY DEF HttpInv
<1>1. CASE Tick
  <2>1. circuitOpen \in 0 .. MaxDelay /\ delay \in 0 .. MaxDelay /\ MaxDelay \in Nat
    BY HttpAssumption DEF HttpTypeOK
  <2>2. circuitOpen' = Less(circuitOpen) /\ UNCHANGED <<failures, delay>>
    BY <1>1 DEF Tick
  <2>3. Less(circuitOpen) <= circuitOpen /\ (Less(circuitOpen) > 0 => circuitOpen > 0)
    BY <2>1 DEF Less
  <2>4. Less(circuitOpen) \in Int
    BY <2>1 DEF Less
  <2>5. QED BY <2>1, <2>2, <2>3, <2>4 DEF LimiterHonest
<1>2. CASE UNCHANGED httpVars
  BY <1>2 DEF httpVars, LimiterHonest
<1>3. CASE \E r \in Requests : Request(r) \/ RequestGoesOn(r)
  <2>1. RecordFailure \/ RecordSuccess \/ UNCHANGED rateVars
    BY <1>3 DEF Request, RequestGoesOn, TakeSlot, BeginAttempt, Send, Succeeds, Refused, Fails, BackoffOver
  <2>2. QED BY <2>1, LimiterKept
<1>4. QED BY <1>1, <1>2, <1>3 DEF HttpNext

(* The requests share one limiter and report to it in any order, while      *)
(* others wait for what it told them.                                       *)
THEOREM LimiterIsHonest == HttpSpec => []LimiterHonest
<1>1. HttpInit => LimiterHonest
  BY HttpAssumption DEF HttpInit, LimiterHonest
<1>2. QED BY <1>1, HttpStarts, HttpStep, LimiterStep, PTL DEF HttpSpec

------------------------------------------------------------------------------
(* The bounded pipeline.                                                    *)

Ended == {"ending", "returned"}
EndedOf(k) == {n \in 1 .. StageWorkers[k] : worker[<<k, n>>] \in Ended}

(* Nothing more is put before a stage.                                      *)
NoMore(k) ==
  IF k = 1 THEN source = {} ELSE \A n \in 1 .. StageWorkers[k - 1] : worker[<<k - 1, n>>] \in Ended

OnlyEnds(q) == \A i \in 1 .. Len(q) : q[i] = EndMarker
NoEnds(q) == \A i \in 1 .. Len(q) : q[i] # EndMarker
EndsAfter(q) == \A i, j \in 1 .. Len(q) : i < j /\ q[i] = EndMarker => q[j] = EndMarker
ItemsIn(q) == {x \in PipelineItems : \E i \in 1 .. Len(q) : q[i] = x}
NoRepeat(q) == \A i, j \in 1 .. Len(q) : q[i] = q[j] /\ q[i] \in PipelineItems => i = j

EndsCounted ==
  /\ \A w \in PipelineWorkers : worker[w] # "raised"
  /\ \A k \in StageNumbers : finished[k] = Cardinality(EndedOf(k))

(* A worker puts one item, or the markers of the next stage once its own is *)
(* at its end.                                                              *)
PutsInTurn ==
  \A w \in PipelineWorkers :
    /\ putLeft[w] # <<>> => worker[w] \in {"get", "ending"}
    /\ worker[w] = "get" => putLeft[w] = <<>> \/ \E x \in PipelineItems : putLeft[w] = <<x>>
    /\ worker[w] = "ending" => OnlyEnds(putLeft[w])
    /\ worker[w] = "ending" /\ putLeft[w] # <<>> => NoMore(w[1] + 1)

(* Markers come after all items of a stage.                                 *)
EndsLast ==
  \A k \in StageNumbers :
    /\ EndsAfter(queues[k])
    /\ NoEnds(queues[k]) \/ NoMore(k)
    /\ EndedOf(k) # {} => NoMore(k) /\ OnlyEnds(queues[k])

(* Where an item can be, and that it is in one place.                       *)
Containers ==
  {<<"source", <<0, 0>>>>, <<"results", <<0, 0>>>>, <<"none", <<0, 0>>>>}
  \cup {<<"queue", <<k, 0>>>> : k \in StageNumbers}
  \cup {<<"worker", w>> : w \in PipelineWorkers} \cup {<<"put", w>> : w \in PipelineWorkers}
ContentOf(c) ==
  CASE c[1] = "source" -> source
    [] c[1] = "queue" -> ItemsIn(queues[c[2][1]])
    [] c[1] = "worker" -> {worker[c[2]]} \cap PipelineItems
    [] c[1] = "put" -> ItemsIn(putLeft[c[2]])
    [] c[1] = "results" -> ItemsIn(results)
    [] OTHER -> noResult
EachOnce ==
  \A x \in PipelineItems :
    \E c \in Containers : x \in ContentOf(c) /\ \A d \in Containers : x \in ContentOf(d) => d = c
NoneTwice == NoRepeat(results) /\ \A k \in StageNumbers : NoRepeat(queues[k])

PutsBefore == \A w \in PipelineWorkers : putLeft[w] # <<>> => w[1] < FinalStage
AllReturned == pipeline = "returned" => \A w \in PipelineWorkers : worker[w] = "returned"

PipelineBase == PipelineTypeOK /\ PutsBefore
PipelineLive == EndsCounted /\ PutsInTurn /\ EndsLast /\ EachOnce /\ NoneTwice /\ AllReturned
PipelineInv == PipelineBase /\ (pipeline # "raised" => PipelineLive)

------------------------------------------------------------------------------
(* Sequences of items and markers                                           *)

LEMMA MarkersApart == EndMarker \notin PipelineItems /\ PipelineItems \cap {"get", "ending", "returned", "raised"} = {}
BY PipelineAssumption DEF EndMarker

LEMMA AppendOne ==
  ASSUME NEW q \in Queued, NEW e \in PipelineItems \cup {EndMarker}
  PROVE  /\ Append(q, e) \in Queued /\ Len(Append(q, e)) = Len(q) + 1 /\ Len(q) \in Nat
         /\ ItemsIn(Append(q, e)) = ItemsIn(q) \cup ({e} \cap PipelineItems)
         /\ OnlyEnds(q) /\ e = EndMarker => OnlyEnds(Append(q, e))
         /\ NoEnds(q) /\ e # EndMarker => NoEnds(Append(q, e))
         /\ EndsAfter(q) /\ (e = EndMarker \/ NoEnds(q)) => EndsAfter(Append(q, e))
         /\ NoRepeat(q) /\ e \notin ItemsIn(q) => NoRepeat(Append(q, e))
<1> DEFINE n == Len(q)
           p == Append(q, e)
<1>1. n \in Nat /\ q \in Seq(PipelineItems \cup {EndMarker}) /\ \A i \in 1 .. n : q[i] \in PipelineItems \cup {EndMarker}
  BY DEF Queued
<1>2. p \in Queued /\ Len(p) = n + 1 /\ p[n + 1] = e /\ \A i \in 1 .. n : p[i] = q[i]
  BY <1>1, AppendProperties DEF Queued
<1>3. \A i \in 1 .. Len(p) : i \in 1 .. n \/ i = n + 1
  BY <1>1, <1>2
<1>4. \A i \in 1 .. n : i \in 1 .. Len(p) /\ i < n + 1
  BY <1>1, <1>2
<1>5. n + 1 \in 1 .. Len(p)
  BY <1>1, <1>2
<1> HIDE DEF p
<1>6. ItemsIn(p) = ItemsIn(q) \cup ({e} \cap PipelineItems)
  BY <1>2, <1>3, <1>4, <1>5 DEF ItemsIn
<1>7. OnlyEnds(q) /\ e = EndMarker => OnlyEnds(p)
  BY <1>2, <1>3 DEF OnlyEnds
<1>8. NoEnds(q) /\ e # EndMarker => NoEnds(p)
  BY <1>2, <1>3 DEF NoEnds
<1>9. ASSUME EndsAfter(q), e = EndMarker \/ NoEnds(q), NEW i \in 1 .. Len(p), NEW j \in 1 .. Len(p),
             i < j, p[i] = EndMarker
      PROVE  p[j] = EndMarker
  <2>1. CASE j = n + 1
    <3>1. i \in 1 .. n
      BY <1>1, <1>3, <1>9, <2>1
    <3> QED BY <1>2, <1>9, <2>1, <3>1 DEF NoEnds
  <2>2. CASE j \in 1 .. n
    <3>1. i \in 1 .. n
      BY <1>1, <1>3, <1>9, <2>2
    <3> QED BY <1>2, <1>9, <2>2, <3>1 DEF EndsAfter
  <2> QED BY <1>3, <2>1, <2>2
<1>10. ASSUME NoRepeat(q), e \notin ItemsIn(q), NEW i \in 1 .. Len(p), NEW j \in 1 .. Len(p),
              p[i] = p[j], p[i] \in PipelineItems
       PROVE  i = j
  <2>1. CASE i \in 1 .. n /\ j \in 1 .. n
    BY <1>2, <1>10, <2>1 DEF NoRepeat
  <2>2. CASE i = n + 1 \/ j = n + 1
    BY <1>2, <1>3, <1>10, <2>2 DEF ItemsIn
  <2> QED BY <1>3, <2>1, <2>2
<1> QED BY <1>1, <1>2, <1>6, <1>7, <1>8, <1>9, <1>10 DEF EndsAfter, NoRepeat, p

LEMMA TailOne ==
  ASSUME NEW q \in Queued, q # <<>>
  PROVE  /\ Tail(q) \in Queued /\ Len(Tail(q)) <= Len(q) /\ Len(q) \in Nat /\ Len(Tail(q)) \in Nat
         /\ Head(q) \in PipelineItems \cup {EndMarker}
         /\ ItemsIn(q) = ItemsIn(Tail(q)) \cup ({Head(q)} \cap PipelineItems)
         /\ OnlyEnds(q) => OnlyEnds(Tail(q)) /\ Head(q) = EndMarker
         /\ NoEnds(q) => NoEnds(Tail(q)) /\ Head(q) # EndMarker
         /\ EndsAfter(q) => EndsAfter(Tail(q))
         /\ EndsAfter(q) /\ Head(q) = EndMarker => OnlyEnds(q)
         /\ NoRepeat(q) => NoRepeat(Tail(q)) /\ (Head(q) \notin ItemsIn(Tail(q)))
<1> DEFINE n == Len(q)
           p == Tail(q)
           e == Head(q)
<1>1. n \in Nat /\ n > 0 /\ \A i \in 1 .. n : q[i] \in PipelineItems \cup {EndMarker}
  BY EmptySeq, LenProperties DEF Queued
<1>2. p \in Queued /\ Len(p) = n - 1 /\ e = q[1] /\ \A i \in 1 .. (n - 1) : p[i] = q[i + 1]
  BY HeadTailProperties DEF Queued
<1>3. \A i \in 1 .. Len(p) : i + 1 \in 1 .. n /\ p[i] = q[i + 1] /\ i + 1 # 1
  BY <1>1, <1>2
<1>4. 1 \in 1 .. n
  BY <1>1
<1>5. \A i \in 1 .. n : i = 1 \/ \E j \in 1 .. Len(p) : i = j + 1
  <2> SUFFICES ASSUME NEW i \in 1 .. n, i # 1 PROVE \E j \in 1 .. Len(p) : i = j + 1
    OBVIOUS
  <2>1. i - 1 \in 1 .. Len(p) /\ i = (i - 1) + 1
    BY <1>1, <1>2
  <2> QED BY <2>1
<1>6. Len(p) <= n /\ Len(p) \in Nat
  BY <1>1, <1>2
<1>7. \A i, j \in 1 .. Len(p) : (i < j => i + 1 < j + 1) /\ (i + 1 = j + 1 => i = j)
  BY <1>6
<1>71. \A i \in 1 .. n : i # 1 => 1 < i
  BY <1>1
<1> HIDE DEF p, e, n
<1>8. ItemsIn(q) = ItemsIn(p) \cup ({e} \cap PipelineItems)
  <2>1. \A x \in PipelineItems : (\E i \in 1 .. n : q[i] = x) <=> (x = e \/ \E i \in 1 .. Len(p) : p[i] = x)
    BY <1>2, <1>3, <1>4, <1>5
  <2> QED BY <2>1 DEF ItemsIn, n
<1>9. OnlyEnds(q) => OnlyEnds(p) /\ e = EndMarker
  BY <1>2, <1>3, <1>4 DEF OnlyEnds, n
<1>10. NoEnds(q) => NoEnds(p) /\ e # EndMarker
  BY <1>2, <1>3, <1>4 DEF NoEnds, n
<1>11. EndsAfter(q) => EndsAfter(p)
  BY <1>3, <1>7 DEF EndsAfter, n
<1>12. EndsAfter(q) /\ e = EndMarker => OnlyEnds(q)
  BY <1>2, <1>4, <1>71 DEF EndsAfter, OnlyEnds, n
<1>13. NoRepeat(q) => NoRepeat(p)
  BY <1>3, <1>7 DEF NoRepeat, n
<1>14. NoRepeat(q) => e \notin ItemsIn(p)
  BY <1>2, <1>3, <1>4 DEF NoRepeat, ItemsIn, n
<1>15. e \in PipelineItems \cup {EndMarker}
  BY <1>1, <1>2, <1>4 DEF n
<1> QED BY <1>1, <1>2, <1>6, <1>8, <1>9, <1>10, <1>11, <1>12, <1>13, <1>14, <1>15 DEF p, e, n

LEMMA ShortOnes ==
  /\ <<>> \in Queued /\ ItemsIn(<<>>) = {} /\ OnlyEnds(<<>>) /\ NoEnds(<<>>) /\ EndsAfter(<<>>) /\ NoRepeat(<<>>)
  /\ \A x \in PipelineItems : <<x>> \in Queued /\ ItemsIn(<<x>>) = {x} /\ Head(<<x>>) = x /\ Tail(<<x>>) = <<>>
  /\ \A k \in StageNumbers : EndsOf(k) \in Queued /\ OnlyEnds(EndsOf(k))
  /\ \A q \in Queued : OnlyEnds(q) => ItemsIn(q) = {}
<1>1. /\ <<>> \in Queued /\ ItemsIn(<<>>) = {} /\ OnlyEnds(<<>>) /\ NoEnds(<<>>)
      /\ EndsAfter(<<>>) /\ NoRepeat(<<>>)
  BY DEF Queued, ItemsIn, OnlyEnds, NoEnds, EndsAfter, NoRepeat
<1>2. ASSUME NEW x \in PipelineItems
      PROVE  <<x>> \in Queued /\ ItemsIn(<<x>>) = {x} /\ Head(<<x>>) = x /\ Tail(<<x>>) = <<>>
  <2>1. Len(<<x>>) = 1 /\ <<x>>[1] = x /\ Head(<<x>>) = x /\ Tail(<<x>>) = <<>>
    OBVIOUS
  <2>2. 1 .. 1 = {1}
    OBVIOUS
  <2>3. <<x>> \in Queued
    BY DEF Queued
  <2> QED BY <2>1, <2>2, <2>3 DEF ItemsIn
<1>3. ASSUME NEW k \in StageNumbers PROVE EndsOf(k) \in Queued /\ OnlyEnds(EndsOf(k))
  <2>1. StageWorkers[k] \in Nat
    BY PipelineAssumption DEF StageNumbers
  <2>2. EndsOf(k) \in [1 .. StageWorkers[k] -> PipelineItems \cup {EndMarker}]
    BY DEF EndsOf
  <2>3. EndsOf(k) \in Queued /\ Len(EndsOf(k)) = StageWorkers[k]
    BY <2>1, <2>2, IsASeq, LenProperties DEF Queued, EndsOf
  <2> QED BY <2>3 DEF OnlyEnds, EndsOf
<1>4. \A q \in Queued : OnlyEnds(q) => ItemsIn(q) = {}
  BY MarkersApart DEF OnlyEnds, ItemsIn
<1> QED BY <1>1, <1>2, <1>3, <1>4

LEMMA Staff ==
  /\ FinalStage \in Nat \ {0} /\ StageNumbers = 1 .. FinalStage /\ 1 \in StageNumbers
  /\ \A k \in StageNumbers : /\ k \in Nat /\ StageWorkers[k] \in Nat \ {0} /\ QueueSizes[k] \in Nat \ {0}
                             /\ k < FinalStage => k + 1 \in StageNumbers
                             /\ k # 1 => k - 1 \in StageNumbers
  /\ \A k \in StageNumbers : \A n \in 1 .. StageWorkers[k] : <<k, n>> \in PipelineWorkers
  /\ \A w \in PipelineWorkers : w[1] \in StageNumbers /\ w[2] \in 1 .. StageWorkers[w[1]] /\ w = <<w[1], w[2]>>
<1>1. /\ StageWorkers \in Seq(Nat \ {0}) /\ StageWorkers # <<>>
      /\ QueueSizes \in Seq(Nat \ {0}) /\ Len(QueueSizes) = Len(StageWorkers)
  BY PipelineAssumption
<1>2. FinalStage \in Nat \ {0} /\ StageNumbers = 1 .. FinalStage /\ DOMAIN QueueSizes = 1 .. FinalStage
  BY <1>1, EmptySeq, LenProperties DEF FinalStage, StageNumbers
<1>3. \A k \in StageNumbers : StageWorkers[k] \in Nat \ {0} /\ QueueSizes[k] \in Nat \ {0}
  BY <1>1, <1>2 DEF FinalStage
<1>4. /\ 1 \in StageNumbers
      /\ \A k \in StageNumbers : k \in Nat /\ (k < FinalStage => k + 1 \in StageNumbers)
                                 /\ (k # 1 => k - 1 \in StageNumbers)
  BY <1>2
<1>5. \A k \in StageNumbers : \A n \in 1 .. StageWorkers[k] : <<k, n>> \in PipelineWorkers
  BY DEF PipelineWorkers
<1>6. \A w \in PipelineWorkers : w[1] \in StageNumbers /\ w[2] \in 1 .. StageWorkers[w[1]] /\ w = <<w[1], w[2]>>
  BY DEF PipelineWorkers
<1> QED BY <1>2, <1>3, <1>4, <1>5, <1>6

------------------------------------------------------------------------------
(* Where the items are                                                      *)

LEMMA ContentIs ==
  /\ ContentOf(<<"source", <<0, 0>>>>) = source /\ ContentOf(<<"results", <<0, 0>>>>) = ItemsIn(results)
  /\ ContentOf(<<"none", <<0, 0>>>>) = noResult
  /\ \A k \in StageNumbers : ContentOf(<<"queue", <<k, 0>>>>) = ItemsIn(queues[k])
  /\ \A w \in PipelineWorkers : /\ ContentOf(<<"worker", w>>) = {worker[w]} \cap PipelineItems
                                /\ ContentOf(<<"put", w>>) = ItemsIn(putLeft[w])
BY DEF ContentOf

LEMMA ContentIsThen ==
  /\ ContentOf(<<"source", <<0, 0>>>>)' = source' /\ ContentOf(<<"results", <<0, 0>>>>)' = ItemsIn(results')
  /\ ContentOf(<<"none", <<0, 0>>>>)' = noResult'
  /\ \A k \in StageNumbers : ContentOf(<<"queue", <<k, 0>>>>)' = ItemsIn(queues'[k])
  /\ \A w \in PipelineWorkers : /\ ContentOf(<<"worker", w>>)' = {worker'[w]} \cap PipelineItems
                                /\ ContentOf(<<"put", w>>)' = ItemsIn(putLeft'[w])
BY DEF ContentOf, ItemsIn

LEMMA ContainerIs ==
  /\ <<"source", <<0, 0>>>> \in Containers /\ <<"results", <<0, 0>>>> \in Containers
  /\ <<"none", <<0, 0>>>> \in Containers
  /\ \A k \in StageNumbers : <<"queue", <<k, 0>>>> \in Containers
  /\ \A w \in PipelineWorkers : <<"worker", w>> \in Containers /\ <<"put", w>> \in Containers
  /\ \A c \in Containers :
       \/ c \in {<<"source", <<0, 0>>>>, <<"results", <<0, 0>>>>, <<"none", <<0, 0>>>>}
       \/ \E k \in StageNumbers : c = <<"queue", <<k, 0>>>>
       \/ \E w \in PipelineWorkers : c = <<"worker", w>> \/ c = <<"put", w>>
BY DEF Containers

LEMMA ItemMoves ==
  ASSUME EachOnce, NEW a \in Containers, NEW b \in Containers, a # b, NEW x \in PipelineItems,
         x \in ContentOf(a), ContentOf(a)' = ContentOf(a) \ {x}, ContentOf(b)' = ContentOf(b) \cup {x},
         \A c \in Containers : c # a /\ c # b => ContentOf(c)' = ContentOf(c)
  PROVE  EachOnce'
<1> SUFFICES ASSUME NEW y \in PipelineItems
             PROVE  \E c \in Containers : y \in ContentOf(c)' /\ \A d \in Containers : y \in ContentOf(d)' => d = c
  BY DEF EachOnce
<1>1. PICK c \in Containers : y \in ContentOf(c) /\ \A d \in Containers : y \in ContentOf(d) => d = c
  BY DEF EachOnce
<1>2. CASE y = x
  <2>1. c = a
    BY <1>1, <1>2
  <2>2. \A d \in Containers : y \in ContentOf(d)' => d = b
    BY <1>1, <1>2, <2>1
  <2> QED BY <1>2, <2>2
<1>3. CASE y # x
  <2>1. \A d \in Containers : y \in ContentOf(d)' <=> y \in ContentOf(d)
    BY <1>3
  <2> QED BY <1>1, <2>1
<1> QED BY <1>2, <1>3
(* The same over the kinds of places.                                       *)
LEMMA PlacesKept ==
  ASSUME NEW a, NEW b,
         <<"source", <<0, 0>>>> \notin {a, b} => source' = source,
         <<"results", <<0, 0>>>> \notin {a, b} => results' = results,
         <<"none", <<0, 0>>>> \notin {a, b} => noResult' = noResult,
         \A k \in StageNumbers : <<"queue", <<k, 0>>>> \notin {a, b} => ItemsIn(queues'[k]) = ItemsIn(queues[k]),
         \A w \in PipelineWorkers :
           /\ <<"worker", w>> \notin {a, b} => {worker'[w]} \cap PipelineItems = {worker[w]} \cap PipelineItems
           /\ <<"put", w>> \notin {a, b} => ItemsIn(putLeft'[w]) = ItemsIn(putLeft[w])
  PROVE  \A c \in Containers : c # a /\ c # b => ContentOf(c)' = ContentOf(c)
<1> SUFFICES ASSUME NEW c \in Containers, c # a, c # b PROVE ContentOf(c)' = ContentOf(c)
  OBVIOUS
<1>1. CASE c \in {<<"source", <<0, 0>>>>, <<"results", <<0, 0>>>>, <<"none", <<0, 0>>>>}
  BY <1>1, ContentIs, ContentIsThen
<1>2. CASE \E k \in StageNumbers : c = <<"queue", <<k, 0>>>>
  BY <1>2, ContentIs, ContentIsThen
<1>3. CASE \E w \in PipelineWorkers : c = <<"worker", w>> \/ c = <<"put", w>>
  BY <1>3, ContentIs, ContentIsThen
<1> QED BY <1>1, <1>2, <1>3, ContainerIs

LEMMA NothingMoves ==
  ASSUME EachOnce, UNCHANGED <<source, results, noResult>>,
         \A k \in StageNumbers : ItemsIn(queues'[k]) = ItemsIn(queues[k]),
         \A w \in PipelineWorkers : /\ {worker'[w]} \cap PipelineItems = {worker[w]} \cap PipelineItems
                                    /\ ItemsIn(putLeft'[w]) = ItemsIn(putLeft[w])
  PROVE  EachOnce'
<1> DEFINE none == <<"none", <<0, 0>>>>
           out == <<"results", <<0, 0>>>>
<1>1. \A c \in Containers : c # none /\ c # out => ContentOf(c)' = ContentOf(c)
  BY PlacesKept
<1>2. ContentOf(none)' = ContentOf(none) /\ ContentOf(out)' = ContentOf(out)
  BY ContentIs, ContentIsThen
<1>3. \A c \in Containers : ContentOf(c)' = ContentOf(c)
  BY <1>1, <1>2
<1> QED BY <1>3 DEF EachOnce

------------------------------------------------------------------------------
(* Types                                                                    *)

LEMMA BaseTypes ==
  ASSUME PipelineBase
  PROVE  /\ source \subseteq PipelineItems /\ endsLeft \in 0 .. StageWorkers[1]
         /\ queues \in [StageNumbers -> Queued] /\ \A k \in StageNumbers : Len(queues[k]) <= QueueSizes[k]
         /\ worker \in [PipelineWorkers -> PipelineItems \cup {"get", "ending", "returned", "raised"}]
         /\ putLeft \in [PipelineWorkers -> Queued] /\ finished \in [StageNumbers -> Nat]
         /\ results \in Seq(PipelineItems) /\ noResult \subseteq PipelineItems
BY DEF PipelineBase, PipelineTypeOK

(* A queue after a put or a get.                                            *)
LEMMA QueuePut ==
  ASSUME PipelineBase, NEW k \in StageNumbers, NEW e \in PipelineItems \cup {EndMarker}, HasRoom(k),
         queues' = [queues EXCEPT ![k] = Append(queues[k], e)]
  PROVE  /\ queues' \in [StageNumbers -> Queued] /\ \A j \in StageNumbers : Len(queues'[j]) <= QueueSizes[j]
         /\ queues'[k] = Append(queues[k], e) /\ \A j \in StageNumbers : j # k => queues'[j] = queues[j]
<1>1. queues \in [StageNumbers -> Queued] /\ \A j \in StageNumbers : Len(queues[j]) <= QueueSizes[j]
  BY BaseTypes
<1>2. Append(queues[k], e) \in Queued /\ Len(Append(queues[k], e)) = Len(queues[k]) + 1 /\ Len(queues[k]) \in Nat
  BY <1>1, AppendOne
<1>3. QueueSizes[k] \in Nat /\ Len(queues[k]) < QueueSizes[k]
  BY Staff DEF HasRoom
<1>4. Len(Append(queues[k], e)) <= QueueSizes[k]
  BY <1>2, <1>3
<1> QED BY <1>1, <1>2, <1>4

LEMMA QueueGet ==
  ASSUME PipelineBase, NEW k \in StageNumbers, queues[k] # <<>>,
         queues' = [queues EXCEPT ![k] = Tail(queues[k])]
  PROVE  /\ queues' \in [StageNumbers -> Queued] /\ \A j \in StageNumbers : Len(queues'[j]) <= QueueSizes[j]
         /\ queues'[k] = Tail(queues[k]) /\ \A j \in StageNumbers : j # k => queues'[j] = queues[j]
<1>1. queues \in [StageNumbers -> Queued] /\ \A j \in StageNumbers : Len(queues[j]) <= QueueSizes[j]
  BY BaseTypes
<1>2. /\ Tail(queues[k]) \in Queued /\ Len(Tail(queues[k])) <= Len(queues[k])
      /\ Len(queues[k]) \in Nat /\ Len(Tail(queues[k])) \in Nat
  BY <1>1, TailOne
<1>3. QueueSizes[k] \in Nat /\ Len(queues[k]) <= QueueSizes[k]
  BY <1>1, Staff
<1>4. Len(Tail(queues[k])) <= QueueSizes[k]
  BY <1>2, <1>3
<1> QED BY <1>1, <1>2, <1>4

LEMMA ProduceBase ==
  ASSUME PipelineBase, (\E x \in source : Produce(x)) \/ ProduceEnd
  PROVE  PipelineBase'
<1>1. PICK e \in PipelineItems \cup {EndMarker} :
        /\ HasRoom(1) /\ queues' = [queues EXCEPT ![1] = Append(queues[1], e)]
        /\ source' \subseteq source /\ endsLeft' \in {endsLeft, endsLeft - 1} /\ (endsLeft' = endsLeft \/ endsLeft > 0)
        /\ UNCHANGED <<pipeline, worker, putLeft, finished, results, noResult>>
  <2>1. ASSUME NEW x \in source, Produce(x)
        PROVE  /\ x \in PipelineItems /\ HasRoom(1) /\ queues' = [queues EXCEPT ![1] = Append(queues[1], x)]
               /\ source' \subseteq source /\ endsLeft' = endsLeft
               /\ UNCHANGED <<pipeline, worker, putLeft, finished, results, noResult>>
    BY <2>1, BaseTypes DEF Produce
  <2>2. CASE ProduceEnd
    BY <2>2 DEF ProduceEnd
  <2> QED BY <2>1, <2>2
<1>2. queues' \in [StageNumbers -> Queued] /\ \A j \in StageNumbers : Len(queues'[j]) <= QueueSizes[j]
  BY <1>1, Staff, QueuePut
<1>3. endsLeft' \in 0 .. StageWorkers[1]
  <2>1. endsLeft \in 0 .. StageWorkers[1] /\ StageWorkers[1] \in Nat
    BY BaseTypes, Staff
  <2> QED BY <1>1, <2>1
<1>4. source' \subseteq PipelineItems
  BY <1>1, BaseTypes
<1> QED BY <1>1, <1>2, <1>3, <1>4 DEF PipelineBase, PipelineTypeOK, PutsBefore

LEMMA GetBase ==
  ASSUME PipelineBase, NEW w \in PipelineWorkers, GetEnd(w) \/ GetItem(w)
  PROVE  PipelineBase'
<1> DEFINE k == w[1]
<1>1. k \in StageNumbers /\ queues[k] # <<>> /\ queues' = [queues EXCEPT ![k] = Tail(queues[k])]
  BY Staff DEF GetEnd, GetItem
<1>2. queues' \in [StageNumbers -> Queued] /\ \A j \in StageNumbers : Len(queues'[j]) <= QueueSizes[j]
  BY <1>1, QueueGet
<1>3. /\ worker \in [PipelineWorkers -> PipelineItems \cup {"get", "ending", "returned", "raised"}]
      /\ putLeft \in [PipelineWorkers -> Queued] /\ finished \in [StageNumbers -> Nat] /\ PutsBefore
      /\ Head(queues[k]) \in PipelineItems \cup {EndMarker}
  BY <1>1, BaseTypes, TailOne DEF PipelineBase
<1>4. CASE GetEnd(w)
  <2>1. /\ finished' = [finished EXCEPT ![k] = finished[k] + 1]
        /\ putLeft' = [putLeft EXCEPT ![w] = IF LastOfStage(k) /\ k < FinalStage THEN EndsOf(k + 1) ELSE <<>>]
        /\ worker' = [worker EXCEPT ![w] = "ending"]
        /\ UNCHANGED <<pipeline, source, endsLeft, results, noResult>>
    BY <1>4 DEF GetEnd
  <2>2. (IF LastOfStage(k) /\ k < FinalStage THEN EndsOf(k + 1) ELSE <<>>) \in Queued
    BY <1>1, ShortOnes, Staff
  <2>3. finished' \in [StageNumbers -> Nat]
    <3>1. finished[k] + 1 \in Nat
      BY <1>1, <1>3
    <3> QED BY <1>3, <2>1, <3>1
  <2>4. putLeft' \in [PipelineWorkers -> Queued] /\ worker' \in [PipelineWorkers -> PipelineItems \cup {"get", "ending", "returned", "raised"}]
    BY <1>3, <2>1, <2>2
  <2>5. PutsBefore'
    BY <1>3, <2>1 DEF PutsBefore
  <2> QED BY <1>2, <2>1, <2>3, <2>4, <2>5 DEF PipelineBase, PipelineTypeOK
<1>5. CASE GetItem(w)
  <2>1. /\ worker' = [worker EXCEPT ![w] = Head(queues[k])] /\ Head(queues[k]) # EndMarker
        /\ UNCHANGED <<pipeline, source, endsLeft, putLeft, finished, results, noResult>>
    BY <1>5 DEF GetItem
  <2>2. worker' \in [PipelineWorkers -> PipelineItems \cup {"get", "ending", "returned", "raised"}]
    BY <1>3, <2>1
  <2> QED BY <1>2, <2>1, <2>2 DEF PipelineBase, PipelineTypeOK, PutsBefore
<1> QED BY <1>4, <1>5

LEMMA HandleBase ==
  ASSUME PipelineBase, NEW w \in PipelineWorkers, NEW keeps \in BOOLEAN, Handle(w, keeps)
  PROVE  PipelineBase'
<1> DEFINE x == worker[w]
<1>1. /\ x \in PipelineItems /\ worker' = [worker EXCEPT ![w] = "get"]
      /\ noResult' = (IF keeps THEN noResult ELSE noResult \cup {x})
      /\ UNCHANGED <<pipeline, source, endsLeft, queues, finished>>
  BY DEF Handle
<1>2. /\ worker' \in [PipelineWorkers -> PipelineItems \cup {"get", "ending", "returned", "raised"}]
      /\ noResult' \subseteq PipelineItems
  BY <1>1, BaseTypes
<1>3. CASE w[1] = FinalStage
  <2>1. results' \in {results, Append(results, x)} /\ putLeft' = putLeft
    BY <1>3 DEF Handle
  <2>2. results' \in Seq(PipelineItems)
    <3>1. results \in Seq(PipelineItems)
      BY BaseTypes
    <3>2. Append(results, x) \in Seq(PipelineItems)
      BY <1>1, <3>1, AppendProperties
    <3> QED BY <2>1, <3>1, <3>2
  <2> QED BY <1>1, <1>2, <2>1, <2>2 DEF PipelineBase, PipelineTypeOK, PutsBefore
<1>4. CASE w[1] # FinalStage
  <2>1. results' = results /\ \E p \in {<<x>>, <<>>} : putLeft' = [putLeft EXCEPT ![w] = p]
    BY <1>4 DEF Handle
  <2>2. putLeft \in [PipelineWorkers -> Queued] /\ <<x>> \in Queued /\ <<>> \in Queued
    BY <1>1, BaseTypes, ShortOnes
  <2>3. w[1] < FinalStage
    BY <1>4, Staff
  <2>4. putLeft' \in [PipelineWorkers -> Queued] /\ PutsBefore'
    BY <2>1, <2>2, <2>3 DEF PipelineBase, PutsBefore
  <2> QED BY <1>1, <1>2, <2>1, <2>4 DEF PipelineBase, PipelineTypeOK
<1> QED BY <1>3, <1>4

LEMMA PutBase ==
  ASSUME PipelineBase, NEW w \in PipelineWorkers, PutNext(w)
  PROVE  /\ PipelineBase' /\ w[1] + 1 \in StageNumbers /\ w[1] \in StageNumbers
         /\ Head(putLeft[w]) \in PipelineItems \cup {EndMarker}
<1> DEFINE k == w[1] + 1
<1>1. /\ putLeft[w] # <<>> /\ HasRoom(k) /\ queues' = [queues EXCEPT ![k] = Append(queues[k], Head(putLeft[w]))]
      /\ putLeft' = [putLeft EXCEPT ![w] = Tail(putLeft[w])]
      /\ UNCHANGED <<pipeline, source, endsLeft, worker, finished, results, noResult>>
  BY DEF PutNext
<1>2. k \in StageNumbers /\ w[1] \in StageNumbers /\ w[1] < FinalStage
  BY <1>1, Staff DEF PipelineBase, PutsBefore
<1>3. /\ putLeft \in [PipelineWorkers -> Queued] /\ Tail(putLeft[w]) \in Queued
      /\ Head(putLeft[w]) \in PipelineItems \cup {EndMarker}
  BY <1>1, BaseTypes, TailOne
<1>4. queues' \in [StageNumbers -> Queued] /\ \A j \in StageNumbers : Len(queues'[j]) <= QueueSizes[j]
  BY <1>1, <1>2, <1>3, QueuePut
<1>5. putLeft' \in [PipelineWorkers -> Queued] /\ PutsBefore'
  BY <1>1, <1>2, <1>3 DEF PipelineBase, PutsBefore
<1> QED BY <1>1, <1>2, <1>3, <1>4, <1>5 DEF PipelineBase, PipelineTypeOK

LEMMA EndsBase ==
  ASSUME PipelineBase, NEW w \in PipelineWorkers,
         StartPipeline \/ Gathered \/ WorkerReturns(w) \/ HandlerRaises(w) \/ UNCHANGED pipelineVars
  PROVE  PipelineBase'
<1>1. /\ pipeline' \in {pipeline, "running", "returned", "raised"}
      /\ worker' = worker \/ (\E to \in {"returned", "raised"} : worker' = [worker EXCEPT ![w] = to])
      /\ UNCHANGED <<source, endsLeft, queues, putLeft, finished, results, noResult>>
  <2>1. CASE StartPipeline \/ Gathered \/ UNCHANGED pipelineVars
    BY <2>1 DEF StartPipeline, Gathered, pipelineVars
  <2>2. CASE WorkerReturns(w) \/ HandlerRaises(w)
    BY <2>2 DEF WorkerReturns, HandlerRaises
  <2> QED BY <2>1, <2>2
<1>2. worker' \in [PipelineWorkers -> PipelineItems \cup {"get", "ending", "returned", "raised"}]
  BY <1>1, BaseTypes
<1>3. pipeline' \in {"idle", "running", "returned", "raised"}
  BY <1>1 DEF PipelineBase, PipelineTypeOK
<1> QED BY <1>1, <1>2, <1>3 DEF PipelineBase, PipelineTypeOK, PutsBefore

------------------------------------------------------------------------------
(* What has ended, and the order of the queues                              *)

LEMMA OnlyPlace ==
  ASSUME EachOnce, NEW x \in PipelineItems, NEW a \in Containers, NEW b \in Containers, a # b, x \in ContentOf(a)
  PROVE  x \notin ContentOf(b)
BY DEF EachOnce

(* Nobody begins again.                                                     *)
LEMMA NoMoreStays ==
  ASSUME source' \subseteq source, \A w \in PipelineWorkers : worker[w] \in Ended => worker'[w] \in Ended
  PROVE  \A k \in StageNumbers : NoMore(k) => NoMore(k)'
<1> SUFFICES ASSUME NEW k \in StageNumbers, NoMore(k) PROVE NoMore(k)'
  OBVIOUS
<1>1. CASE k = 1
  BY <1>1 DEF NoMore
<1>2. CASE k # 1
  <2>1. \A n \in 1 .. StageWorkers[k - 1] : <<k - 1, n>> \in PipelineWorkers
    BY <1>2, Staff
  <2> QED BY <1>2, <2>1 DEF NoMore
<1> QED BY <1>1, <1>2

LEMMA EndedKept ==
  ASSUME \A w \in PipelineWorkers : worker'[w] \in Ended <=> worker[w] \in Ended
  PROVE  \A k \in StageNumbers : EndedOf(k)' = EndedOf(k)
<1> SUFFICES ASSUME NEW k \in StageNumbers PROVE EndedOf(k)' = EndedOf(k)
  OBVIOUS
<1>1. \A n \in 1 .. StageWorkers[k] : <<k, n>> \in PipelineWorkers
  BY Staff
<1> QED BY <1>1 DEF EndedOf

(* Who is not at its end is why a later stage goes on.                      *)
LEMMA StageGoesOn ==
  ASSUME NEW w \in PipelineWorkers, worker[w] \notin Ended, w[1] + 1 \in StageNumbers
  PROVE  ~NoMore(w[1] + 1)
<1>1. w[1] \in StageNumbers /\ w[1] \in Nat /\ w[2] \in 1 .. StageWorkers[w[1]] /\ w = <<w[1], w[2]>>
  BY Staff
<1>2. w[1] + 1 # 1 /\ (w[1] + 1) - 1 = w[1]
  <2>1. w[1] \in Nat \ {0}
    BY <1>1, Staff
  <2> QED BY <2>1
<1> QED BY <1>1, <1>2 DEF NoMore

LEMMA PutKeepsOrder ==
  ASSUME PipelineBase, EndsLast, NEW k \in StageNumbers, NEW e \in PipelineItems \cup {EndMarker},
         queues'[k] = Append(queues[k], e), \A j \in StageNumbers : j # k => queues'[j] = queues[j],
         \A j \in StageNumbers : NoMore(j) => NoMore(j)',
         \A j \in StageNumbers : EndedOf(j)' = EndedOf(j),
         IF e = EndMarker THEN NoMore(k)' ELSE ~NoMore(k)
  PROVE  EndsLast'
<1> SUFFICES ASSUME NEW j \in StageNumbers
             PROVE  /\ EndsAfter(queues'[j])
                    /\ NoEnds(queues'[j]) \/ NoMore(j)'
                    /\ EndedOf(j)' # {} => NoMore(j)' /\ OnlyEnds(queues'[j])
  BY DEF EndsLast, EndsAfter, NoEnds, OnlyEnds
<1>1. /\ EndsAfter(queues[j]) /\ (NoEnds(queues[j]) \/ NoMore(j))
      /\ EndedOf(j) # {} => NoMore(j) /\ OnlyEnds(queues[j])
  BY DEF EndsLast
<1>2. CASE j # k
  BY <1>1, <1>2
<1>3. CASE j = k
  <2>1. queues[k] \in Queued
    BY BaseTypes
  <2>2. CASE e = EndMarker
    <3>1. /\ OnlyEnds(queues[j]) => OnlyEnds(queues'[j])
          /\ EndsAfter(queues[j]) => EndsAfter(queues'[j])
      BY <1>3, <2>1, <2>2, AppendOne
    <3>2. NoMore(j)' /\ (EndedOf(j)' # {} => EndedOf(j) # {})
      BY <1>1, <1>3, <2>2
    <3> QED BY <1>1, <3>1, <3>2
  <2>3. CASE e # EndMarker
    <3>1. NoEnds(queues[k]) /\ EndedOf(k)' = {}
      BY <1>1, <1>3, <2>3
    <3> QED BY <1>1, <1>3, <2>1, <2>3, <3>1, AppendOne
  <2> QED BY <2>2, <2>3
<1> QED BY <1>2, <1>3

LEMMA GetKeepsOrder ==
  ASSUME PipelineBase, EndsLast, NEW k \in StageNumbers, queues[k] # <<>>,
         queues'[k] = Tail(queues[k]), \A j \in StageNumbers : j # k => queues'[j] = queues[j],
         \A j \in StageNumbers : NoMore(j) => NoMore(j)',
         \A j \in StageNumbers : j # k => EndedOf(j)' = EndedOf(j),
         EndedOf(k)' # {} => EndedOf(k) # {} \/ Head(queues[k]) = EndMarker
  PROVE  EndsLast'
<1> SUFFICES ASSUME NEW j \in StageNumbers
             PROVE  /\ EndsAfter(queues'[j])
                    /\ NoEnds(queues'[j]) \/ NoMore(j)'
                    /\ EndedOf(j)' # {} => NoMore(j)' /\ OnlyEnds(queues'[j])
  BY DEF EndsLast, EndsAfter, NoEnds, OnlyEnds
<1>1. /\ EndsAfter(queues[j]) /\ (NoEnds(queues[j]) \/ NoMore(j))
      /\ EndedOf(j) # {} => NoMore(j) /\ OnlyEnds(queues[j])
  BY DEF EndsLast
<1>2. CASE j # k
  BY <1>1, <1>2
<1>3. CASE j = k
  <2>1. queues[k] \in Queued
    BY BaseTypes
  <2>2. /\ EndsAfter(Tail(queues[k])) /\ (NoEnds(Tail(queues[k])) \/ NoMore(k))
        /\ OnlyEnds(queues[k]) => OnlyEnds(Tail(queues[k]))
        /\ Head(queues[k]) = EndMarker => OnlyEnds(queues[k]) /\ NoMore(k)
    BY <1>1, <1>3, <2>1, TailOne
  <2> QED BY <1>1, <1>3, <2>2
<1> QED BY <1>2, <1>3

LEMMA OrderKept ==
  ASSUME EndsLast, UNCHANGED queues,
         \A j \in StageNumbers : NoMore(j) => NoMore(j)',
         \A j \in StageNumbers : EndedOf(j)' = EndedOf(j)
  PROVE  EndsLast'
BY DEF EndsLast, EndsAfter, NoEnds, OnlyEnds

------------------------------------------------------------------------------
(* The steps while nothing has raised                                       *)

LEMMA ProduceLive ==
  ASSUME PipelineBase, PipelineLive, NEW x \in source, Produce(x)
  PROVE  PipelineLive'
<1>1. /\ source' = source \ {x} /\ queues' = [queues EXCEPT ![1] = Append(queues[1], x)] /\ HasRoom(1)
      /\ UNCHANGED <<pipeline, endsLeft, worker, putLeft, finished, results, noResult>>
  BY DEF Produce
<1>2. x \in PipelineItems /\ 1 \in StageNumbers /\ x # EndMarker
  BY BaseTypes, Staff, MarkersApart
<1>3. queues'[1] = Append(queues[1], x) /\ \A j \in StageNumbers : j # 1 => queues'[j] = queues[j]
  BY <1>1, <1>2, QueuePut
<1>4. queues[1] \in Queued
  BY <1>2, BaseTypes
<1>5. (\A j \in StageNumbers : NoMore(j) => NoMore(j)') /\ \A j \in StageNumbers : EndedOf(j)' = EndedOf(j)
  <2>1. source' \subseteq source /\ \A w \in PipelineWorkers : worker'[w] = worker[w]
    BY <1>1
  <2> QED BY <2>1, NoMoreStays, EndedKept
<1>6. ~NoMore(1)
  BY DEF NoMore
<1>7. EndsLast'
  BY <1>2, <1>3, <1>5, <1>6, PutKeepsOrder DEF PipelineLive
<1> DEFINE a == <<"source", <<0, 0>>>>
           b == <<"queue", <<1, 0>>>>
<1>8. a \in Containers /\ b \in Containers /\ a # b /\ x \in ContentOf(a)
  BY <1>2, ContainerIs, ContentIs
<1>9. x \notin ItemsIn(queues[1])
  <2>1. x \notin ContentOf(b)
    BY <1>2, <1>8, OnlyPlace DEF PipelineLive
  <2> QED BY <1>2, <2>1, ContentIs
<1>10. ItemsIn(queues'[1]) = ItemsIn(queues[1]) \cup {x}
  <2>1. ItemsIn(Append(queues[1], x)) = ItemsIn(queues[1]) \cup ({x} \cap PipelineItems)
    BY <1>2, <1>4, AppendOne
  <2> QED BY <1>2, <1>3, <2>1
<1>11. EachOnce'
  <2>1. \A c \in Containers : c # a /\ c # b => ContentOf(c)' = ContentOf(c)
    <3>1. \A k \in StageNumbers : <<"queue", <<k, 0>>>> \notin {a, b} => ItemsIn(queues'[k]) = ItemsIn(queues[k])
      BY <1>3
    <3> QED BY <1>1, <3>1, PlacesKept
  <2>2. ContentOf(a)' = ContentOf(a) \ {x} /\ ContentOf(b)' = ContentOf(b) \cup {x}
    BY <1>1, <1>2, <1>10, ContentIs, ContentIsThen
  <2> QED BY <1>2, <1>8, <2>1, <2>2, ItemMoves DEF PipelineLive
<1>12. NoneTwice'
  <2>1. NoRepeat(queues'[1])
    BY <1>2, <1>3, <1>4, <1>9, AppendOne DEF PipelineLive, NoneTwice
  <2>2. \A k \in StageNumbers : NoRepeat(queues'[k])
    BY <1>3, <2>1 DEF PipelineLive, NoneTwice
  <2> QED BY <1>1, <2>2 DEF PipelineLive, NoneTwice, NoRepeat
<1>13. EndsCounted' /\ AllReturned'
  BY <1>1, <1>5 DEF PipelineLive, EndsCounted, AllReturned
<1>14. PutsInTurn'
  <2>1. \A w \in PipelineWorkers : putLeft[w] # <<>> => w[1] + 1 \in StageNumbers
    BY Staff DEF PipelineBase, PutsBefore
  <2> QED BY <1>1, <1>5, <2>1 DEF PipelineLive, PutsInTurn, OnlyEnds
<1> QED BY <1>7, <1>11, <1>12, <1>13, <1>14 DEF PipelineLive

LEMMA ProduceEndLive ==
  ASSUME PipelineBase, PipelineLive, ProduceEnd
  PROVE  PipelineLive'
<1>1. /\ source = {} /\ queues' = [queues EXCEPT ![1] = Append(queues[1], EndMarker)] /\ HasRoom(1)
      /\ UNCHANGED <<pipeline, source, worker, putLeft, finished, results, noResult>>
  BY DEF ProduceEnd
<1>2. 1 \in StageNumbers /\ queues[1] \in Queued
  BY BaseTypes, Staff
<1>3. queues'[1] = Append(queues[1], EndMarker) /\ \A j \in StageNumbers : j # 1 => queues'[j] = queues[j]
  BY <1>1, <1>2, QueuePut
<1>4. (\A j \in StageNumbers : NoMore(j) => NoMore(j)') /\ \A j \in StageNumbers : EndedOf(j)' = EndedOf(j)
  <2>1. source' \subseteq source /\ \A w \in PipelineWorkers : worker'[w] = worker[w]
    BY <1>1
  <2> QED BY <2>1, NoMoreStays, EndedKept
<1>5. NoMore(1)'
  BY <1>1 DEF NoMore
<1>6. EndsLast'
  BY <1>2, <1>3, <1>4, <1>5, PutKeepsOrder DEF PipelineLive
<1>7. ItemsIn(queues'[1]) = ItemsIn(queues[1]) /\ NoRepeat(queues'[1])
  <2>1. EndMarker \notin PipelineItems /\ EndMarker \notin ItemsIn(queues[1])
    BY MarkersApart DEF ItemsIn
  <2>2. /\ ItemsIn(Append(queues[1], EndMarker)) = ItemsIn(queues[1]) \cup ({EndMarker} \cap PipelineItems)
        /\ NoRepeat(Append(queues[1], EndMarker))
    BY <1>2, <2>1, AppendOne DEF PipelineLive, NoneTwice
  <2> QED BY <1>3, <2>1, <2>2
<1>8. EachOnce'
  <2>1. \A k \in StageNumbers : ItemsIn(queues'[k]) = ItemsIn(queues[k])
    BY <1>3, <1>7
  <2> QED BY <1>1, <2>1, NothingMoves DEF PipelineLive
<1>9. NoneTwice'
  <2>1. \A k \in StageNumbers : NoRepeat(queues'[k])
    BY <1>3, <1>7 DEF PipelineLive, NoneTwice
  <2> QED BY <1>1, <2>1 DEF PipelineLive, NoneTwice, NoRepeat
<1>10. EndsCounted' /\ AllReturned'
  BY <1>1, <1>4 DEF PipelineLive, EndsCounted, AllReturned
<1>11. PutsInTurn'
  <2>1. \A w \in PipelineWorkers : putLeft[w] # <<>> => w[1] + 1 \in StageNumbers
    BY Staff DEF PipelineBase, PutsBefore
  <2> QED BY <1>1, <1>4, <2>1 DEF PipelineLive, PutsInTurn, OnlyEnds
<1> QED BY <1>6, <1>8, <1>9, <1>10, <1>11 DEF PipelineLive

(* Only what one worker puts has changed.                                   *)
LEMMA PutsKept ==
  ASSUME PipelineBase, PutsInTurn, NEW w \in PipelineWorkers,
         \A v \in PipelineWorkers : v # w => worker'[v] = worker[v] /\ putLeft'[v] = putLeft[v],
         \A j \in StageNumbers : NoMore(j) => NoMore(j)',
         putLeft'[w] # <<>> => worker'[w] \in {"get", "ending"},
         worker'[w] = "get" => putLeft'[w] = <<>> \/ \E x \in PipelineItems : putLeft'[w] = <<x>>,
         worker'[w] = "ending" => OnlyEnds(putLeft'[w]),
         worker'[w] = "ending" /\ putLeft'[w] # <<>> => NoMore(w[1] + 1)'
  PROVE  PutsInTurn'
<1> SUFFICES ASSUME NEW v \in PipelineWorkers
             PROVE  /\ putLeft'[v] # <<>> => worker'[v] \in {"get", "ending"}
                    /\ worker'[v] = "get" => putLeft'[v] = <<>> \/ \E x \in PipelineItems : putLeft'[v] = <<x>>
                    /\ worker'[v] = "ending" => OnlyEnds(putLeft'[v])
                    /\ worker'[v] = "ending" /\ putLeft'[v] # <<>> => NoMore(v[1] + 1)'
  BY DEF PutsInTurn, OnlyEnds
<1>1. CASE v = w
  BY <1>1
<1>2. CASE v # w
  <2>1. putLeft[v] # <<>> => v[1] + 1 \in StageNumbers
    BY Staff DEF PipelineBase, PutsBefore
  <2> QED BY <1>2, <2>1 DEF PutsInTurn
<1> QED BY <1>1, <1>2

LEMMA GetItemLive ==
  ASSUME PipelineBase, PipelineLive, NEW w \in PipelineWorkers, putLeft[w] = <<>>, GetItem(w)
  PROVE  PipelineLive'
<1> DEFINE k == w[1]
           x == Head(queues[k])
<1>1. /\ worker[w] = "get" /\ queues[k] # <<>> /\ x # EndMarker
      /\ worker' = [worker EXCEPT ![w] = x] /\ queues' = [queues EXCEPT ![k] = Tail(queues[k])]
      /\ UNCHANGED <<pipeline, source, endsLeft, putLeft, finished, results, noResult>>
  BY DEF GetItem
<1>2. k \in StageNumbers /\ queues[k] \in Queued /\ DOMAIN worker = PipelineWorkers
  BY BaseTypes, Staff
<1>3. queues'[k] = Tail(queues[k]) /\ \A j \in StageNumbers : j # k => queues'[j] = queues[j]
  BY <1>1, <1>2, QueueGet
<1>4. x \in PipelineItems /\ x \notin Ended /\ x # "raised" /\ x # "get"
  <2>1. x \in PipelineItems \cup {EndMarker}
    BY <1>1, <1>2, TailOne
  <2> QED BY <1>1, <2>1, MarkersApart DEF Ended
<1>5. worker'[w] = x /\ \A v \in PipelineWorkers : v # w => worker'[v] = worker[v]
  BY <1>1, <1>2
<1>6. (\A j \in StageNumbers : NoMore(j) => NoMore(j)') /\ \A j \in StageNumbers : EndedOf(j)' = EndedOf(j)
  <2>1. \A v \in PipelineWorkers : worker'[v] \in Ended <=> worker[v] \in Ended
    BY <1>1, <1>4, <1>5 DEF Ended
  <2> QED BY <1>1, <2>1, NoMoreStays, EndedKept
<1>7. EndsLast'
  BY <1>1, <1>2, <1>3, <1>6, GetKeepsOrder DEF PipelineLive
<1> DEFINE a == <<"queue", <<k, 0>>>>
           b == <<"worker", w>>
<1>8. /\ ItemsIn(queues[k]) = ItemsIn(queues'[k]) \cup {x} /\ x \notin ItemsIn(queues'[k])
      /\ NoRepeat(queues'[k])
  <2>1. /\ ItemsIn(queues[k]) = ItemsIn(Tail(queues[k])) \cup ({x} \cap PipelineItems)
        /\ x \notin ItemsIn(Tail(queues[k])) /\ NoRepeat(Tail(queues[k]))
    BY <1>1, <1>2, TailOne DEF PipelineLive, NoneTwice
  <2> QED BY <1>3, <1>4, <2>1
<1>9. a \in Containers /\ b \in Containers /\ a # b /\ x \in ContentOf(a)
  BY <1>2, <1>8, ContainerIs, ContentIs
<1>10. EachOnce'
  <2>1. \A c \in Containers : c # a /\ c # b => ContentOf(c)' = ContentOf(c)
    <3>1. \A j \in StageNumbers : <<"queue", <<j, 0>>>> \notin {a, b} => ItemsIn(queues'[j]) = ItemsIn(queues[j])
      BY <1>3
    <3>2. \A v \in PipelineWorkers :
            /\ <<"worker", v>> \notin {a, b} => {worker'[v]} \cap PipelineItems = {worker[v]} \cap PipelineItems
            /\ <<"put", v>> \notin {a, b} => ItemsIn(putLeft'[v]) = ItemsIn(putLeft[v])
      BY <1>1, <1>5
    <3> QED BY <1>1, <3>1, <3>2, PlacesKept
  <2>2. ContentOf(a)' = ContentOf(a) \ {x}
    BY <1>2, <1>8, ContentIs, ContentIsThen
  <2>3. ContentOf(b)' = ContentOf(b) \cup {x}
    <3>1. "get" \notin PipelineItems
      BY MarkersApart
    <3>2. {worker[w]} \cap PipelineItems = {} /\ {worker'[w]} \cap PipelineItems = {x}
      BY <1>1, <1>4, <1>5, <3>1
    <3>3. ContentOf(b) = {worker[w]} \cap PipelineItems /\ ContentOf(b)' = {worker'[w]} \cap PipelineItems
      BY ContentIs, ContentIsThen
    <3> QED BY <3>2, <3>3
  <2> QED BY <1>4, <1>9, <2>1, <2>2, <2>3, ItemMoves DEF PipelineLive
<1>11. NoneTwice'
  <2>1. \A j \in StageNumbers : NoRepeat(queues'[j])
    BY <1>3, <1>8 DEF PipelineLive, NoneTwice
  <2> QED BY <1>1, <2>1 DEF PipelineLive, NoneTwice, NoRepeat
<1>12. EndsCounted' /\ AllReturned'
  <2>1. pipeline # "returned"
    BY DEF GetItem, Started
  <2> QED BY <1>1, <1>4, <1>5, <1>6, <2>1 DEF PipelineLive, EndsCounted, AllReturned
<1>13. PutsInTurn'
  <2>1. putLeft'[w] = <<>> /\ OnlyEnds(<<>>) /\ \A v \in PipelineWorkers : v # w => putLeft'[v] = putLeft[v]
    BY <1>1, ShortOnes
  <2> QED BY <1>4, <1>5, <1>6, <2>1, PutsKept DEF PipelineLive
<1> QED BY <1>7, <1>10, <1>11, <1>12, <1>13 DEF PipelineLive

LEMMA HandleLive ==
  ASSUME PipelineBase, PipelineLive, NEW w \in PipelineWorkers, NEW keeps \in BOOLEAN, Handle(w, keeps)
  PROVE  PipelineLive'
<1> DEFINE x == worker[w]
           a == <<"worker", w>>
<1>1. /\ x \in PipelineItems /\ worker' = [worker EXCEPT ![w] = "get"]
      /\ noResult' = (IF keeps THEN noResult ELSE noResult \cup {x})
      /\ UNCHANGED <<pipeline, source, endsLeft, queues, finished>>
      /\ pipeline # "returned"
  BY DEF Handle, Started
<1>2. /\ x \notin {"get", "ending", "returned", "raised"} /\ "get" \notin PipelineItems
      /\ DOMAIN worker = PipelineWorkers /\ putLeft \in [PipelineWorkers -> Queued]
  BY <1>1, MarkersApart, BaseTypes
<1>3. worker'[w] = "get" /\ \A v \in PipelineWorkers : v # w => worker'[v] = worker[v]
  BY <1>1, <1>2
<1>4. (\A j \in StageNumbers : NoMore(j) => NoMore(j)') /\ \A j \in StageNumbers : EndedOf(j)' = EndedOf(j)
  <2>1. \A v \in PipelineWorkers : worker'[v] \in Ended <=> worker[v] \in Ended
    BY <1>2, <1>3 DEF Ended
  <2> QED BY <1>1, <2>1, NoMoreStays, EndedKept
<1>5. EndsLast'
  BY <1>1, <1>4, OrderKept DEF PipelineLive
<1>6. putLeft[w] = <<>>
  BY <1>2 DEF PipelineLive, PutsInTurn
<1>7. a \in Containers /\ ContentOf(a) = {x} /\ ContentOf(a)' = {}
  <2>1. {worker[w]} \cap PipelineItems = {x} /\ {worker'[w]} \cap PipelineItems = {}
    BY <1>1, <1>2, <1>3
  <2>2. ContentOf(a) = {worker[w]} \cap PipelineItems /\ ContentOf(a)' = {worker'[w]} \cap PipelineItems
    BY ContentIs, ContentIsThen
  <2>3. a \in Containers
    BY ContainerIs
  <2> QED BY <2>1, <2>2, <2>3
<1>8. EndsCounted' /\ AllReturned'
  BY <1>1, <1>3, <1>4 DEF PipelineLive, EndsCounted, AllReturned
<1>9. \A v \in PipelineWorkers : v # w => {worker'[v]} \cap PipelineItems = {worker[v]} \cap PipelineItems
  BY <1>3
<1>10. CASE ~keeps
  <2> DEFINE b == <<"none", <<0, 0>>>>
  <2>1. results' = results /\ noResult' = noResult \cup {x} /\ putLeft' = putLeft
    <3>1. CASE w[1] = FinalStage
      BY <1>1, <1>10, <3>1 DEF Handle
    <3>2. CASE w[1] # FinalStage
      <4>1. results' = results /\ putLeft' = [putLeft EXCEPT ![w] = <<>>]
        BY <1>10, <3>2 DEF Handle
      <4>2. [putLeft EXCEPT ![w] = <<>>] = putLeft
        BY <1>2, <1>6
      <4> QED BY <1>1, <1>10, <4>1, <4>2
    <3> QED BY <3>1, <3>2
  <2>2. b \in Containers /\ a # b /\ ContentOf(b)' = ContentOf(b) \cup {x}
    BY <2>1, ContainerIs, ContentIs, ContentIsThen
  <2>3. \A c \in Containers : c # a /\ c # b => ContentOf(c)' = ContentOf(c)
    BY <1>1, <1>9, <2>1, PlacesKept
  <2>4. EachOnce'
    <3>1. x \in ContentOf(a) /\ ContentOf(a)' = ContentOf(a) \ {x}
      BY <1>7
    <3> QED BY <1>1, <1>7, <2>2, <2>3, <3>1, ItemMoves DEF PipelineLive
  <2>5. NoneTwice'
    BY <1>1, <2>1 DEF PipelineLive, NoneTwice, NoRepeat
  <2>6. PutsInTurn'
    <3>1. putLeft'[w] = <<>> /\ \A v \in PipelineWorkers : v # w => putLeft'[v] = putLeft[v]
      BY <1>6, <2>1
    <3> QED BY <1>3, <1>4, <3>1, PutsKept DEF PipelineLive
  <2> QED BY <1>5, <1>8, <2>4, <2>5, <2>6 DEF PipelineLive
<1>11. CASE keeps /\ w[1] = FinalStage
  <2> DEFINE b == <<"results", <<0, 0>>>>
  <2>1. results' = Append(results, x) /\ noResult' = noResult /\ putLeft' = putLeft
    BY <1>1, <1>11 DEF Handle
  <2>2. results \in Queued
    <3>1. results \in Seq(PipelineItems)
      BY BaseTypes
    <3> QED BY <3>1, SeqMonotonic DEF Queued
  <2>3. b \in Containers /\ a # b
    BY ContainerIs
  <2>4. x \notin ItemsIn(results)
    <3>1. x \notin ContentOf(b)
      BY <1>1, <1>7, <2>3, OnlyPlace DEF PipelineLive
    <3> QED BY <3>1, ContentIs
  <2>5. ItemsIn(results') = ItemsIn(results) \cup {x} /\ NoRepeat(results')
    <3>1. /\ ItemsIn(Append(results, x)) = ItemsIn(results) \cup ({x} \cap PipelineItems)
          /\ NoRepeat(Append(results, x))
      BY <1>1, <2>2, <2>4, AppendOne DEF PipelineLive, NoneTwice
    <3> QED BY <1>1, <2>1, <3>1
  <2>6. \A c \in Containers : c # a /\ c # b => ContentOf(c)' = ContentOf(c)
    BY <1>1, <1>9, <2>1, PlacesKept
  <2>7. EachOnce'
    <3>1. x \in ContentOf(a) /\ ContentOf(a)' = ContentOf(a) \ {x} /\ ContentOf(b)' = ContentOf(b) \cup {x}
      BY <1>7, <2>5, ContentIs, ContentIsThen
    <3> QED BY <1>1, <1>7, <2>3, <2>6, <3>1, ItemMoves DEF PipelineLive
  <2>8. NoneTwice'
    BY <1>1, <2>5 DEF PipelineLive, NoneTwice, NoRepeat
  <2>9. PutsInTurn'
    <3>1. putLeft'[w] = <<>> /\ \A v \in PipelineWorkers : v # w => putLeft'[v] = putLeft[v]
      BY <1>6, <2>1
    <3> QED BY <1>3, <1>4, <3>1, PutsKept DEF PipelineLive
  <2> QED BY <1>5, <1>8, <2>7, <2>8, <2>9 DEF PipelineLive
<1>12. CASE keeps /\ w[1] # FinalStage
  <2> DEFINE b == <<"put", w>>
  <2>1. results' = results /\ noResult' = noResult /\ putLeft' = [putLeft EXCEPT ![w] = <<x>>]
    BY <1>1, <1>12 DEF Handle
  <2>2. putLeft'[w] = <<x>> /\ \A v \in PipelineWorkers : v # w => putLeft'[v] = putLeft[v]
    BY <1>2, <2>1
  <2>3. b \in Containers /\ a # b /\ ContentOf(b) = {} /\ ContentOf(b)' = {x}
    BY <1>1, <1>6, <2>2, ContainerIs, ContentIs, ContentIsThen, ShortOnes
  <2>4. \A c \in Containers : c # a /\ c # b => ContentOf(c)' = ContentOf(c)
    <3>1. \A v \in PipelineWorkers : <<"put", v>> \notin {a, b} => ItemsIn(putLeft'[v]) = ItemsIn(putLeft[v])
      BY <2>2
    <3> QED BY <1>1, <1>9, <2>1, <3>1, PlacesKept
  <2>5. EachOnce'
    <3>1. x \in ContentOf(a) /\ ContentOf(a)' = ContentOf(a) \ {x} /\ ContentOf(b)' = ContentOf(b) \cup {x}
      BY <1>7, <2>3
    <3> QED BY <1>1, <1>7, <2>3, <2>4, <3>1, ItemMoves DEF PipelineLive
  <2>6. NoneTwice'
    BY <1>1, <2>1 DEF PipelineLive, NoneTwice, NoRepeat
  <2>7. PutsInTurn'
    BY <1>1, <1>3, <1>4, <2>2, PutsKept DEF PipelineLive
  <2> QED BY <1>5, <1>8, <2>5, <2>6, <2>7 DEF PipelineLive
<1> QED BY <1>10, <1>11, <1>12

LEMMA GetEndLive ==
  ASSUME PipelineBase, PipelineLive, NEW w \in PipelineWorkers, putLeft[w] = <<>>, GetEnd(w)
  PROVE  PipelineLive'
<1> DEFINE k == w[1]
           n == w[2]
           put == IF LastOfStage(k) /\ k < FinalStage THEN EndsOf(k + 1) ELSE <<>>
<1>1. /\ worker[w] = "get" /\ queues[k] # <<>> /\ Head(queues[k]) = EndMarker
      /\ worker' = [worker EXCEPT ![w] = "ending"] /\ queues' = [queues EXCEPT ![k] = Tail(queues[k])]
      /\ putLeft' = [putLeft EXCEPT ![w] = put] /\ finished' = [finished EXCEPT ![k] = finished[k] + 1]
      /\ UNCHANGED <<pipeline, source, endsLeft, results, noResult>> /\ pipeline # "returned"
  BY DEF GetEnd, Started
<1>2. /\ k \in StageNumbers /\ n \in 1 .. StageWorkers[k] /\ w = <<k, n>> /\ queues[k] \in Queued
      /\ DOMAIN worker = PipelineWorkers /\ finished \in [StageNumbers -> Nat]
      /\ putLeft \in [PipelineWorkers -> Queued] /\ StageWorkers[k] \in Nat
  BY BaseTypes, Staff
<1>3. queues'[k] = Tail(queues[k]) /\ \A j \in StageNumbers : j # k => queues'[j] = queues[j]
  BY <1>1, <1>2, QueueGet
<1>4. /\ worker'[w] = "ending" /\ \A v \in PipelineWorkers : v # w => worker'[v] = worker[v]
      /\ putLeft'[w] = put /\ \A v \in PipelineWorkers : v # w => putLeft'[v] = putLeft[v]
  BY <1>1, <1>2
<1>5. \A j \in StageNumbers : NoMore(j) => NoMore(j)'
  <2>1. \A v \in PipelineWorkers : worker[v] \in Ended => worker'[v] \in Ended
    BY <1>1, <1>4 DEF Ended
  <2> QED BY <1>1, <2>1, NoMoreStays
<1>6. /\ n \notin EndedOf(k) /\ EndedOf(k)' = EndedOf(k) \cup {n}
      /\ \A j \in StageNumbers : j # k => EndedOf(j)' = EndedOf(j)
  <2>1. n \notin EndedOf(k)
    BY <1>1, <1>2 DEF EndedOf, Ended
  <2>2. \A m \in 1 .. StageWorkers[k] : <<k, m>> \in PipelineWorkers /\ (<<k, m>> = w <=> m = n)
    BY <1>2, Staff
  <2>3. EndedOf(k)' = EndedOf(k) \cup {n}
    BY <1>2, <1>4, <2>2 DEF EndedOf, Ended
  <2>4. \A j \in StageNumbers : j # k => \A m \in 1 .. StageWorkers[j] : <<j, m>> \in PipelineWorkers /\ <<j, m>> # w
    BY <1>2, Staff
  <2>5. \A j \in StageNumbers : j # k => EndedOf(j)' = EndedOf(j)
    BY <1>4, <2>4 DEF EndedOf
  <2> QED BY <2>1, <2>3, <2>5
<1>7. EndsLast'
  BY <1>1, <1>2, <1>3, <1>5, <1>6, GetKeepsOrder DEF PipelineLive
<1>8. /\ finished[k] = Cardinality(EndedOf(k)) /\ Cardinality(EndedOf(k)') = finished[k] + 1
      /\ IsFiniteSet(1 .. StageWorkers[k]) /\ Cardinality(1 .. StageWorkers[k]) = StageWorkers[k]
      /\ EndedOf(k)' \subseteq 1 .. StageWorkers[k]
  <2>1. EndedOf(k) \subseteq 1 .. StageWorkers[k] /\ EndedOf(k)' \subseteq 1 .. StageWorkers[k]
    BY DEF EndedOf
  <2>2. IsFiniteSet(1 .. StageWorkers[k]) /\ Cardinality(1 .. StageWorkers[k]) = StageWorkers[k]
    <3> DEFINE m == StageWorkers[k]
    <3>1. m \in Nat /\ 1 \in Int /\ m \in Int
      BY <1>2
    <3> HIDE DEF m
    <3>2. IsFiniteSet(1 .. m) /\ Cardinality(1 .. m) = IF 1 > m THEN 0 ELSE m - 1 + 1
      BY <3>1, FS_Interval
    <3>3. Cardinality(1 .. m) = m
      BY <3>1, <3>2
    <3> QED BY <3>2, <3>3 DEF m
  <2>3. IsFiniteSet(EndedOf(k))
    BY <2>1, <2>2, FS_Subset
  <2>4. Cardinality(EndedOf(k) \cup {n}) =
          IF n \in EndedOf(k) THEN Cardinality(EndedOf(k)) ELSE Cardinality(EndedOf(k)) + 1
    BY <2>3, FS_AddElement, Zenon
  <2>5. finished[k] = Cardinality(EndedOf(k))
    BY <1>2 DEF PipelineLive, EndsCounted
  <2> QED BY <1>6, <2>1, <2>2, <2>4, <2>5
<1>9. EndsCounted'
  <2>1. \A v \in PipelineWorkers : worker'[v] # "raised"
    BY <1>4 DEF PipelineLive, EndsCounted
  <2>2. finished'[k] = Cardinality(EndedOf(k)')
    BY <1>1, <1>2, <1>8
  <2>3. \A j \in StageNumbers : j # k => finished'[j] = Cardinality(EndedOf(j)')
    BY <1>1, <1>2, <1>6 DEF PipelineLive, EndsCounted
  <2>4. \A j \in StageNumbers : finished'[j] = Cardinality(EndedOf(j)')
    BY <2>2, <2>3
  <2> QED BY <2>1, <2>4 DEF EndsCounted
<1>10. put # <<>> => NoMore(k + 1)'
  <2> SUFFICES ASSUME put # <<>> PROVE NoMore(k + 1)'
    OBVIOUS
  <2>1. finished[k] + 1 = StageWorkers[k]
    BY DEF LastOfStage
  <2>2. EndedOf(k)' = 1 .. StageWorkers[k]
    <3> DEFINE all == 1 .. StageWorkers[k]
               now == EndedOf(k)'
    <3>1. now \subseteq all /\ IsFiniteSet(all) /\ Cardinality(now) = Cardinality(all)
      BY <1>8, <2>1
    <3> HIDE DEF all, now
    <3>2. now = all
      BY <3>1, FS_Subset
    <3> QED BY <3>2 DEF all, now
  <2>3. k + 1 # 1 /\ (k + 1) - 1 = k
    <3>1. k \in Nat \ {0}
      BY <1>2, Staff
    <3> QED BY <3>1
  <2> QED BY <2>2, <2>3 DEF NoMore, EndedOf
<1>11. put \in Queued /\ OnlyEnds(put) /\ ItemsIn(put) = {}
  <2>1. k < FinalStage => k + 1 \in StageNumbers
    BY <1>2, Staff
  <2>2. put \in Queued /\ OnlyEnds(put)
    BY <2>1, ShortOnes
  <2> QED BY <2>2, ShortOnes
<1>12. PutsInTurn'
  BY <1>4, <1>5, <1>10, <1>11, PutsKept DEF PipelineLive
<1>13. ItemsIn(queues'[k]) = ItemsIn(queues[k]) /\ NoRepeat(queues'[k])
  <2>1. /\ ItemsIn(queues[k]) = ItemsIn(Tail(queues[k])) \cup ({Head(queues[k])} \cap PipelineItems)
        /\ NoRepeat(Tail(queues[k]))
    BY <1>1, <1>2, TailOne DEF PipelineLive, NoneTwice
  <2> QED BY <1>1, <1>3, <2>1, MarkersApart
<1>14. EachOnce'
  <2>1. \A j \in StageNumbers : ItemsIn(queues'[j]) = ItemsIn(queues[j])
    BY <1>3, <1>13
  <2>2. \A v \in PipelineWorkers : {worker'[v]} \cap PipelineItems = {worker[v]} \cap PipelineItems
    <3>1. {"get"} \cap PipelineItems = {} /\ {"ending"} \cap PipelineItems = {}
      BY MarkersApart
    <3> QED BY <1>1, <1>4, <3>1
  <2>3. \A v \in PipelineWorkers : ItemsIn(putLeft'[v]) = ItemsIn(putLeft[v])
    BY <1>4, <1>11, ShortOnes
  <2> QED BY <1>1, <2>1, <2>2, <2>3, NothingMoves DEF PipelineLive
<1>15. NoneTwice'
  <2>1. \A j \in StageNumbers : NoRepeat(queues'[j])
    BY <1>3, <1>13 DEF PipelineLive, NoneTwice
  <2> QED BY <1>1, <2>1 DEF PipelineLive, NoneTwice, NoRepeat
<1>16. AllReturned'
  BY <1>1 DEF AllReturned
<1> QED BY <1>7, <1>9, <1>12, <1>14, <1>15, <1>16 DEF PipelineLive

LEMMA PutNextLive ==
  ASSUME PipelineBase, PipelineLive, NEW w \in PipelineWorkers, PutNext(w)
  PROVE  PipelineLive'
<1> DEFINE k == w[1] + 1
           e == Head(putLeft[w])
<1>1. /\ putLeft[w] # <<>> /\ HasRoom(k) /\ queues' = [queues EXCEPT ![k] = Append(queues[k], e)]
      /\ putLeft' = [putLeft EXCEPT ![w] = Tail(putLeft[w])]
      /\ UNCHANGED <<pipeline, source, endsLeft, worker, finished, results, noResult>>
  BY DEF PutNext
<1>2. /\ k \in StageNumbers /\ e \in PipelineItems \cup {EndMarker} /\ queues[k] \in Queued
      /\ putLeft \in [PipelineWorkers -> Queued]
  BY PutBase, BaseTypes
<1>3. queues'[k] = Append(queues[k], e) /\ \A j \in StageNumbers : j # k => queues'[j] = queues[j]
  BY <1>1, <1>2, QueuePut
<1>4. putLeft'[w] = Tail(putLeft[w]) /\ \A v \in PipelineWorkers : v # w => putLeft'[v] = putLeft[v]
  BY <1>1, <1>2
<1>5. (\A j \in StageNumbers : NoMore(j) => NoMore(j)') /\ \A j \in StageNumbers : EndedOf(j)' = EndedOf(j)
  <2>1. source' \subseteq source /\ \A v \in PipelineWorkers : worker'[v] = worker[v]
    BY <1>1
  <2> QED BY <2>1, NoMoreStays, EndedKept
<1>6. EndsCounted' /\ AllReturned'
  BY <1>1, <1>5 DEF PipelineLive, EndsCounted, AllReturned
<1>7. \/ worker[w] = "get" /\ \E x \in PipelineItems : putLeft[w] = <<x>>
      \/ worker[w] = "ending" /\ OnlyEnds(putLeft[w]) /\ NoMore(k)
  BY <1>1 DEF PipelineLive, PutsInTurn
<1>8. CASE worker[w] = "get" /\ \E x \in PipelineItems : putLeft[w] = <<x>>
  <2> DEFINE a == <<"put", w>>
             b == <<"queue", <<k, 0>>>>
  <2>1. e \in PipelineItems /\ e # EndMarker /\ putLeft'[w] = <<>> /\ ItemsIn(putLeft[w]) = {e}
    BY <1>4, <1>8, ShortOnes, MarkersApart
  <2>2. ~NoMore(k)
    BY <1>2, <1>8, StageGoesOn DEF Ended
  <2>3. EndsLast'
    BY <1>2, <1>3, <1>5, <2>1, <2>2, PutKeepsOrder DEF PipelineLive
  <2>4. PutsInTurn'
    <3>1. OnlyEnds(<<>>) /\ worker'[w] = worker[w] /\ \A v \in PipelineWorkers : v # w => worker'[v] = worker[v]
      BY <1>1, ShortOnes
    <3> QED BY <1>4, <1>5, <1>8, <2>1, <3>1, PutsKept DEF PipelineLive
  <2>5. a \in Containers /\ b \in Containers /\ a # b /\ ContentOf(a) = {e} /\ ContentOf(a)' = {}
    BY <1>2, <2>1, ContainerIs, ContentIs, ContentIsThen, ShortOnes
  <2>6. e \notin ItemsIn(queues[k])
    <3>1. e \in ContentOf(a)
      BY <2>5
    <3>2. e \notin ContentOf(b)
      BY <2>1, <2>5, <3>1, OnlyPlace DEF PipelineLive
    <3> QED BY <1>2, <3>2, ContentIs
  <2>7. ItemsIn(queues'[k]) = ItemsIn(queues[k]) \cup {e} /\ NoRepeat(queues'[k])
    <3>1. /\ ItemsIn(Append(queues[k], e)) = ItemsIn(queues[k]) \cup ({e} \cap PipelineItems)
          /\ NoRepeat(Append(queues[k], e))
      BY <1>2, <2>6, AppendOne DEF PipelineLive, NoneTwice
    <3> QED BY <1>3, <2>1, <3>1
  <2>8. EachOnce'
    <3>1. \A c \in Containers : c # a /\ c # b => ContentOf(c)' = ContentOf(c)
      <4>1. \A j \in StageNumbers : <<"queue", <<j, 0>>>> \notin {a, b} => ItemsIn(queues'[j]) = ItemsIn(queues[j])
        BY <1>3
      <4>2. \A v \in PipelineWorkers : <<"put", v>> \notin {a, b} => ItemsIn(putLeft'[v]) = ItemsIn(putLeft[v])
        BY <1>4
      <4> QED BY <1>1, <4>1, <4>2, PlacesKept
    <3>2. ContentOf(b)' = ContentOf(b) \cup {e}
      BY <1>2, <2>7, ContentIs, ContentIsThen
    <3>3. e \in ContentOf(a) /\ ContentOf(a)' = ContentOf(a) \ {e}
      BY <2>5
    <3> QED BY <2>1, <2>5, <3>1, <3>2, <3>3, ItemMoves DEF PipelineLive
  <2>9. NoneTwice'
    <3>1. \A j \in StageNumbers : NoRepeat(queues'[j])
      BY <1>3, <2>7 DEF PipelineLive, NoneTwice
    <3> QED BY <1>1, <3>1 DEF PipelineLive, NoneTwice, NoRepeat
  <2> QED BY <1>6, <2>3, <2>4, <2>8, <2>9 DEF PipelineLive
<1>9. CASE worker[w] = "ending" /\ OnlyEnds(putLeft[w]) /\ NoMore(k)
  <2>1. /\ e = EndMarker /\ OnlyEnds(putLeft'[w]) /\ putLeft[w] \in Queued /\ putLeft'[w] \in Queued
    BY <1>1, <1>2, <1>4, <1>9, TailOne
  <2>2. EndsLast'
    BY <1>2, <1>3, <1>5, <1>9, <2>1, PutKeepsOrder DEF PipelineLive
  <2>3. PutsInTurn'
    <3>1. NoMore(k)' /\ worker'[w] = worker[w] /\ \A v \in PipelineWorkers : v # w => worker'[v] = worker[v]
      BY <1>1, <1>2, <1>5, <1>9
    <3> QED BY <1>4, <1>5, <1>9, <2>1, <3>1, PutsKept DEF PipelineLive
  <2>4. ItemsIn(queues'[k]) = ItemsIn(queues[k]) /\ NoRepeat(queues'[k])
    <3>1. e \notin PipelineItems /\ e \notin ItemsIn(queues[k])
      BY <2>1, MarkersApart DEF ItemsIn
    <3>2. /\ ItemsIn(Append(queues[k], e)) = ItemsIn(queues[k]) \cup ({e} \cap PipelineItems)
          /\ NoRepeat(Append(queues[k], e))
      BY <1>2, <3>1, AppendOne DEF PipelineLive, NoneTwice
    <3> QED BY <1>3, <3>1, <3>2
  <2>5. EachOnce'
    <3>1. \A j \in StageNumbers : ItemsIn(queues'[j]) = ItemsIn(queues[j])
      BY <1>3, <2>4
    <3>2. \A v \in PipelineWorkers : ItemsIn(putLeft'[v]) = ItemsIn(putLeft[v])
      <4>1. ItemsIn(putLeft[w]) = {} /\ ItemsIn(putLeft'[w]) = {}
        BY <1>9, <2>1, ShortOnes
      <4> QED BY <1>4, <4>1
    <3> QED BY <1>1, <3>1, <3>2, NothingMoves DEF PipelineLive
  <2>6. NoneTwice'
    <3>1. \A j \in StageNumbers : NoRepeat(queues'[j])
      BY <1>3, <2>4 DEF PipelineLive, NoneTwice
    <3> QED BY <1>1, <3>1 DEF PipelineLive, NoneTwice, NoRepeat
  <2> QED BY <1>6, <2>2, <2>3, <2>5, <2>6 DEF PipelineLive
<1> QED BY <1>7, <1>8, <1>9

LEMMA ReturnsLive ==
  ASSUME PipelineBase, PipelineLive, NEW w \in PipelineWorkers, WorkerReturns(w)
  PROVE  PipelineLive'
<1>1. /\ worker[w] = "ending" /\ putLeft[w] = <<>> /\ worker' = [worker EXCEPT ![w] = "returned"]
      /\ UNCHANGED <<pipeline, source, endsLeft, queues, putLeft, finished, results, noResult>>
      /\ pipeline # "returned"
  BY DEF WorkerReturns, Started
<1>2. worker'[w] = "returned" /\ \A v \in PipelineWorkers : v # w => worker'[v] = worker[v]
  BY <1>1, BaseTypes
<1>3. (\A j \in StageNumbers : NoMore(j) => NoMore(j)') /\ \A j \in StageNumbers : EndedOf(j)' = EndedOf(j)
  <2>1. \A v \in PipelineWorkers : worker'[v] \in Ended <=> worker[v] \in Ended
    BY <1>1, <1>2 DEF Ended
  <2> QED BY <1>1, <2>1, NoMoreStays, EndedKept
<1>4. EndsLast'
  BY <1>1, <1>3, OrderKept DEF PipelineLive
<1>5. PutsInTurn'
  <2>1. putLeft'[w] = <<>> /\ \A v \in PipelineWorkers : v # w => putLeft'[v] = putLeft[v]
    BY <1>1
  <2> QED BY <1>2, <1>3, <2>1, PutsKept DEF PipelineLive
<1>6. EachOnce'
  <2>1. \A v \in PipelineWorkers : {worker'[v]} \cap PipelineItems = {worker[v]} \cap PipelineItems
    <3>1. {"ending"} \cap PipelineItems = {} /\ {"returned"} \cap PipelineItems = {}
      BY MarkersApart
    <3> QED BY <1>1, <1>2, <3>1
  <2> QED BY <1>1, <2>1, NothingMoves DEF PipelineLive
<1>7. EndsCounted' /\ NoneTwice' /\ AllReturned'
  BY <1>1, <1>2, <1>3 DEF PipelineLive, EndsCounted, NoneTwice, NoRepeat, AllReturned
<1> QED BY <1>4, <1>5, <1>6, <1>7 DEF PipelineLive

LEMMA TasksLive ==
  ASSUME PipelineBase, PipelineLive, StartPipeline \/ Gathered \/ UNCHANGED pipelineVars
  PROVE  PipelineLive'
<1>1. /\ UNCHANGED <<source, queues, worker, putLeft, finished, results, noResult>>
      /\ pipeline' = "returned" => pipeline = "returned" \/ \A w \in PipelineWorkers : worker[w] = "returned"
  BY DEF StartPipeline, Gathered, pipelineVars
<1>2. (\A j \in StageNumbers : NoMore(j) => NoMore(j)') /\ \A j \in StageNumbers : EndedOf(j)' = EndedOf(j)
  <2>1. source' \subseteq source /\ \A v \in PipelineWorkers : worker'[v] = worker[v]
    BY <1>1
  <2> QED BY <2>1, NoMoreStays, EndedKept
<1>3. EndsLast'
  BY <1>1, <1>2, OrderKept DEF PipelineLive
<1>4. EachOnce'
  BY <1>1, NothingMoves DEF PipelineLive
<1>5. PutsInTurn'
  <2>1. \A w \in PipelineWorkers : putLeft[w] # <<>> => w[1] + 1 \in StageNumbers
    BY Staff DEF PipelineBase, PutsBefore
  <2> QED BY <1>1, <1>2, <2>1 DEF PipelineLive, PutsInTurn, OnlyEnds
<1>6. EndsCounted' /\ NoneTwice' /\ AllReturned'
  BY <1>1, <1>2 DEF PipelineLive, EndsCounted, NoneTwice, NoRepeat, AllReturned
<1> QED BY <1>3, <1>4, <1>5, <1>6 DEF PipelineLive

(* Every step keeps the types, and what holds while nothing has raised.     *)
LEMMA PipelineStep == PipelineInv /\ [PipelineNext]_pipelineVars => PipelineInv'
<1> SUFFICES ASSUME PipelineInv, [PipelineNext]_pipelineVars PROVE PipelineInv'
  OBVIOUS
<1>1. PipelineBase /\ (pipeline # "raised" => PipelineLive)
  BY DEF PipelineInv
<1>2. source \subseteq PipelineItems /\ PipelineWorkers # {}
  <2>1. <<1, 1>> \in PipelineWorkers
    <3>1. 1 \in StageNumbers /\ StageWorkers[1] \in Nat \ {0}
      BY Staff
    <3>2. 1 \in 1 .. StageWorkers[1]
      BY <3>1
    <3> QED BY <3>1, <3>2, Staff
  <2> QED BY <1>1, <2>1, BaseTypes
<1>3. ASSUME NEW x \in source, Produce(x) PROVE PipelineInv'
  <2>1. PipelineBase' /\ pipeline' = pipeline
    BY <1>1, <1>2, <1>3, ProduceBase DEF Produce
  <2>2. pipeline # "raised" => PipelineLive'
    BY <1>1, <1>3, ProduceLive
  <2> QED BY <2>1, <2>2 DEF PipelineInv
<1>4. CASE ProduceEnd
  <2>1. PipelineBase' /\ pipeline' = pipeline
    BY <1>1, <1>4, ProduceBase DEF ProduceEnd
  <2>2. pipeline # "raised" => PipelineLive'
    BY <1>1, <1>4, ProduceEndLive
  <2> QED BY <2>1, <2>2 DEF PipelineInv
<1>5. ASSUME NEW w \in PipelineWorkers, putLeft[w] = <<>>, GetEnd(w) \/ GetItem(w) PROVE PipelineInv'
  <2>1. PipelineBase' /\ pipeline' = pipeline
    BY <1>1, <1>5, GetBase DEF GetEnd, GetItem
  <2>2. pipeline # "raised" => PipelineLive'
    BY <1>1, <1>5, GetEndLive, GetItemLive
  <2> QED BY <2>1, <2>2 DEF PipelineInv
<1>6. ASSUME NEW w \in PipelineWorkers, NEW keeps \in BOOLEAN, Handle(w, keeps) PROVE PipelineInv'
  <2>1. PipelineBase' /\ pipeline' = pipeline
    BY <1>1, <1>6, HandleBase DEF Handle
  <2>2. pipeline # "raised" => PipelineLive'
    BY <1>1, <1>6, HandleLive
  <2> QED BY <2>1, <2>2 DEF PipelineInv
<1>7. ASSUME NEW w \in PipelineWorkers, PutNext(w) PROVE PipelineInv'
  <2>1. PipelineBase' /\ pipeline' = pipeline
    BY <1>1, <1>7, PutBase DEF PutNext
  <2>2. pipeline # "raised" => PipelineLive'
    BY <1>1, <1>7, PutNextLive
  <2> QED BY <2>1, <2>2 DEF PipelineInv
<1>8. ASSUME NEW w \in PipelineWorkers, WorkerReturns(w) \/ HandlerRaises(w) PROVE PipelineInv'
  <2>1. PipelineBase'
    BY <1>1, <1>8, EndsBase
  <2>2. CASE WorkerReturns(w)
    BY <1>1, <2>1, <2>2, ReturnsLive DEF WorkerReturns, PipelineInv
  <2>3. CASE HandlerRaises(w)
    BY <2>1, <2>3 DEF HandlerRaises, PipelineInv
  <2> QED BY <1>8, <2>2, <2>3
<1>9. CASE StartPipeline \/ Gathered \/ UNCHANGED pipelineVars
  <2>1. PipelineBase'
    BY <1>1, <1>2, <1>9, EndsBase
  <2>2. pipeline' # "raised" => pipeline # "raised"
    BY <1>9 DEF StartPipeline, Gathered, pipelineVars
  <2>3. pipeline # "raised" => PipelineLive'
    BY <1>1, <1>9, TasksLive
  <2> QED BY <2>1, <2>2, <2>3 DEF PipelineInv
<1>10. CASE SourceRaises
  <2>1. 0 \in 0 .. StageWorkers[1]
    BY Staff
  <2>2. PipelineBase'
    BY <1>1, <1>10, <2>1 DEF SourceRaises, PipelineBase, PipelineTypeOK, PutsBefore
  <2> QED BY <1>10, <2>2 DEF SourceRaises, PipelineInv
<1> QED BY <1>3, <1>4, <1>5, <1>6, <1>7, <1>8, <1>9, <1>10 DEF PipelineNext, PipelineGoesOn, WorkerGoesOn

LEMMA PipelineStarts == PipelineInit => PipelineInv
<1> SUFFICES ASSUME PipelineInit PROVE PipelineInv
  OBVIOUS
<1>1. PipelineBase
  <2>1. StageWorkers[1] \in 0 .. StageWorkers[1]
    <3>1. StageWorkers[1] \in Nat
      BY Staff
    <3> QED BY <3>1
  <2>2. <<>> \in Queued /\ <<>> \in Seq(PipelineItems) /\ Len(<<>>) = 0
    BY ShortOnes
  <2>3. \A k \in StageNumbers : 0 <= QueueSizes[k]
    BY Staff
  <2> QED BY <2>1, <2>2, <2>3 DEF PipelineInit, PipelineBase, PipelineTypeOK, PutsBefore
<1>2. \A k \in StageNumbers : EndedOf(k) = {} /\ queues[k] = <<>> /\ finished[k] = 0
  <2>1. \A k \in StageNumbers : \A n \in 1 .. StageWorkers[k] : worker[<<k, n>>] = "get"
    BY Staff DEF PipelineInit
  <2> QED BY <2>1 DEF PipelineInit, EndedOf, Ended
<1>3. EndsCounted
  <2>1. Cardinality({}) = 0
    BY FS_EmptySet
  <2> QED BY <1>2, <2>1 DEF PipelineInit, EndsCounted
<1>4. EndsLast /\ NoneTwice /\ PutsInTurn /\ AllReturned
  BY <1>2, ShortOnes DEF PipelineInit, EndsLast, NoneTwice, PutsInTurn, AllReturned
<1>5. EachOnce
  <2> DEFINE a == <<"source", <<0, 0>>>>
  <2>1. a \in Containers /\ ContentOf(a) = PipelineItems
    BY ContainerIs, ContentIs DEF PipelineInit
  <2>2. ASSUME NEW d \in Containers, d # a PROVE ContentOf(d) = {}
    <3>1. CASE d \in {<<"results", <<0, 0>>>>, <<"none", <<0, 0>>>>}
      BY <3>1, ContentIs, ShortOnes DEF PipelineInit
    <3>2. CASE \E k \in StageNumbers : d = <<"queue", <<k, 0>>>>
      BY <1>2, <3>2, ContentIs, ShortOnes
    <3>3. CASE \E w \in PipelineWorkers : d = <<"worker", w>> \/ d = <<"put", w>>
      <4>1. {"get"} \cap PipelineItems = {}
        BY MarkersApart
      <4> QED BY <3>3, <4>1, ContentIs, ShortOnes DEF PipelineInit
    <3> QED BY <2>2, <3>1, <3>2, <3>3, ContainerIs
  <2> QED BY <2>1, <2>2 DEF EachOnce
<1> QED BY <1>1, <1>3, <1>4, <1>5 DEF PipelineInv, PipelineLive

(* A sequence of items that are all different is as long as its set.        *)
LEMMA LengthIsCount ==
  ASSUME NEW q \in Seq(PipelineItems), NoRepeat(q)
  PROVE  ToSet(q) = ItemsIn(q) /\ Len(q) = Cardinality(ToSet(q))
<1> DEFINE n == Len(q)
           all == ToSet(q)
<1>1. n \in Nat /\ DOMAIN q = 1 .. n /\ \A i \in 1 .. n : q[i] \in PipelineItems
  BY LenProperties
<1>2. all = {q[i] : i \in 1 .. n}
  BY <1>1 DEF ToSet
<1>3. all = ItemsIn(q)
  BY <1>1, <1>2 DEF ItemsIn
<1>4. q \in Bijection(1 .. n, all)
  <2>1. q \in [1 .. n -> all]
    BY <1>1, <1>2
  <2>2. \A i, j \in 1 .. n : q[i] = q[j] => i = j
    BY <1>1 DEF NoRepeat
  <2>3. \A x \in all : \E i \in 1 .. n : q[i] = x
    BY <1>2
  <2> HIDE DEF all, n
  <2> QED BY <2>1, <2>2, <2>3 DEF Bijection, Injection, Surjection, IsInjective
<1> HIDE DEF all, n
<1>5. IsFiniteSet(1 .. n) /\ Cardinality(1 .. n) = n
  <2>1. IsFiniteSet(1 .. n) /\ Cardinality(1 .. n) = IF 1 > n THEN 0 ELSE n - 1 + 1
    <3>1. 1 \in Int /\ n \in Int
      BY <1>1
    <3> QED BY <3>1, FS_Interval
  <2> QED BY <1>1, <2>1
<1>6. Cardinality(all) = n
  <2>1. ExistsBijection(1 .. n, all)
    BY <1>4 DEF ExistsBijection
  <2> QED BY <1>5, <2>1, FS_Bijection, Zenon
<1> QED BY <1>3, <1>6 DEF all, n

LEMMA ReturnedDelivers == PipelineInv => (pipeline = "returned" => Delivered)
<1> SUFFICES ASSUME PipelineInv, pipeline = "returned" PROVE Delivered
  OBVIOUS
<1>1. PipelineBase /\ PipelineLive /\ \A w \in PipelineWorkers : worker[w] = "returned"
  BY DEF PipelineInv, PipelineLive, AllReturned
<1>2. \A k \in StageNumbers : NoMore(k) /\ OnlyEnds(queues[k])
  <2> SUFFICES ASSUME NEW k \in StageNumbers PROVE EndedOf(k) # {}
    BY <1>1 DEF PipelineLive, EndsLast
  <2>1. StageWorkers[k] \in Nat \ {0}
    BY Staff
  <2>2. 1 \in 1 .. StageWorkers[k]
    BY <2>1
  <2>3. <<k, 1>> \in PipelineWorkers
    BY <2>2, Staff
  <2> QED BY <1>1, <2>2, <2>3 DEF EndedOf, Ended
<1>3. source = {}
  BY <1>2, Staff DEF NoMore
<1>4. \A k \in StageNumbers : ItemsIn(queues[k]) = {}
  BY <1>1, <1>2, BaseTypes, ShortOnes
<1>5. \A w \in PipelineWorkers : {worker[w]} \cap PipelineItems = {} /\ ItemsIn(putLeft[w]) = {}
  <2>1. {"returned"} \cap PipelineItems = {}
    BY MarkersApart
  <2>2. \A w \in PipelineWorkers : putLeft[w] = <<>>
    BY <1>1 DEF PipelineLive, PutsInTurn
  <2> QED BY <1>1, <2>1, <2>2, ShortOnes
<1> DEFINE out == <<"results", <<0, 0>>>>
           none == <<"none", <<0, 0>>>>
<1>6. \A c \in Containers : c # out /\ c # none => ContentOf(c) = {}
  <2> SUFFICES ASSUME NEW c \in Containers, c # out, c # none PROVE ContentOf(c) = {}
    OBVIOUS
  <2>1. \/ c = <<"source", <<0, 0>>>> \/ \E k \in StageNumbers : c = <<"queue", <<k, 0>>>>
        \/ \E w \in PipelineWorkers : c = <<"worker", w>> \/ c = <<"put", w>>
    BY ContainerIs
  <2> QED BY <1>3, <1>4, <1>5, <2>1, ContentIs
<1>7. out \in Containers /\ none \in Containers /\ out # none /\ ContentOf(out) = ItemsIn(results) /\ ContentOf(none) = noResult
  BY ContainerIs, ContentIs
<1>8. \A x \in PipelineItems : x \in ItemsIn(results) <=> x \notin noResult
  <2> SUFFICES ASSUME NEW x \in PipelineItems PROVE x \in ItemsIn(results) <=> x \notin noResult
    OBVIOUS
  <2>1. PICK c \in Containers : x \in ContentOf(c) /\ \A d \in Containers : x \in ContentOf(d) => d = c
    BY <1>1 DEF PipelineLive, EachOnce
  <2>2. c \in {out, none}
    BY <1>6, <2>1
  <2> QED BY <1>7, <2>1, <2>2
<1>9. ItemsIn(results) = PipelineItems \ noResult
  BY <1>8 DEF ItemsIn
<1>10. ToSet(results) = ItemsIn(results) /\ Len(results) = Cardinality(ToSet(results))
  BY <1>1, BaseTypes, LengthIsCount DEF PipelineLive, NoneTwice
<1> QED BY <1>9, <1>10 DEF Delivered

LEMMA PipelineSafely ==
  PipelineInit /\ [][PipelineNext]_pipelineVars =>
    [](PipelineTypeOK /\ (pipeline = "returned" => Delivered))
<1>1. PipelineInv => PipelineTypeOK
  BY DEF PipelineInv, PipelineBase
<1> QED BY <1>1, PipelineStarts, PipelineStep, ReturnedDelivers, PTL

(* A run that returns has delivered, whatever the stages, their workers,    *)
(* the sizes of the queues and the order in which workers take turns.       *)
THEOREM ReturnIsDelivery == PipelineSpec => [](PipelineTypeOK /\ (pipeline = "returned" => Delivered))
BY PipelineSafely, PTL DEF PipelineSpec

(* A run that has not raised is never stuck.  What makes it so is that a     *)
(* stage gets as many markers as it has workers: those in its queue, those   *)
(* its workers took and those the producer, or the one worker of the stage   *)
(* before that was last to end, has yet to put.                              *)
MarkersLast(q, m) == m <= Len(q) /\ \A i \in 1 .. Len(q) : q[i] = EndMarker <=> Len(q) < i + m

FirstCounted ==
  \E m \in Nat : MarkersLast(queues[1], m) /\ m + finished[1] + endsLeft = StageWorkers[1]
Brings(w, k, m) ==
  /\ w[1] + 1 = k /\ MarkersLast(queues[k], m)
  /\ m + finished[k] + Len(putLeft[w]) = StageWorkers[k]
  /\ \A v \in PipelineWorkers : v[1] = w[1] /\ v # w => putLeft[v] = <<>>
LaterCounted(k) == NoMore(k) => \E w \in PipelineWorkers : \E m \in Nat : Brings(w, k, m)
MarkersCounted == FirstCounted /\ \A k \in StageNumbers \ {1} : LaterCounted(k)

LEMMA MarkersPut ==
  ASSUME NEW q \in Queued, NEW m \in Nat, MarkersLast(q, m)
  PROVE  /\ MarkersLast(Append(q, EndMarker), m + 1)
         /\ NoEnds(q) => m = 0
         /\ \A x \in PipelineItems : NoEnds(q) => MarkersLast(Append(q, x), 0)
         /\ OnlyEnds(q) => m = Len(q)
<1> DEFINE n == Len(q)
<1>1. n \in Nat /\ m <= n /\ \A i \in 1 .. n : q[i] = EndMarker <=> n < i + m
  BY LenProperties DEF Queued, MarkersLast
<1>2. ASSUME NEW e \in PipelineItems \cup {EndMarker}
      PROVE  /\ Len(Append(q, e)) = n + 1 /\ Append(q, e)[n + 1] = e
             /\ \A i \in 1 .. n : Append(q, e)[i] = q[i]
  BY <1>2, AppendProperties DEF Queued
<1>3. \A i \in 1 .. (n + 1) : i \in 1 .. n \/ i = n + 1
  BY <1>1
<1> HIDE DEF n
<1>4. MarkersLast(Append(q, EndMarker), m + 1)
  <2> DEFINE p == Append(q, EndMarker)
  <2>1. Len(p) = n + 1 /\ p[n + 1] = EndMarker /\ \A i \in 1 .. n : p[i] = q[i]
    BY <1>2
  <2> HIDE DEF p
  <2>2. ASSUME NEW i \in 1 .. (n + 1) PROVE p[i] = EndMarker <=> n + 1 < i + (m + 1)
    BY <1>1, <1>3, <2>1
  <2> QED BY <1>1, <2>1, <2>2 DEF MarkersLast, p
<1>5. NoEnds(q) => m = 0
  <2> SUFFICES ASSUME NoEnds(q), m > 0 PROVE FALSE
    OBVIOUS
  <2>1. n \in 1 .. n /\ n < n + m
    BY <1>1
  <2> QED BY <1>1, <2>1 DEF NoEnds, n
<1>6. ASSUME NEW x \in PipelineItems, NoEnds(q) PROVE MarkersLast(Append(q, x), 0)
  <2> DEFINE p == Append(q, x)
  <2>1. Len(p) = n + 1 /\ p[n + 1] = x /\ x # EndMarker /\ \A i \in 1 .. n : p[i] = q[i]
    BY <1>2, MarkersApart
  <2> HIDE DEF p
  <2>2. ASSUME NEW i \in 1 .. (n + 1) PROVE p[i] # EndMarker /\ ~(n + 1 < i + 0)
    BY <1>1, <1>3, <1>6, <2>1 DEF NoEnds, n
  <2> QED BY <1>1, <2>1, <2>2 DEF MarkersLast, p
<1>7. OnlyEnds(q) => m = n
  <2> SUFFICES ASSUME OnlyEnds(q), m < n PROVE FALSE
    BY <1>1
  <2>1. 1 \in 1 .. n /\ ~(n < 1 + m)
    BY <1>1
  <2> QED BY <1>1, <2>1 DEF OnlyEnds, n
<1> QED BY <1>4, <1>5, <1>6, <1>7 DEF n

LEMMA MarkersGot ==
  ASSUME NEW q \in Queued, q # <<>>, NEW m \in Nat, MarkersLast(q, m)
  PROVE  /\ Head(q) = EndMarker => m > 0 /\ MarkersLast(Tail(q), m - 1)
         /\ Head(q) # EndMarker => MarkersLast(Tail(q), m)
<1> DEFINE n == Len(q)
           p == Tail(q)
<1>1. n \in Nat /\ n > 0 /\ m <= n /\ \A i \in 1 .. n : q[i] = EndMarker <=> n < i + m
  BY EmptySeq, LenProperties DEF Queued, MarkersLast
<1>2. Len(p) = n - 1 /\ Head(q) = q[1] /\ \A i \in 1 .. (n - 1) : p[i] = q[i + 1]
  BY HeadTailProperties DEF Queued
<1>3. 1 \in 1 .. n /\ \A i \in 1 .. (n - 1) : i + 1 \in 1 .. n
  BY <1>1
<1> HIDE DEF p, n
<1>4. ASSUME Head(q) = EndMarker PROVE m > 0 /\ MarkersLast(p, m - 1)
  <2>1. m = n
    BY <1>1, <1>2, <1>3, <1>4
  <2>2. ASSUME NEW i \in 1 .. (n - 1) PROVE p[i] = EndMarker /\ n - 1 < i + (m - 1)
    <3>1. q[i + 1] = EndMarker <=> n < (i + 1) + m
      BY <1>1, <1>3
    <3> QED BY <1>1, <1>2, <2>1, <3>1
  <2> QED BY <1>1, <1>2, <2>1, <2>2 DEF MarkersLast
<1>5. ASSUME Head(q) # EndMarker PROVE MarkersLast(p, m)
  <2>1. m < n
    BY <1>1, <1>2, <1>3, <1>5
  <2>2. ASSUME NEW i \in 1 .. (n - 1) PROVE p[i] = EndMarker <=> n - 1 < i + m
    <3>1. q[i + 1] = EndMarker <=> n < (i + 1) + m
      BY <1>1, <1>3
    <3> QED BY <1>1, <1>2, <3>1
  <2> QED BY <1>1, <1>2, <2>1, <2>2 DEF MarkersLast
<1> QED BY <1>4, <1>5 DEF p

LEMMA FirstStays ==
  ASSUME FirstCounted, queues'[1] = queues[1], finished'[1] = finished[1], endsLeft' = endsLeft
  PROVE  FirstCounted'
BY DEF FirstCounted, MarkersLast

LEMMA LaterStays ==
  ASSUME NEW k \in StageNumbers \ {1}, LaterCounted(k), NoMore(k)' => NoMore(k),
         queues'[k] = queues[k], finished'[k] = finished[k],
         \A w \in PipelineWorkers : w[1] + 1 = k => putLeft'[w] = putLeft[w]
  PROVE  LaterCounted(k)'
BY DEF LaterCounted, Brings, MarkersLast

\* A later stage is told no more when one of the stage before has not ended.
LEMMA NotYetEnded ==
  ASSUME NEW k \in StageNumbers \ {1},
         \A w \in PipelineWorkers : w[1] + 1 = k => (worker'[w] \in Ended => worker[w] \in Ended)
  PROVE  NoMore(k)' => NoMore(k)
<1>1. k # 1 /\ k - 1 \in StageNumbers /\ (k - 1) + 1 = k
  BY Staff
<1>2. \A n \in 1 .. StageWorkers[k - 1] : <<k - 1, n>> \in PipelineWorkers /\ <<k - 1, n>>[1] + 1 = k
  BY <1>1, Staff
<1> QED BY <1>1, <1>2 DEF NoMore

LEMMA ProduceMarks ==
  ASSUME PipelineInv, pipeline # "raised", MarkersCounted, (\E x \in source : Produce(x)) \/ ProduceEnd
  PROVE  MarkersCounted'
<1>1. PipelineBase /\ PipelineLive /\ FirstCounted /\ 1 \in StageNumbers
  BY Staff DEF PipelineInv, MarkersCounted
<1>2. UNCHANGED <<worker, putLeft, finished>>
  BY DEF Produce, ProduceEnd
<1>3. PICK m \in Nat : MarkersLast(queues[1], m) /\ m + finished[1] + endsLeft = StageWorkers[1]
  BY <1>1 DEF FirstCounted
<1>4. queues[1] \in Queued /\ finished[1] \in Nat /\ endsLeft \in Nat
  <2>1. endsLeft \in 0 .. StageWorkers[1] /\ StageWorkers[1] \in Nat
    BY <1>1, BaseTypes, Staff
  <2> QED BY <1>1, <2>1, BaseTypes
<1>5. CASE \E x \in source : Produce(x)
  <2>1. PICK x \in source : Produce(x)
    BY <1>5
  <2>2. /\ queues' = [queues EXCEPT ![1] = Append(queues[1], x)] /\ HasRoom(1) /\ endsLeft' = endsLeft
        /\ x \in PipelineItems
    BY <1>1, <2>1, BaseTypes DEF Produce
  <2>3. queues'[1] = Append(queues[1], x) /\ \A j \in StageNumbers : j # 1 => queues'[j] = queues[j]
    BY <1>1, <2>2, QueuePut
  <2>4. NoEnds(queues[1])
    BY <1>1 DEF PipelineLive, EndsLast, NoMore
  <2>5. m = 0 /\ MarkersLast(queues'[1], 0)
    BY <1>3, <1>4, <2>2, <2>3, <2>4, MarkersPut
  <2>6. FirstCounted'
    BY <1>2, <1>3, <2>2, <2>5 DEF FirstCounted, MarkersLast
  <2>7. \A k \in StageNumbers \ {1} : LaterCounted(k)'
    BY <1>2, <2>3, NotYetEnded, LaterStays DEF MarkersCounted
  <2> QED BY <2>6, <2>7 DEF MarkersCounted
<1>6. CASE ProduceEnd
  <2>1. /\ queues' = [queues EXCEPT ![1] = Append(queues[1], EndMarker)] /\ HasRoom(1)
        /\ endsLeft' = endsLeft - 1 /\ endsLeft > 0
    BY <1>6 DEF ProduceEnd
  <2>2. queues'[1] = Append(queues[1], EndMarker) /\ \A j \in StageNumbers : j # 1 => queues'[j] = queues[j]
    BY <1>1, <2>1, QueuePut
  <2>3. MarkersLast(queues'[1], m + 1)
    BY <1>3, <1>4, <2>2, MarkersPut
  <2>4. m + 1 \in Nat /\ (m + 1) + finished'[1] + endsLeft' = StageWorkers[1]
    BY <1>2, <1>3, <1>4, <2>1
  <2>5. FirstCounted'
    BY <2>3, <2>4 DEF FirstCounted, MarkersLast
  <2>6. \A k \in StageNumbers \ {1} : LaterCounted(k)'
    BY <1>2, <2>2, NotYetEnded, LaterStays DEF MarkersCounted
  <2> QED BY <2>5, <2>6 DEF MarkersCounted
<1> QED BY <1>5, <1>6

\* A worker takes an item, or handles one: no marker moves.
LEMMA ItemMarks ==
  ASSUME PipelineInv, pipeline # "raised", MarkersCounted, NEW w \in PipelineWorkers,
         GetItem(w) \/ \E keeps \in BOOLEAN : Handle(w, keeps)
  PROVE  MarkersCounted'
<1>1. PipelineBase /\ PipelineLive /\ 1 \in StageNumbers /\ w[1] \in StageNumbers
  BY Staff DEF PipelineInv
<1>2. UNCHANGED <<finished, endsLeft>> /\ worker[w] \notin Ended
  BY MarkersApart DEF GetItem, Handle, Ended
<1>3. /\ worker' = [worker EXCEPT ![w] = worker'[w]]
      /\ putLeft' = putLeft \/ putLeft' = [putLeft EXCEPT ![w] = putLeft'[w]]
  BY <1>1, BaseTypes DEF GetItem, Handle
<1>4. \A v \in PipelineWorkers : v # w => worker'[v] = worker[v] /\ putLeft'[v] = putLeft[v]
  BY <1>1, <1>3, BaseTypes
<1>5. worker'[w] \notin Ended
  <2>1. CASE GetItem(w)
    <3>1. Head(queues[w[1]]) \in PipelineItems \cup {EndMarker} /\ Head(queues[w[1]]) # EndMarker
      BY <1>1, <2>1, BaseTypes, TailOne DEF GetItem
    <3>2. worker'[w] = Head(queues[w[1]])
      BY <1>1, <2>1, BaseTypes DEF GetItem
    <3> QED BY <3>1, <3>2, MarkersApart DEF Ended
  <2>2. CASE \E keeps \in BOOLEAN : Handle(w, keeps)
    <3>1. worker'[w] = "get"
      BY <1>1, <2>2, BaseTypes DEF Handle
    <3> QED BY <3>1 DEF Ended
  <2> QED BY <2>1, <2>2
<1>6. ASSUME NEW k \in StageNumbers, NEW m \in Nat, MarkersLast(queues[k], m) PROVE MarkersLast(queues'[k], m)
  <2>1. CASE queues' = queues
    BY <1>6, <2>1
  <2>2. CASE GetItem(w)
    <3>1. /\ queues[w[1]] # <<>> /\ Head(queues[w[1]]) # EndMarker /\ queues[w[1]] \in Queued
          /\ queues' = [queues EXCEPT ![w[1]] = Tail(queues[w[1]])]
      BY <1>1, <2>2, BaseTypes DEF GetItem
    <3>2. queues'[w[1]] = Tail(queues[w[1]]) /\ \A j \in StageNumbers : j # w[1] => queues'[j] = queues[j]
      BY <1>1, <3>1, QueueGet
    <3> QED BY <1>6, <3>1, <3>2, MarkersGot
  <2> QED BY <2>1, <2>2 DEF Handle
<1>7. FirstCounted'
  <2>1. PICK m \in Nat : MarkersLast(queues[1], m) /\ m + finished[1] + endsLeft = StageWorkers[1]
    BY DEF MarkersCounted, FirstCounted
  <2>2. MarkersLast(queues'[1], m)
    BY <1>1, <1>6, <2>1
  <2> QED BY <1>2, <2>1, <2>2 DEF FirstCounted, MarkersLast
<1>8. ASSUME NEW k \in StageNumbers \ {1}, NoMore(k)' PROVE \E v \in PipelineWorkers : \E m \in Nat : Brings(v, k, m)'
  <2>1. w[1] + 1 # k
    <3> SUFFICES ASSUME w[1] + 1 = k PROVE FALSE
      OBVIOUS
    <3>1. k # 1 /\ k - 1 = w[1] /\ w = <<k - 1, w[2]>> /\ w[2] \in 1 .. StageWorkers[k - 1]
      BY <1>1, Staff
    <3> QED BY <1>5, <1>8, <3>1 DEF NoMore
  <2>2. NoMore(k)
    BY <1>4, <1>8, <2>1, NotYetEnded
  <2>3. PICK v \in PipelineWorkers, m \in Nat : Brings(v, k, m)
    BY <2>2 DEF MarkersCounted, LaterCounted
  <2>4. v # w /\ \A u \in PipelineWorkers : u[1] = v[1] => u # w
    BY <2>1, <2>3 DEF Brings
  <2>5. MarkersLast(queues'[k], m)
    BY <1>6, <2>3 DEF Brings
  <2>6. Brings(v, k, m)'
    BY <1>2, <1>4, <2>3, <2>4, <2>5 DEF Brings, MarkersLast
  <2> QED BY <2>6
<1> QED BY <1>7, <1>8 DEF MarkersCounted, LaterCounted

LEMMA GetEndMarks ==
  ASSUME PipelineInv, PipelineInv', pipeline # "raised", MarkersCounted, NEW w \in PipelineWorkers,
         putLeft[w] = <<>>, GetEnd(w)
  PROVE  MarkersCounted'
<1> DEFINE k == w[1]
           put == IF LastOfStage(k) /\ k < FinalStage THEN EndsOf(k + 1) ELSE <<>>
<1>1. /\ worker[w] = "get" /\ queues[k] # <<>> /\ Head(queues[k]) = EndMarker
      /\ worker' = [worker EXCEPT ![w] = "ending"] /\ queues' = [queues EXCEPT ![k] = Tail(queues[k])]
      /\ putLeft' = [putLeft EXCEPT ![w] = put] /\ finished' = [finished EXCEPT ![k] = finished[k] + 1]
      /\ UNCHANGED <<pipeline, endsLeft>>
  BY DEF GetEnd
<1>2. PipelineBase /\ PipelineLive /\ PipelineLive' /\ 1 \in StageNumbers /\ k \in StageNumbers
      /\ queues[k] \in Queued
  BY <1>1, Staff, BaseTypes DEF PipelineInv
<1>3. queues'[k] = Tail(queues[k]) /\ \A j \in StageNumbers : j # k => queues'[j] = queues[j]
  BY <1>1, <1>2, QueueGet
<1>4. /\ worker'[w] = "ending" /\ \A v \in PipelineWorkers : v # w => worker'[v] = worker[v]
      /\ putLeft'[w] = put /\ \A v \in PipelineWorkers : v # w => putLeft'[v] = putLeft[v]
      /\ finished'[k] = finished[k] + 1 /\ \A j \in StageNumbers : j # k => finished'[j] = finished[j]
  BY <1>1, <1>2, BaseTypes
<1>5. \A j \in StageNumbers : finished[j] \in Nat
  BY <1>2, BaseTypes
<1>6. ASSUME NEW m \in Nat, MarkersLast(queues[k], m)
      PROVE  m - 1 \in Nat /\ MarkersLast(queues'[k], m - 1) /\ (m - 1) + finished'[k] = m + finished[k]
  <2>1. m > 0 /\ MarkersLast(Tail(queues[k]), m - 1)
    BY <1>1, <1>2, <1>6, MarkersGot
  <2> QED BY <1>2, <1>3, <1>4, <1>5, <2>1
<1> HIDE DEF put
<1>7. FirstCounted'
  <2>1. CASE k = 1
    <3>1. PICK m \in Nat : MarkersLast(queues[1], m) /\ m + finished[1] + endsLeft = StageWorkers[1]
      BY DEF MarkersCounted, FirstCounted
    <3>2. m - 1 \in Nat /\ MarkersLast(queues'[1], m - 1) /\ (m - 1) + finished'[1] = m + finished[1]
      BY <1>6, <2>1, <3>1
    <3> QED BY <1>1, <3>1, <3>2 DEF FirstCounted, MarkersLast
  <2>2. CASE k # 1
    BY <1>1, <1>2, <1>3, <1>4, <2>2, FirstStays DEF MarkersCounted
  <2> QED BY <2>1, <2>2
<1>8. ASSUME NEW j \in StageNumbers \ {1} PROVE LaterCounted(j)'
  <2>1. LaterCounted(j) /\ j \in Nat /\ k \in Nat
    BY <1>2, Staff DEF MarkersCounted
  <2>2. CASE j # k /\ j # k + 1
    <3>1. \A v \in PipelineWorkers : v[1] + 1 = j => v # w
      BY <2>2
    <3>2. NoMore(j)' => NoMore(j)
      BY <1>4, <3>1, NotYetEnded
    <3> QED BY <1>3, <1>4, <2>1, <2>2, <3>1, <3>2, LaterStays
  <2>3. CASE j = k
    <3>1. NoMore(k)
      <4>1. ~NoEnds(queues[k])
        BY <1>1, <1>2, TailOne
      <4> QED BY <1>2, <4>1 DEF PipelineLive, EndsLast
    <3>2. PICK v \in PipelineWorkers, m \in Nat : Brings(v, k, m)
      BY <2>1, <2>3, <3>1 DEF LaterCounted
    <3>3. \A u \in PipelineWorkers : u[1] = v[1] => u # w /\ putLeft'[u] = putLeft[u]
      <4>1. v[1] + 1 = k /\ v[1] \in Nat /\ v[1] # k
        BY <2>1, <3>2, Staff DEF Brings
      <4> QED BY <1>4, <4>1
    <3>4. MarkersLast(queues[k], m) /\ m + finished[k] + Len(putLeft[v]) = StageWorkers[k] /\ v[1] + 1 = k
      BY <3>2 DEF Brings
    <3>5. m - 1 \in Nat /\ MarkersLast(queues'[k], m - 1) /\ (m - 1) + finished'[k] = m + finished[k]
      BY <1>6, <3>4
    <3>6. Brings(v, k, m - 1)'
      <4>1. (m - 1) + finished'[k] + Len(putLeft'[v]) = StageWorkers[k]
        BY <3>3, <3>4, <3>5
      <4>2. \A u \in PipelineWorkers : u[1] = v[1] /\ u # v => putLeft'[u] = <<>>
        BY <3>2, <3>3 DEF Brings
      <4> QED BY <3>4, <3>5, <4>1, <4>2 DEF Brings, MarkersLast
    <3> QED BY <2>3, <3>5, <3>6 DEF LaterCounted
  <2>4. CASE j = k + 1
    <3> SUFFICES ASSUME NoMore(j)' PROVE Brings(w, j, 0)'
      BY DEF LaterCounted
    <3>1. w[2] \in 1 .. StageWorkers[k] /\ w = <<k, w[2]>> /\ j - 1 = k /\ j # 1 /\ StageWorkers[k] \in Nat
      BY <1>2, <2>1, <2>4, Staff
    <3>2. EndedOf(k)' = 1 .. StageWorkers[k]
      BY <3>1 DEF NoMore, EndedOf
    <3>3. Cardinality(1 .. StageWorkers[k]) = StageWorkers[k]
      <4> DEFINE n == StageWorkers[k]
      <4>1. n \in Nat /\ 1 \in Int /\ n \in Int
        BY <3>1
      <4> HIDE DEF n
      <4>2. Cardinality(1 .. n) = IF 1 > n THEN 0 ELSE n - 1 + 1
        BY <4>1, FS_Interval
      <4>3. Cardinality(1 .. n) = n
        BY <4>1, <4>2
      <4> QED BY <4>3 DEF n
    <3>4. finished[k] + 1 = StageWorkers[k]
      BY <1>2, <1>4, <3>2, <3>3 DEF PipelineLive, EndsCounted
    <3>5. put = EndsOf(j) /\ Len(EndsOf(j)) = StageWorkers[j]
      <4>1. k < FinalStage
        BY <2>1, <2>4, Staff
      <4>2. StageWorkers[j] \in Nat
        BY Staff
      <4>3. Len(EndsOf(j)) = StageWorkers[j]
        BY <4>2, IsASeq, LenProperties DEF EndsOf
      <4> QED BY <2>4, <3>4, <4>1, <4>3 DEF put, LastOfStage
    <3>6. ~NoMore(j) /\ NoEnds(queues[j]) /\ EndedOf(j) = {}
      <4>1. ~NoMore(j)
        BY <1>1, <2>4, StageGoesOn DEF Ended
      <4> QED BY <1>2, <4>1 DEF PipelineLive, EndsLast
    <3>7. finished[j] = 0
      BY <1>2, <3>6, FS_EmptySet DEF PipelineLive, EndsCounted
    <3>8. MarkersLast(queues'[j], 0)
      <4>1. queues'[j] = queues[j] /\ queues[j] \in Queued
        BY <1>2, <1>3, <2>1, <2>4, BaseTypes
      <4>2. Len(queues[j]) \in Nat
        BY <4>1, LenProperties DEF Queued
      <4>3. \A i \in 1 .. Len(queues[j]) : queues[j][i] # EndMarker /\ ~(Len(queues[j]) < i + 0)
        BY <3>6, <4>2 DEF NoEnds
      <4> QED BY <4>1, <4>2, <4>3 DEF MarkersLast
    <3>9. ASSUME NEW v \in PipelineWorkers, v[1] = w[1], v # w PROVE putLeft'[v] = <<>>
      <4>1. v[2] \in 1 .. StageWorkers[k] /\ v = <<k, v[2]>>
        BY <3>9, Staff
      <4>2. worker[v] \in Ended
        BY <1>4, <3>1, <3>9, <4>1 DEF NoMore
      <4>3. worker[v] = "ending" => putLeft[v] = <<>>
        BY <1>2, <2>4, <3>6, <3>9 DEF PipelineLive, PutsInTurn
      <4>4. putLeft[v] # <<>> => worker[v] \in {"get", "ending"}
        BY <1>2 DEF PipelineLive, PutsInTurn
      <4> QED BY <1>4, <3>9, <4>2, <4>3, <4>4 DEF Ended
    <3>10. 0 + finished'[j] + Len(putLeft'[w]) = StageWorkers[j]
      <4>1. finished'[j] = 0 /\ Len(putLeft'[w]) = StageWorkers[j] /\ StageWorkers[j] \in Nat
        BY <1>4, <2>1, <2>4, <3>5, <3>7, Staff
      <4> QED BY <4>1
    <3> QED BY <2>4, <3>8, <3>9, <3>10 DEF Brings, MarkersLast
  <2> QED BY <2>2, <2>3, <2>4
<1> QED BY <1>7, <1>8 DEF MarkersCounted

LEMMA PutNextMarks ==
  ASSUME PipelineInv, pipeline # "raised", MarkersCounted, NEW w \in PipelineWorkers, PutNext(w)
  PROVE  MarkersCounted'
<1> DEFINE k == w[1] + 1
           e == Head(putLeft[w])
<1>1. /\ putLeft[w] # <<>> /\ HasRoom(k) /\ queues' = [queues EXCEPT ![k] = Append(queues[k], e)]
      /\ putLeft' = [putLeft EXCEPT ![w] = Tail(putLeft[w])]
      /\ UNCHANGED <<endsLeft, worker, finished>>
  BY DEF PutNext
<1>2. PipelineBase /\ PipelineLive
  BY DEF PipelineInv
<1>3. /\ k \in StageNumbers /\ e \in PipelineItems \cup {EndMarker} /\ queues[k] \in Queued
      /\ putLeft \in [PipelineWorkers -> Queued] /\ finished[k] \in Nat
  BY <1>1, <1>2, PutBase, BaseTypes
<1>4. queues'[k] = Append(queues[k], e) /\ \A j \in StageNumbers : j # k => queues'[j] = queues[j]
  BY <1>1, <1>2, <1>3, QueuePut
<1>5. putLeft'[w] = Tail(putLeft[w]) /\ \A v \in PipelineWorkers : v # w => putLeft'[v] = putLeft[v]
  BY <1>1, <1>3
<1>6. k # 1 /\ 1 \in StageNumbers
  <2>1. w[1] \in Nat \ {0}
    BY Staff
  <2> QED BY <2>1, Staff
<1>7. FirstCounted'
  BY <1>1, <1>4, <1>6, FirstStays DEF MarkersCounted
<1>8. ASSUME NEW j \in StageNumbers \ {1} PROVE LaterCounted(j)'
  <2>1. NoMore(j)' => NoMore(j)
    BY <1>1, NotYetEnded
  <2>2. CASE j # k
    <3>1. \A v \in PipelineWorkers : v[1] + 1 = j => v # w
      BY <2>2
    <3> QED BY <1>1, <1>4, <1>5, <2>1, <2>2, <3>1, LaterStays DEF MarkersCounted
  <2>3. CASE j = k
    <3> SUFFICES ASSUME NoMore(k)' PROVE \E v \in PipelineWorkers : \E m \in Nat : Brings(v, k, m)'
      BY <2>3 DEF LaterCounted
    <3>1. PICK v \in PipelineWorkers, m \in Nat : Brings(v, k, m)
      BY <2>1, <2>3 DEF MarkersCounted, LaterCounted
    <3>2. v = w
      <4>1. v[1] + 1 = w[1] + 1 /\ v[1] \in Nat /\ w[1] \in Nat
        BY <3>1, Staff DEF Brings
      <4>2. v[1] = w[1]
        BY <4>1
      <4> QED BY <1>1, <3>1, <4>2 DEF Brings
    <3>3. e = EndMarker
      <4>1. worker[w] # "get"
        BY <1>3, <2>1, <2>3, StageGoesOn DEF Ended
      <4>2. OnlyEnds(putLeft[w])
        BY <1>1, <1>2, <4>1 DEF PipelineLive, PutsInTurn
      <4> QED BY <1>1, <1>3, <4>2, TailOne
    <3>4. MarkersLast(queues[k], m) /\ m + finished[k] + Len(putLeft[w]) = StageWorkers[k]
      BY <3>1, <3>2 DEF Brings
    <3>5. MarkersLast(queues'[k], m + 1)
      BY <1>3, <1>4, <3>3, <3>4, MarkersPut
    <3>6. (m + 1) + finished'[k] + Len(putLeft'[w]) = StageWorkers[k]
      <4>1. Len(Tail(putLeft[w])) = Len(putLeft[w]) - 1 /\ Len(putLeft[w]) \in Nat /\ Len(putLeft[w]) > 0
        BY <1>1, <1>3, HeadTailProperties, EmptySeq, LenProperties DEF Queued
      <4>2. finished'[k] = finished[k] /\ Len(putLeft'[w]) = Len(putLeft[w]) - 1
        BY <1>1, <1>5, <4>1
      <4> DEFINE f == finished[k]
                 p == Len(putLeft[w])
                 all == StageWorkers[k]
      <4>3. f \in Nat /\ p \in Nat /\ m + f + p = all
        BY <1>3, <3>4, <4>1
      <4> HIDE DEF f, p, all
      <4>4. (m + 1) + f + (p - 1) = all
        BY <4>3
      <4> QED BY <4>2, <4>4 DEF f, p, all
    <3>7. \A u \in PipelineWorkers : u[1] = w[1] /\ u # w => putLeft'[u] = <<>>
      BY <1>5, <3>1, <3>2 DEF Brings
    <3>8. Brings(w, k, m + 1)'
      BY <3>5, <3>6, <3>7 DEF Brings, MarkersLast
    <3> QED BY <3>8
  <2> QED BY <2>2, <2>3
<1> QED BY <1>7, <1>8 DEF MarkersCounted

LEMMA StillMarks ==
  ASSUME PipelineInv, pipeline # "raised", MarkersCounted,
         StartPipeline \/ Gathered \/ UNCHANGED pipelineVars \/ \E w \in PipelineWorkers : WorkerReturns(w)
  PROVE  MarkersCounted'
<1>1. UNCHANGED <<queues, finished, endsLeft, putLeft>>
  BY DEF StartPipeline, Gathered, pipelineVars, WorkerReturns
<1>2. \A v \in PipelineWorkers : worker'[v] \in Ended => worker[v] \in Ended
  <2>1. CASE worker' = worker
    BY <2>1
  <2>2. CASE \E w \in PipelineWorkers : WorkerReturns(w)
    <3>1. PICK w \in PipelineWorkers : worker[w] = "ending" /\ worker' = [worker EXCEPT ![w] = "returned"]
      BY <2>2 DEF WorkerReturns
    <3>2. \A v \in PipelineWorkers : v # w => worker'[v] = worker[v]
      BY <3>1, BaseTypes DEF PipelineInv
    <3> QED BY <3>1, <3>2 DEF Ended
  <2> QED BY <2>1, <2>2 DEF StartPipeline, Gathered, pipelineVars
<1>3. \A k \in StageNumbers \ {1} : LaterCounted(k)'
  BY <1>1, <1>2, NotYetEnded, LaterStays DEF MarkersCounted
<1>4. FirstCounted'
  BY <1>1, FirstStays DEF MarkersCounted
<1> QED BY <1>3, <1>4 DEF MarkersCounted

MarkedInv == PipelineInv /\ (pipeline # "raised" => MarkersCounted)

LEMMA MarkedStep == MarkedInv /\ [PipelineNext]_pipelineVars => MarkedInv'
<1> SUFFICES ASSUME MarkedInv, [PipelineNext]_pipelineVars PROVE MarkedInv'
  OBVIOUS
<1>1. PipelineInv /\ PipelineInv' /\ (pipeline # "raised" => MarkersCounted)
  BY PipelineStep DEF MarkedInv
<1> SUFFICES ASSUME pipeline' # "raised" PROVE MarkersCounted'
  BY <1>1 DEF MarkedInv
<1>2. CASE UNCHANGED pipelineVars
  <2>1. pipeline # "raised"
    BY <1>2 DEF pipelineVars
  <2> QED BY <1>1, <1>2, <2>1, StillMarks
<1>3. CASE PipelineNext
  <2>1. ~SourceRaises /\ \A w \in PipelineWorkers : ~HandlerRaises(w)
    BY DEF HandlerRaises, SourceRaises
  <2>2. pipeline # "raised"
    BY <1>3, <2>1 DEF PipelineNext, PipelineGoesOn, WorkerGoesOn, StartPipeline, Produce, ProduceEnd, Gathered,
                      GetEnd, GetItem, Handle, PutNext, WorkerReturns
  <2>3. \/ (\E x \in source : Produce(x)) \/ ProduceEnd
        \/ StartPipeline \/ Gathered \/ \E w \in PipelineWorkers : WorkerReturns(w)
        \/ \E w \in PipelineWorkers : \/ putLeft[w] = <<>> /\ GetEnd(w)
                                      \/ GetItem(w) \/ \E keeps \in BOOLEAN : Handle(w, keeps)
                                      \/ PutNext(w)
    BY <1>3, <2>1 DEF PipelineNext, PipelineGoesOn, WorkerGoesOn
  <2> QED BY <1>1, <2>2, <2>3, ProduceMarks, ItemMarks, GetEndMarks, PutNextMarks, StillMarks
<1> QED BY <1>2, <1>3

LEMMA MarkedStarts == PipelineInit => MarkedInv
<1> SUFFICES ASSUME PipelineInit PROVE MarkedInv
  OBVIOUS
<1>1. queues[1] = <<>> /\ finished[1] = 0 /\ endsLeft = StageWorkers[1] /\ StageWorkers[1] \in Nat
  BY Staff DEF PipelineInit
<1>2. MarkersLast(queues[1], 0)
  BY <1>1 DEF MarkersLast
<1>3. FirstCounted
  BY <1>1, <1>2 DEF FirstCounted
<1>4. ASSUME NEW k \in StageNumbers \ {1} PROVE ~NoMore(k)
  <2>1. k - 1 \in StageNumbers /\ StageWorkers[k - 1] \in Nat \ {0}
    BY Staff
  <2>2. 1 \in 1 .. StageWorkers[k - 1]
    BY <2>1
  <2>3. worker[<<k - 1, 1>>] = "get"
    BY <2>1, <2>2, Staff DEF PipelineInit
  <2> QED BY <2>2, <2>3 DEF NoMore, Ended
<1> QED BY <1>3, <1>4, PipelineStarts DEF MarkedInv, MarkersCounted, LaterCounted

\* A stage all of whose workers took their marker has an empty queue.
LEMMA StageOver ==
  ASSUME MarkedInv, pipeline # "raised", NEW k \in StageNumbers,
         \A w \in PipelineWorkers : w[1] = k => worker[w] \in Ended
  PROVE  queues[k] = <<>> /\ (k = 1 => endsLeft = 0)
<1>1. PipelineBase /\ PipelineLive /\ MarkersCounted /\ queues[k] \in Queued /\ StageWorkers[k] \in Nat \ {0}
  BY BaseTypes, Staff DEF MarkedInv, PipelineInv
<1>2. EndedOf(k) = 1 .. StageWorkers[k] /\ EndedOf(k) # {}
  <2>1. 1 \in 1 .. StageWorkers[k]
    BY <1>1
  <2>2. \A n \in 1 .. StageWorkers[k] : worker[<<k, n>>] \in Ended
    BY Staff
  <2> QED BY <2>1, <2>2 DEF EndedOf
<1>3. finished[k] = StageWorkers[k]
  <2> DEFINE n == StageWorkers[k]
  <2>1. n \in Nat /\ n \in Int /\ 1 \in Int
    BY <1>1
  <2> HIDE DEF n
  <2>2. Cardinality(1 .. n) = IF 1 > n THEN 0 ELSE n - 1 + 1
    BY <2>1, FS_Interval
  <2>3. Cardinality(1 .. n) = n
    BY <2>1, <2>2
  <2> QED BY <1>1, <1>2, <2>3 DEF n, PipelineLive, EndsCounted
<1>4. NoMore(k) /\ OnlyEnds(queues[k])
  BY <1>1, <1>2 DEF PipelineLive, EndsLast
<1>5. ASSUME NEW m \in Nat, MarkersLast(queues[k], m), NEW d \in Nat, m + finished[k] + d = StageWorkers[k]
      PROVE  queues[k] = <<>> /\ d = 0
  <2>1. m = Len(queues[k])
    BY <1>1, <1>4, <1>5, MarkersPut
  <2>2. m = 0 /\ d = 0
    <3> DEFINE n == StageWorkers[k]
    <3>1. n \in Nat /\ m + n + d = n
      BY <1>1, <1>3, <1>5
    <3> HIDE DEF n
    <3> QED BY <3>1
  <2> QED BY <1>1, <2>1, <2>2, EmptySeq DEF Queued
<1>6. CASE k = 1
  <2>1. PICK m \in Nat : MarkersLast(queues[1], m) /\ m + finished[1] + endsLeft = StageWorkers[1]
    BY <1>1 DEF MarkersCounted, FirstCounted
  <2>2. endsLeft \in Nat
    <3>1. endsLeft \in 0 .. StageWorkers[1] /\ StageWorkers[1] \in Nat
      BY <1>1, <1>6, BaseTypes
    <3> QED BY <3>1
  <2> QED BY <1>5, <1>6, <2>1, <2>2
<1>7. CASE k # 1
  <2>1. PICK v \in PipelineWorkers, m \in Nat : Brings(v, k, m)
    BY <1>1, <1>4, <1>7 DEF MarkersCounted, LaterCounted
  <2>2. Len(putLeft[v]) \in Nat
    BY <1>1, BaseTypes, LenProperties DEF Queued
  <2> QED BY <1>5, <1>7, <2>1, <2>2 DEF Brings
<1> QED BY <1>6, <1>7

\* A stage before which all is put, with nothing left in its queue, has ended.
LEMMA StageDry ==
  ASSUME MarkedInv, pipeline # "raised", NEW k \in StageNumbers, queues[k] = <<>>, NoMore(k),
         k = 1 => endsLeft = 0,
         \A w \in PipelineWorkers : w[1] + 1 = k => putLeft[w] = <<>>
  PROVE  \A w \in PipelineWorkers : w[1] = k => worker[w] \in Ended
<1>1. PipelineBase /\ PipelineLive /\ MarkersCounted /\ StageWorkers[k] \in Nat /\ finished[k] \in Nat
  BY BaseTypes, Staff DEF MarkedInv, PipelineInv
<1>2. Len(queues[k]) = 0
  BY EmptySeq
<1>3. finished[k] = StageWorkers[k]
  <2>1. ASSUME NEW m \in Nat, MarkersLast(queues[k], m), m + finished[k] + 0 = StageWorkers[k]
        PROVE  finished[k] = StageWorkers[k]
    <3>1. m = 0
      BY <1>2, <2>1 DEF MarkersLast
    <3> QED BY <1>1, <2>1, <3>1
  <2>2. CASE k = 1
    BY <1>1, <2>1, <2>2 DEF MarkersCounted, FirstCounted
  <2>3. CASE k # 1
    <3>1. PICK v \in PipelineWorkers, m \in Nat : Brings(v, k, m)
      BY <1>1, <2>3 DEF MarkersCounted, LaterCounted
    <3>2. Len(putLeft[v]) = 0
      BY <3>1, EmptySeq DEF Brings
    <3> QED BY <2>1, <3>1, <3>2 DEF Brings
  <2> QED BY <2>2, <2>3
<1>4. EndedOf(k) = 1 .. StageWorkers[k]
  <2> DEFINE n == StageWorkers[k]
             all == 1 .. n
             now == EndedOf(k)
  <2>0. n \in Nat /\ n \in Int /\ 1 \in Int /\ now \subseteq all
    BY <1>1 DEF EndedOf
  <2>1. Cardinality(now) = n
    BY <1>1, <1>3 DEF PipelineLive, EndsCounted
  <2> HIDE DEF n, now
  <2>2. IsFiniteSet(all) /\ Cardinality(all) = IF 1 > n THEN 0 ELSE n - 1 + 1
    BY <2>0, FS_Interval
  <2>3. Cardinality(all) = n
    BY <2>0, <2>2
  <2> HIDE DEF all
  <2>4. now = all
    BY <2>0, <2>1, <2>2, <2>3, FS_Subset
  <2> QED BY <2>4 DEF now, all, n
<1> SUFFICES ASSUME NEW w \in PipelineWorkers, w[1] = k PROVE worker[w] \in Ended
  OBVIOUS
<1>5. w[2] \in 1 .. StageWorkers[k] /\ w = <<k, w[2]>>
  BY Staff
<1> QED BY <1>4, <1>5 DEF EndedOf

(* What the tasks of a run can do next: the producer puts, gather has all    *)
(* its tasks, or a worker gets, handles, puts or returns.                   *)
WorkerCanGoOn(w) ==
  \/ putLeft[w] = <<>> /\ worker[w] = "get" /\ queues[w[1]] # <<>>
  \/ worker[w] \in PipelineItems
  \/ putLeft[w] # <<>> /\ HasRoom(w[1] + 1)
  \/ worker[w] = "ending" /\ putLeft[w] = <<>>
PipelineCanGoOn ==
  \/ (source # {} \/ endsLeft > 0) /\ HasRoom(1)
  \/ endsLeft = 0 /\ \A w \in PipelineWorkers : worker[w] = "returned"
  \/ \E w \in PipelineWorkers : WorkerCanGoOn(w)
PipelineNeverStuck == pipeline = "running" => PipelineCanGoOn

\* Of the workers that still have to put, one is of the latest stage.
LEMMA LatestPuts ==
  ASSUME PipelineBase, NEW w \in PipelineWorkers, putLeft[w] # <<>>
  PROVE  \E v \in PipelineWorkers : /\ putLeft[v] # <<>> /\ v[1] + 1 \in StageNumbers
                                    /\ \A u \in PipelineWorkers : u[1] = v[1] + 1 => putLeft[u] = <<>>
<1> DEFINE Left(v) == FinalStage - v[1]
           T == {Left(v) : v \in {u \in PipelineWorkers : putLeft[u] # <<>>}}
<1>1. \A v \in PipelineWorkers : putLeft[v] # <<>> => v[1] \in Nat /\ v[1] < FinalStage /\ v[1] + 1 \in StageNumbers
  BY Staff DEF PipelineBase, PutsBefore
<1>2. FinalStage \in Nat
  BY Staff
<1>3. T \in SUBSET Nat /\ T # {}
  BY <1>1, <1>2
<1>4. PICK x \in T : \A y \in T : x <= y
  BY <1>3, LeastNatural
<1>5. PICK v \in PipelineWorkers : putLeft[v] # <<>> /\ x = Left(v)
  BY <1>4
<1>6. ASSUME NEW u \in PipelineWorkers, u[1] = v[1] + 1, putLeft[u] # <<>> PROVE FALSE
  <2>1. Left(u) \in T /\ x <= Left(u)
    BY <1>4, <1>6
  <2>2. v[1] \in Nat /\ Left(u) = FinalStage - (v[1] + 1) /\ x = FinalStage - v[1]
    BY <1>1, <1>5, <1>6
  <2> QED BY <1>2, <2>1, <2>2
<1> QED BY <1>1, <1>5, <1>6

LEMMA SomeTaskGoesOn == MarkedInv => PipelineNeverStuck
<1> SUFFICES ASSUME MarkedInv, pipeline = "running", ~PipelineCanGoOn PROVE FALSE
  BY DEF PipelineNeverStuck
<1>1. PipelineBase /\ PipelineLive
  BY DEF MarkedInv, PipelineInv
<1>2. \A k \in StageNumbers : queues[k] = <<>> => HasRoom(k)
  <2>1. \A k \in StageNumbers : QueueSizes[k] \in Nat \ {0}
    BY Staff
  <2> QED BY <2>1, EmptySeq DEF HasRoom
<1>3. \A w \in PipelineWorkers : /\ ~WorkerCanGoOn(w)
                                 /\ worker[w] \in {"get", "ending", "returned"}
                                 /\ putLeft[w] = <<>> => worker[w] \in {"get", "returned"}
  <2>1. \A w \in PipelineWorkers : /\ worker[w] \in PipelineItems \cup {"get", "ending", "returned", "raised"}
                                   /\ worker[w] # "raised" /\ ~WorkerCanGoOn(w)
    BY <1>1, BaseTypes DEF PipelineLive, EndsCounted, PipelineCanGoOn
  <2> QED BY <2>1 DEF WorkerCanGoOn
<1>4. \A w \in PipelineWorkers : putLeft[w] = <<>>
  <2> SUFFICES ASSUME NEW w \in PipelineWorkers, putLeft[w] # <<>> PROVE FALSE
    OBVIOUS
  <2>1. PICK v \in PipelineWorkers : /\ putLeft[v] # <<>> /\ v[1] + 1 \in StageNumbers
                                     /\ \A u \in PipelineWorkers : u[1] = v[1] + 1 => putLeft[u] = <<>>
    BY <1>1, LatestPuts
  <2>2. ~HasRoom(v[1] + 1)
    BY <1>3, <2>1 DEF WorkerCanGoOn
  <2>3. queues[v[1] + 1] # <<>>
    BY <1>2, <2>1, <2>2
  <2>4. \A u \in PipelineWorkers : u[1] = v[1] + 1 => worker[u] = "returned"
    BY <1>3, <2>1, <2>3 DEF WorkerCanGoOn
  <2>5. queues[v[1] + 1] = <<>>
    BY <2>1, <2>4, StageOver DEF Ended
  <2> QED BY <2>3, <2>5
<1>5. \A w \in PipelineWorkers : worker[w] \in {"get", "returned"}
  BY <1>3, <1>4
<1>6. CASE \A w \in PipelineWorkers : worker[w] = "returned"
  <2>1. 1 \in StageNumbers /\ endsLeft = 0
    BY <1>6, Staff, StageOver DEF Ended
  <2> QED BY <1>6, <2>1 DEF PipelineCanGoOn
<1>7. CASE \E w \in PipelineWorkers : worker[w] = "get"
  <2> DEFINE T == {w[1] : w \in {u \in PipelineWorkers : worker[u] = "get"}}
  <2>1. T \in SUBSET Nat /\ T # {}
    BY <1>7, Staff
  <2>2. PICK k \in T : \A y \in T : k <= y
    BY <2>1, LeastNatural
  <2>3. PICK w \in PipelineWorkers : worker[w] = "get" /\ w[1] = k
    BY <2>2
  <2>4. k \in StageNumbers /\ k \in Nat /\ queues[k] = <<>>
    BY <1>3, <1>4, <2>3, Staff DEF WorkerCanGoOn
  <2>5. \A u \in PipelineWorkers : u[1] + 1 = k => worker[u] = "returned"
    <3> SUFFICES ASSUME NEW u \in PipelineWorkers, u[1] + 1 = k, worker[u] = "get" PROVE FALSE
      BY <1>5
    <3>1. u[1] \in T /\ k <= u[1] /\ u[1] \in Nat
      BY <2>2, Staff
    <3> QED BY <3>1
  <2>6. k = 1 => source = {} /\ endsLeft = 0
    <3>1. HasRoom(k)
      BY <1>2, <2>4
    <3>2. endsLeft \in 0 .. StageWorkers[1] /\ StageWorkers[1] \in Nat
      BY <1>1, BaseTypes, Staff
    <3> QED BY <3>1, <3>2 DEF PipelineCanGoOn
  <2>7. NoMore(k)
    <3>1. CASE k = 1
      BY <2>6, <3>1 DEF NoMore
    <3>2. CASE k # 1
      <4>1. k - 1 \in StageNumbers
        BY <2>4, <3>2, Staff
      <4>2. \A n \in 1 .. StageWorkers[k - 1] : /\ <<k - 1, n>> \in PipelineWorkers
                                                /\ <<k - 1, n>>[1] + 1 = k
        BY <2>4, <4>1, Staff
      <4>3. \A n \in 1 .. StageWorkers[k - 1] : worker[<<k - 1, n>>] = "returned"
        BY <2>5, <4>2
      <4> QED BY <3>2, <4>3 DEF NoMore, Ended
    <3> QED BY <3>1, <3>2
  <2>8. worker[w] \in Ended
    BY <1>4, <2>3, <2>4, <2>6, <2>7, StageDry
  <2> QED BY <2>3, <2>8 DEF Ended
<1> QED BY <1>5, <1>6, <1>7

(* Until a handler raises, a task of the pipeline can always go on: for any *)
(* stages, workers, queue sizes and items, full queues and end markers never *)
(* make the tasks wait for each other.                                      *)
THEOREM PipelineKeepsMoving == PipelineSpec => []PipelineNeverStuck
<1>1. PipelineSpec => PipelineInit /\ [][PipelineNext]_pipelineVars
  BY DEF PipelineSpec
<1> QED BY <1>1, MarkedStarts, MarkedStep, SomeTaskGoesOn, PTL

(* A run of a pipeline is finite: the steps an element has before it from   *)
(* each place, an item and a marker alike.                                  *)
PutSteps(k) == 3 * (FinalStage - k)   \* from a worker of stage k that has to put it

\* What a worker has to put, and the markers that may become its to put.
ToPut(w) ==
  Len(putLeft[w])
    + (IF worker[w] \in PipelineItems \cup {"get"} /\ w[1] < FinalStage THEN StageWorkers[w[1] + 1] ELSE 0)

HandSteps(w) ==
  IF worker[w] \in PipelineItems THEN PutSteps(w[1]) + 1
  ELSE IF worker[w] = "ending" THEN 1 ELSE 0

RunSteps == IF pipeline = "idle" THEN 2 ELSE IF pipeline = "running" THEN 1 ELSE 0

PipelinePlaces ==
  ({"source"} \X PipelineItems) \cup {<<"ends", 1>>, <<"run", 1>>} \cup ({"queue"} \X StageNumbers)
    \cup ({"put", "hand"} \X PipelineWorkers)

PipelineLoad ==
  [p \in PipelinePlaces |->
     CASE p[1] = "source" -> IF p[2] \in source THEN PutSteps(0) ELSE 0
       [] p[1] = "ends"   -> endsLeft * PutSteps(0)
       [] p[1] = "queue"  -> Len(queues[p[2]]) * (PutSteps(p[2]) + 2)
       [] p[1] = "put"    -> ToPut(p[2]) * PutSteps(p[2][1])
       [] p[1] = "hand"   -> HandSteps(p[2])
       [] OTHER           -> RunSteps]

PipelineIsFinite == LoadOf(PipelineLoad) \in Nat
PipelineGoesDown == [][LoadOf(PipelineLoad') < LoadOf(PipelineLoad)]_pipelineVars

LEMMA TimesOf ==
  /\ \A n, c \in Nat : n * c \in Nat /\ (n + 1) * c = n * c + c /\ n * 0 = 0
  /\ \A m, n, c \in Nat : m <= n => m * c <= n * c
OBVIOUS

LEMMA PutStepsAre ==
  /\ \A k \in StageNumbers \cup {0} :
       PutSteps(k) \in Nat /\ (k < FinalStage => PutSteps(k) = PutSteps(k + 1) + 3)
  /\ PutSteps(FinalStage) = 0
<1>1. FinalStage \in Nat \ {0} /\ StageNumbers = 1 .. FinalStage
  BY Staff
<1> QED BY <1>1 DEF PutSteps

LEMMA PlacesAreFew == IsFiniteSet(PipelinePlaces)
<1>1. IsFiniteSet(StageNumbers)
  BY Staff, FS_Interval
<1>2. IsFiniteSet(PipelineWorkers)
  <2> DEFINE staff == [k \in StageNumbers |-> {<<k, n>> : n \in 1 .. StageWorkers[k]}]
             staffs == {staff[k] : k \in StageNumbers}
  <2>1. ASSUME NEW k \in StageNumbers PROVE IsFiniteSet(staff[k])
    <3>1. StageWorkers[k] \in Int /\ 1 \in Int
      BY Staff
    <3>2. IsFiniteSet(1 .. StageWorkers[k]) /\ IsFiniteSet({k})
      <4>1. IsFiniteSet(1 .. StageWorkers[k])
        BY <3>1, FS_Interval
      <4> QED BY <4>1, FS_Singleton
    <3>3. IsFiniteSet({k} \X (1 .. StageWorkers[k]))
      BY <3>2, FS_Product
    <3>4. staff[k] = {k} \X (1 .. StageWorkers[k])
      OBVIOUS
    <3> QED BY <3>3, <3>4
  <2>2. staff \in Surjection(StageNumbers, staffs)
    BY DEF Surjection
  <2>3. IsFiniteSet(staffs)
    BY <1>1, <2>2, FS_Surjection
  <2>4. PipelineWorkers = UNION staffs
    BY DEF PipelineWorkers
  <2>5. \A T \in staffs : IsFiniteSet(T)
    BY <2>1
  <2> QED BY <2>3, <2>4, <2>5, FS_UNION
<1>3. IsFiniteSet(PipelineItems)
  BY PipelineAssumption
<1>4. /\ IsFiniteSet({"source"} \X PipelineItems) /\ IsFiniteSet({"queue"} \X StageNumbers)
      /\ IsFiniteSet({"put"} \X PipelineWorkers) /\ IsFiniteSet({"hand"} \X PipelineWorkers)
      /\ IsFiniteSet({<<"ends", 1>>}) /\ IsFiniteSet({<<"run", 1>>})
  BY <1>1, <1>2, <1>3, FS_Singleton, FS_Product
<1>5. PipelinePlaces = ({"source"} \X PipelineItems) \cup ({"queue"} \X StageNumbers)
                       \cup ({"put"} \X PipelineWorkers) \cup ({"hand"} \X PipelineWorkers)
                       \cup {<<"ends", 1>>} \cup {<<"run", 1>>}
  BY DEF PipelinePlaces
<1> QED BY <1>4, <1>5, FS_Union

\* The load of each place, by its kind.
PipelineLoadIs ==
  /\ \A x \in PipelineItems : PipelineLoad[<<"source", x>>] = IF x \in source THEN PutSteps(0) ELSE 0
  /\ PipelineLoad[<<"ends", 1>>] = endsLeft * PutSteps(0)
  /\ \A k \in StageNumbers : PipelineLoad[<<"queue", k>>] = Len(queues[k]) * (PutSteps(k) + 2)
  /\ \A w \in PipelineWorkers : PipelineLoad[<<"put", w>>] = ToPut(w) * PutSteps(w[1])
  /\ \A w \in PipelineWorkers : PipelineLoad[<<"hand", w>>] = HandSteps(w)
  /\ PipelineLoad[<<"run", 1>>] = RunSteps

LEMMA LoadIs == PipelineLoadIs
BY DEF PipelineLoadIs, PipelineLoad, PipelinePlaces

LEMMA PlaceKinds ==
  /\ \A x \in PipelineItems : <<"source", x>> \in PipelinePlaces
  /\ \A k \in StageNumbers : <<"queue", k>> \in PipelinePlaces
  /\ \A w \in PipelineWorkers : <<"put", w>> \in PipelinePlaces /\ <<"hand", w>> \in PipelinePlaces
  /\ <<"ends", 1>> \in PipelinePlaces /\ <<"run", 1>> \in PipelinePlaces
  /\ \A p \in PipelinePlaces :
       \/ \E x \in PipelineItems : p = <<"source", x>>
       \/ \E k \in StageNumbers : p = <<"queue", k>>
       \/ \E w \in PipelineWorkers : p = <<"put", w>> \/ p = <<"hand", w>>
       \/ p = <<"ends", 1>> \/ p = <<"run", 1>>
BY DEF PipelinePlaces

CountsTyped ==
  /\ \A w \in PipelineWorkers : ToPut(w) \in Nat /\ HandSteps(w) \in Nat
  /\ \A k \in StageNumbers : Len(queues[k]) \in Nat
  /\ endsLeft \in Nat /\ RunSteps \in Nat
LoadTyped == PipelineLoad \in [PipelinePlaces -> Nat]

LEMMA CountsAreTyped == PipelineBase => CountsTyped
<1> SUFFICES ASSUME PipelineBase PROVE CountsTyped
  OBVIOUS
<1>1. ASSUME NEW w \in PipelineWorkers PROVE ToPut(w) \in Nat /\ HandSteps(w) \in Nat
  <2>1. Len(putLeft[w]) \in Nat
    <3>1. putLeft[w] \in Queued
      BY BaseTypes
    <3> QED BY <3>1, LenProperties DEF Queued
  <2>2. w[1] \in StageNumbers /\ (w[1] < FinalStage => StageWorkers[w[1] + 1] \in Nat)
    BY Staff
  <2>3. PutSteps(w[1]) \in Nat
    BY <2>2, PutStepsAre
  <2> QED BY <2>1, <2>2, <2>3 DEF ToPut, HandSteps
<1>2. \A k \in StageNumbers : Len(queues[k]) \in Nat
  <2>1. \A k \in StageNumbers : queues[k] \in Queued
    BY BaseTypes
  <2> QED BY <2>1, LenProperties DEF Queued
<1>3. endsLeft \in Nat
  BY BaseTypes, Staff
<1> QED BY <1>1, <1>2, <1>3 DEF CountsTyped, RunSteps

LEMMA LoadIsTyped == PipelineBase => LoadTyped
<1> SUFFICES ASSUME PipelineBase PROVE \A p \in PipelinePlaces : PipelineLoad[p] \in Nat
  BY DEF LoadTyped, PipelineLoad
<1> TAKE p \in PipelinePlaces
<1>1. CountsTyped /\ PipelineLoadIs
  BY CountsAreTyped, LoadIs
<1>2. PutSteps(0) \in Nat /\ \A k \in StageNumbers : PutSteps(k) \in Nat /\ PutSteps(k) + 2 \in Nat
  BY PutStepsAre
<1>3. CASE \E x \in PipelineItems : p = <<"source", x>>
  BY <1>1, <1>2, <1>3 DEF PipelineLoadIs
<1>4. CASE \E k \in StageNumbers : p = <<"queue", k>>
  BY <1>1, <1>2, <1>4, TimesOf DEF PipelineLoadIs, CountsTyped
<1>5. ASSUME NEW w \in PipelineWorkers, p = <<"put", w>> PROVE PipelineLoad[p] \in Nat
  <2>1. ToPut(w) \in Nat /\ PutSteps(w[1]) \in Nat
    BY <1>1, <1>2, Staff DEF CountsTyped
  <2> QED BY <1>1, <1>5, <2>1, TimesOf DEF PipelineLoadIs
<1>6. CASE \E w \in PipelineWorkers : p = <<"hand", w>>
  BY <1>1, <1>6 DEF PipelineLoadIs, CountsTyped
<1>7. CASE p = <<"ends", 1>> \/ p = <<"run", 1>>
  BY <1>1, <1>2, <1>7, TimesOf DEF PipelineLoadIs, CountsTyped
<1> QED BY <1>3, <1>4, <1>5, <1>6, <1>7, PlaceKinds

\* Every place but p and q has no more than before.
LEMMA OthersRest ==
  ASSUME CountsTyped, CountsTyped', PipelineLoadIs, PipelineLoadIs', NEW p, NEW q,
         \A x \in PipelineItems : <<"source", x>> \notin {p, q} => (x \in source' => x \in source),
         <<"ends", 1>> \notin {p, q} => endsLeft' <= endsLeft,
         \A k \in StageNumbers : <<"queue", k>> \notin {p, q} => Len(queues'[k]) <= Len(queues[k]),
         \A w \in PipelineWorkers : <<"put", w>> \notin {p, q} => ToPut(w)' <= ToPut(w),
         \A w \in PipelineWorkers : <<"hand", w>> \notin {p, q} => HandSteps(w)' <= HandSteps(w),
         <<"run", 1>> \notin {p, q} => RunSteps' <= RunSteps
  PROVE  \A r \in PipelinePlaces \ {p, q} : PipelineLoad'[r] <= PipelineLoad[r]
<1> TAKE r \in PipelinePlaces \ {p, q}
<1>1. PutSteps(0) \in Nat /\ \A k \in StageNumbers : PutSteps(k) \in Nat /\ PutSteps(k) + 2 \in Nat
  BY PutStepsAre
<1>2. CASE \E x \in PipelineItems : r = <<"source", x>>
  <2>1. PICK x \in PipelineItems : r = <<"source", x>>
    BY <1>2
  <2>2. PipelineLoad[r] = (IF x \in source THEN PutSteps(0) ELSE 0)
    BY <2>1 DEF PipelineLoadIs
  <2>3. PipelineLoad'[r] = (IF x \in source' THEN PutSteps(0) ELSE 0)
    BY <2>1 DEF PipelineLoadIs
  <2> QED BY <1>1, <2>1, <2>2, <2>3
<1>3. CASE \E k \in StageNumbers : r = <<"queue", k>>
  <2>1. PICK k \in StageNumbers : r = <<"queue", k>>
    BY <1>3
  <2>2. Len(queues'[k]) <= Len(queues[k]) /\ Len(queues'[k]) \in Nat /\ Len(queues[k]) \in Nat
    BY <2>1 DEF CountsTyped
  <2>3. /\ PipelineLoad[r] = Len(queues[k]) * (PutSteps(k) + 2)
        /\ PipelineLoad'[r] = Len(queues'[k]) * (PutSteps(k) + 2)
    BY <2>1 DEF PipelineLoadIs
  <2> QED BY <1>1, <2>2, <2>3, TimesOf
<1>4. ASSUME NEW w \in PipelineWorkers, r = <<"put", w>> PROVE PipelineLoad'[r] <= PipelineLoad[r]
  <2>1. ToPut(w)' <= ToPut(w) /\ ToPut(w)' \in Nat /\ ToPut(w) \in Nat
    BY <1>4 DEF CountsTyped
  <2>2. PipelineLoad[r] = ToPut(w) * PutSteps(w[1]) /\ PipelineLoad'[r] = ToPut(w)' * PutSteps(w[1])
    BY <1>4 DEF PipelineLoadIs
  <2>3. PutSteps(w[1]) \in Nat
    BY <1>1, Staff
  <2> QED BY <2>1, <2>2, <2>3, TimesOf
<1>5. ASSUME NEW w \in PipelineWorkers, r = <<"hand", w>> PROVE PipelineLoad'[r] <= PipelineLoad[r]
  <2>1. HandSteps(w)' <= HandSteps(w)
    BY <1>5
  <2> QED BY <1>5, <2>1 DEF PipelineLoadIs
<1>6. CASE r = <<"ends", 1>>
  <2>1. endsLeft' <= endsLeft /\ endsLeft' \in Nat /\ endsLeft \in Nat
    BY <1>6 DEF CountsTyped
  <2>2. PipelineLoad[r] = endsLeft * PutSteps(0) /\ PipelineLoad'[r] = endsLeft' * PutSteps(0)
    BY <1>6 DEF PipelineLoadIs
  <2> QED BY <1>1, <2>1, <2>2, TimesOf
<1>7. CASE r = <<"run", 1>>
  BY <1>7 DEF PipelineLoadIs
<1> QED BY <1>2, <1>3, <1>4, <1>5, <1>6, <1>7, PlaceKinds

\* The two of LoadMoves and LoadFallsAt, for the load of a pipeline.
LEMMA PipelineMoves ==
  ASSUME LoadTyped, LoadTyped', NEW p \in PipelinePlaces, NEW q \in PipelinePlaces,
         \A r \in PipelinePlaces \ {p, q} : PipelineLoad'[r] <= PipelineLoad[r],
         PipelineLoad'[p] <= PipelineLoad[p],
         PipelineLoad'[p] + PipelineLoad'[q] < PipelineLoad[p] + PipelineLoad[q]
  PROVE  LoadOf(PipelineLoad') < LoadOf(PipelineLoad)
<1>1. PipelineLoad \in [PipelinePlaces -> Nat] /\ PipelineLoad' \in [PipelinePlaces -> Nat]
  BY DEF LoadTyped
<1> QED BY <1>1, PlacesAreFew, LoadMoves

\* An element more, and one less, at a place of so many steps each.
LEMMA TimesOneMore ==
  ASSUME NEW n \in Nat, NEW c \in Nat
  PROVE  (n + 1) * c = n * c + c /\ n * c \in Nat
OBVIOUS

LEMMA OneMoreQueued ==
  ASSUME NEW n \in Nat, NEW c \in Nat
  PROVE  (n + 1) * (c + 2) = n * (c + 2) + (c + 2) /\ n * (c + 2) \in Nat
<1> DEFINE d == c + 2
<1>1. d \in Nat
  OBVIOUS
<1> HIDE DEF d
<1>2. (n + 1) * d = n * d + d /\ n * d \in Nat
  BY <1>1, TimesOneMore
<1> QED BY <1>2 DEF d

Counted == PipelineBase /\ PipelineBase' /\ CountsTyped /\ CountsTyped' /\ LoadTyped /\ LoadTyped'
           /\ PipelineLoadIs /\ PipelineLoadIs'

LEMMA ProduceFalls ==
  ASSUME Counted, NEW x \in source, Produce(x)
  PROVE  LoadOf(PipelineLoad') < LoadOf(PipelineLoad)
<1> DEFINE p == <<"source", x>>
           q == <<"queue", 1>>
<1>1. /\ x \in PipelineItems /\ HasRoom(1) /\ source' = source \ {x}
      /\ queues' = [queues EXCEPT ![1] = Append(queues[1], x)]
      /\ UNCHANGED <<pipeline, endsLeft, worker, putLeft>>
  BY BaseTypes DEF Counted, Produce
<1>2. /\ queues'[1] = Append(queues[1], x) /\ \A j \in StageNumbers : j # 1 => queues'[j] = queues[j]
      /\ Len(queues'[1]) = Len(queues[1]) + 1 /\ Len(queues[1]) \in Nat
  <2>1. queues[1] \in Queued /\ 1 \in StageNumbers
    BY Staff, BaseTypes DEF Counted
  <2> QED BY <1>1, <2>1, QueuePut, AppendOne DEF Counted
<1>3. \A w \in PipelineWorkers : ToPut(w)' = ToPut(w) /\ HandSteps(w)' = HandSteps(w)
  BY <1>1 DEF ToPut, HandSteps
<1>4. RunSteps' = RunSteps
  BY <1>1 DEF RunSteps
<1>5. \A r \in PipelinePlaces \ {p, q} : PipelineLoad'[r] <= PipelineLoad[r]
  <2>1. \A k \in StageNumbers : <<"queue", k>> \notin {p, q} => Len(queues'[k]) <= Len(queues[k])
    BY <1>2 DEF Counted, CountsTyped
  <2>2. /\ endsLeft' <= endsLeft /\ RunSteps' <= RunSteps
        /\ \A w \in PipelineWorkers : ToPut(w)' <= ToPut(w) /\ HandSteps(w)' <= HandSteps(w)
    BY <1>1, <1>3, <1>4 DEF Counted, CountsTyped
  <2>3. \A y \in PipelineItems : y \in source' => y \in source
    BY <1>1
  <2> HIDE DEF p, q
  <2> QED BY <2>1, <2>2, <2>3, OthersRest DEF Counted
<1>6. /\ PipelineLoad[p] = PutSteps(0) /\ PipelineLoad'[p] = 0
      /\ PipelineLoad[q] = Len(queues[1]) * (PutSteps(1) + 2)
      /\ PipelineLoad'[q] = (Len(queues[1]) + 1) * (PutSteps(1) + 2)
  <2>1. /\ PipelineLoad[q] = Len(queues[1]) * (PutSteps(1) + 2)
        /\ PipelineLoad'[q] = Len(queues'[1]) * (PutSteps(1) + 2)
    BY Staff DEF Counted, PipelineLoadIs
  <2>2. /\ PipelineLoad[p] = (IF x \in source THEN PutSteps(0) ELSE 0)
        /\ PipelineLoad'[p] = (IF x \in source' THEN PutSteps(0) ELSE 0)
    BY <1>1 DEF Counted, PipelineLoadIs
  <2> QED BY <1>1, <1>2, <2>1, <2>2
<1>7. PutSteps(0) = PutSteps(1) + 3 /\ PutSteps(1) \in Nat
  <2>1. 0 < FinalStage /\ 0 + 1 = 1
    BY Staff
  <2> QED BY <2>1, Staff, PutStepsAre
<1>8. /\ (Len(queues[1]) + 1) * (PutSteps(1) + 2) = Len(queues[1]) * (PutSteps(1) + 2) + (PutSteps(1) + 2)
      /\ Len(queues[1]) * (PutSteps(1) + 2) \in Nat
  BY <1>2, <1>7, OneMoreQueued
<1>9. p \in PipelinePlaces /\ q \in PipelinePlaces
  BY <1>1, Staff, PlaceKinds
<1>10. /\ PipelineLoad'[p] <= PipelineLoad[p]
       /\ PipelineLoad'[p] + PipelineLoad'[q] < PipelineLoad[p] + PipelineLoad[q]
  BY <1>6, <1>7, <1>8
<1> HIDE DEF p, q
<1> QED BY <1>5, <1>9, <1>10, PipelineMoves DEF Counted

LEMMA ProduceEndFalls ==
  ASSUME Counted, ProduceEnd
  PROVE  LoadOf(PipelineLoad') < LoadOf(PipelineLoad)
<1> DEFINE p == <<"ends", 1>>
           q == <<"queue", 1>>
<1>1. /\ HasRoom(1) /\ endsLeft > 0 /\ endsLeft' = endsLeft - 1 /\ endsLeft \in Nat
      /\ queues' = [queues EXCEPT ![1] = Append(queues[1], EndMarker)]
      /\ UNCHANGED <<pipeline, source, worker, putLeft>>
  BY DEF Counted, CountsTyped, ProduceEnd
<1>2. /\ queues'[1] = Append(queues[1], EndMarker) /\ \A j \in StageNumbers : j # 1 => queues'[j] = queues[j]
      /\ Len(queues'[1]) = Len(queues[1]) + 1 /\ Len(queues[1]) \in Nat
  <2>1. queues[1] \in Queued /\ 1 \in StageNumbers
    BY Staff, BaseTypes DEF Counted
  <2> QED BY <1>1, <2>1, QueuePut, AppendOne DEF Counted
<1>3. \A w \in PipelineWorkers : ToPut(w)' = ToPut(w) /\ HandSteps(w)' = HandSteps(w)
  BY <1>1 DEF ToPut, HandSteps
<1>4. RunSteps' = RunSteps
  BY <1>1 DEF RunSteps
<1>5. \A r \in PipelinePlaces \ {p, q} : PipelineLoad'[r] <= PipelineLoad[r]
  <2>1. \A k \in StageNumbers : <<"queue", k>> \notin {p, q} => Len(queues'[k]) <= Len(queues[k])
    BY <1>2 DEF Counted, CountsTyped
  <2>2. /\ endsLeft' <= endsLeft /\ RunSteps' <= RunSteps
        /\ \A w \in PipelineWorkers : ToPut(w)' <= ToPut(w) /\ HandSteps(w)' <= HandSteps(w)
    BY <1>1, <1>3, <1>4 DEF Counted, CountsTyped
  <2>3. \A y \in PipelineItems : y \in source' => y \in source
    BY <1>1
  <2> HIDE DEF p, q
  <2> QED BY <2>1, <2>2, <2>3, OthersRest DEF Counted
<1>6. /\ PipelineLoad[p] = endsLeft * PutSteps(0) /\ PipelineLoad'[p] = (endsLeft - 1) * PutSteps(0)
      /\ PipelineLoad[q] = Len(queues[1]) * (PutSteps(1) + 2)
      /\ PipelineLoad'[q] = (Len(queues[1]) + 1) * (PutSteps(1) + 2)
  <2>1. /\ PipelineLoad[q] = Len(queues[1]) * (PutSteps(1) + 2)
        /\ PipelineLoad'[q] = Len(queues'[1]) * (PutSteps(1) + 2)
    BY Staff DEF Counted, PipelineLoadIs
  <2>2. PipelineLoad[p] = endsLeft * PutSteps(0) /\ PipelineLoad'[p] = endsLeft' * PutSteps(0)
    BY DEF Counted, PipelineLoadIs
  <2> QED BY <1>1, <1>2, <2>1, <2>2
<1>7. PutSteps(0) = PutSteps(1) + 3 /\ PutSteps(1) \in Nat /\ PutSteps(0) \in Nat
  <2>1. 0 < FinalStage /\ 0 + 1 = 1
    BY Staff
  <2> QED BY <2>1, Staff, PutStepsAre
<1>8. /\ (Len(queues[1]) + 1) * (PutSteps(1) + 2) = Len(queues[1]) * (PutSteps(1) + 2) + (PutSteps(1) + 2)
      /\ Len(queues[1]) * (PutSteps(1) + 2) \in Nat
  BY <1>2, <1>7, OneMoreQueued
<1>9. endsLeft * PutSteps(0) = (endsLeft - 1) * PutSteps(0) + PutSteps(0) /\ (endsLeft - 1) * PutSteps(0) \in Nat
  <2>1. endsLeft - 1 \in Nat /\ (endsLeft - 1) + 1 = endsLeft
    BY <1>1
  <2> QED BY <1>7, <2>1, TimesOneMore
<1>10. p \in PipelinePlaces /\ q \in PipelinePlaces
  BY Staff, PlaceKinds
<1>11. /\ PipelineLoad'[p] <= PipelineLoad[p]
       /\ PipelineLoad'[p] + PipelineLoad'[q] < PipelineLoad[p] + PipelineLoad[q]
  BY <1>6, <1>7, <1>8, <1>9
<1> HIDE DEF p, q
<1> QED BY <1>5, <1>10, <1>11, PipelineMoves DEF Counted

LEMMA GetFalls ==
  ASSUME Counted, NEW w \in PipelineWorkers, putLeft[w] = <<>>, GetEnd(w) \/ GetItem(w)
  PROVE  LoadOf(PipelineLoad') < LoadOf(PipelineLoad)
<1> DEFINE k == w[1]
           p == <<"queue", k>>
           q == <<"hand", w>>
<1>1. /\ k \in StageNumbers /\ queues[k] # <<>> /\ queues' = [queues EXCEPT ![k] = Tail(queues[k])]
      /\ UNCHANGED <<pipeline, source, endsLeft>>
  BY Staff DEF GetEnd, GetItem
<1>2. /\ \A j \in StageNumbers : j # k => queues'[j] = queues[j]
      /\ Len(queues[k]) = Len(queues'[k]) + 1 /\ Len(queues'[k]) \in Nat
      /\ Head(queues[k]) \in PipelineItems \cup {EndMarker}
  <2>1. queues[k] \in Queued /\ queues[k] \in Seq(PipelineItems \cup {EndMarker})
    BY <1>1, BaseTypes DEF Counted, Queued
  <2>2. Len(queues[k]) = Len(Tail(queues[k])) + 1 /\ Len(Tail(queues[k])) \in Nat
    BY <1>1, <2>1, HeadTailProperties, LenProperties
  <2> QED BY <1>1, <2>1, <2>2, QueueGet, TailOne DEF Counted
<1>3. PutSteps(k) \in Nat
  BY <1>1, PutStepsAre
<1>4. /\ \A v \in PipelineWorkers \ {w} : worker'[v] = worker[v] /\ putLeft'[v] = putLeft[v]
      /\ worker[w] = "get" /\ worker'[w] \in PipelineItems \cup {"ending"}
      /\ Len(putLeft'[w]) <= (IF worker'[w] = "ending" /\ k < FinalStage THEN StageWorkers[k + 1] ELSE 0)
      /\ Len(putLeft'[w]) \in Nat /\ Len(putLeft[w]) = 0
  <2>1. /\ worker \in [PipelineWorkers -> PipelineItems \cup {"get", "ending", "returned", "raised"}]
        /\ putLeft \in [PipelineWorkers -> Queued] /\ Len(<<>>) = 0
    BY BaseTypes, EmptySeq DEF Counted
  <2>2. CASE GetEnd(w)
    <3>1. k < FinalStage => StageWorkers[k + 1] \in Nat /\ Len(EndsOf(k + 1)) = StageWorkers[k + 1]
      <4> SUFFICES ASSUME k < FinalStage
                   PROVE  StageWorkers[k + 1] \in Nat /\ Len(EndsOf(k + 1)) = StageWorkers[k + 1]
        OBVIOUS
      <4>1. k + 1 \in StageNumbers /\ StageWorkers[k + 1] \in Nat
        BY <1>1, Staff
      <4>2. EndsOf(k + 1) \in [1 .. StageWorkers[k + 1] -> PipelineItems \cup {EndMarker}]
        BY DEF EndsOf
      <4> QED BY <4>1, <4>2, IsASeq, LenProperties DEF EndsOf
    <3>2. /\ putLeft' = [putLeft EXCEPT ![w] = IF LastOfStage(k) /\ k < FinalStage THEN EndsOf(k + 1) ELSE <<>>]
          /\ worker' = [worker EXCEPT ![w] = "ending"] /\ worker[w] = "get"
      BY <2>2 DEF GetEnd
    <3> QED BY <2>1, <3>1, <3>2
  <2>3. CASE GetItem(w)
    <3>1. worker' = [worker EXCEPT ![w] = Head(queues[k])] /\ worker[w] = "get" /\ putLeft' = putLeft
          /\ Head(queues[k]) \in PipelineItems
      BY <1>2, <2>3 DEF GetItem
    <3>2. "ending" \notin PipelineItems
      BY MarkersApart
    <3> QED BY <2>1, <3>1, <3>2
  <2> QED BY <2>2, <2>3
<1>5. ToPut(w)' <= ToPut(w)
  <2>1. k < FinalStage => StageWorkers[k + 1] \in Nat
    BY <1>1, Staff
  <2>2. ToPut(w) = (IF k < FinalStage THEN StageWorkers[k + 1] ELSE 0)
    BY <1>4, <2>1 DEF ToPut
  <2>3. CASE worker'[w] = "ending"
    <3>1. "ending" \notin PipelineItems \cup {"get"}
      BY MarkersApart
    <3>2. ToPut(w)' = Len(putLeft'[w])
      BY <1>4, <2>3, <3>1 DEF ToPut
    <3> QED BY <1>4, <2>1, <2>2, <2>3, <3>2
  <2>4. CASE worker'[w] # "ending"
    <3>1. Len(putLeft'[w]) = 0
      BY <1>4, <2>4
    <3>2. worker'[w] \in PipelineItems \cup {"get"}
      BY <1>4, <2>4
    <3>3. ToPut(w)' = (IF k < FinalStage THEN StageWorkers[k + 1] ELSE 0)
      BY <2>1, <3>1, <3>2 DEF ToPut
    <3> QED BY <2>1, <2>2, <3>3
  <2> QED BY <2>3, <2>4
<1>6. \A v \in PipelineWorkers \ {w} : ToPut(v)' = ToPut(v) /\ HandSteps(v)' = HandSteps(v)
  BY <1>4 DEF ToPut, HandSteps
<1>7. HandSteps(w) = 0 /\ HandSteps(w)' <= PutSteps(k) + 1 /\ HandSteps(w)' \in Nat
  <2>1. "get" \notin PipelineItems
    BY MarkersApart
  <2> QED BY <1>3, <1>4, <2>1 DEF HandSteps
<1>8. \A r \in PipelinePlaces \ {p, q} : PipelineLoad'[r] <= PipelineLoad[r]
  <2>1. \A j \in StageNumbers : Len(queues'[j]) <= Len(queues[j])
    <3>1. \A j \in StageNumbers : Len(queues[j]) \in Nat
      BY DEF Counted, CountsTyped
    <3> QED BY <1>2, <3>1
  <2>2. \A v \in PipelineWorkers : ToPut(v)' <= ToPut(v)
    BY <1>5, <1>6 DEF Counted, CountsTyped
  <2>3. \A v \in PipelineWorkers : <<"hand", v>> \notin {p, q} => HandSteps(v)' <= HandSteps(v)
    BY <1>6 DEF Counted, CountsTyped
  <2>4. endsLeft' <= endsLeft /\ RunSteps' <= RunSteps
    BY <1>1 DEF Counted, CountsTyped, RunSteps
  <2>5. \A y \in PipelineItems : y \in source' => y \in source
    BY <1>1
  <2> HIDE DEF p, q
  <2> QED BY <2>1, <2>2, <2>3, <2>4, <2>5, OthersRest DEF Counted
<1>9. /\ PipelineLoad[p] = (Len(queues'[k]) + 1) * (PutSteps(k) + 2)
      /\ PipelineLoad'[p] = Len(queues'[k]) * (PutSteps(k) + 2)
      /\ PipelineLoad[q] = 0 /\ PipelineLoad'[q] = HandSteps(w)'
  <2>1. /\ PipelineLoad[p] = Len(queues[k]) * (PutSteps(k) + 2)
        /\ PipelineLoad'[p] = Len(queues'[k]) * (PutSteps(k) + 2)
    BY <1>1 DEF Counted, PipelineLoadIs
  <2>2. PipelineLoad[q] = HandSteps(w) /\ PipelineLoad'[q] = HandSteps(w)'
    BY DEF Counted, PipelineLoadIs
  <2> QED BY <1>2, <1>7, <2>1, <2>2
<1>10. /\ (Len(queues'[k]) + 1) * (PutSteps(k) + 2) = Len(queues'[k]) * (PutSteps(k) + 2) + (PutSteps(k) + 2)
       /\ Len(queues'[k]) * (PutSteps(k) + 2) \in Nat
  BY <1>2, <1>3, OneMoreQueued
<1>11. p \in PipelinePlaces /\ q \in PipelinePlaces
  BY <1>1, PlaceKinds
<1>12. /\ PipelineLoad'[p] <= PipelineLoad[p]
       /\ PipelineLoad'[p] + PipelineLoad'[q] < PipelineLoad[p] + PipelineLoad[q]
  BY <1>3, <1>7, <1>9, <1>10
<1> HIDE DEF p, q
<1> QED BY <1>8, <1>11, <1>12, PipelineMoves DEF Counted

LEMMA HandleFalls ==
  ASSUME Counted, NEW w \in PipelineWorkers, NEW keeps \in BOOLEAN, Handle(w, keeps)
  PROVE  LoadOf(PipelineLoad') < LoadOf(PipelineLoad)
<1> DEFINE k == w[1]
           p == <<"hand", w>>
           q == <<"put", w>>
<1>1. /\ worker[w] \in PipelineItems /\ worker' = [worker EXCEPT ![w] = "get"]
      /\ UNCHANGED <<pipeline, source, endsLeft, queues>>
  BY DEF Handle
<1>2. /\ k \in StageNumbers /\ PutSteps(k) \in Nat /\ (k < FinalStage => StageWorkers[k + 1] \in Nat)
      /\ FinalStage \in Nat /\ k <= FinalStage /\ k \in Nat
  BY Staff, PutStepsAre
<1>3. /\ worker \in [PipelineWorkers -> PipelineItems \cup {"get", "ending", "returned", "raised"}]
      /\ putLeft \in [PipelineWorkers -> Queued] /\ Len(putLeft[w]) \in Nat
  <2>1. putLeft \in [PipelineWorkers -> Queued]
    BY BaseTypes DEF Counted
  <2> QED BY <2>1, BaseTypes, LenProperties DEF Counted, Queued
<1>4. /\ \A v \in PipelineWorkers \ {w} : worker'[v] = worker[v] /\ putLeft'[v] = putLeft[v]
      /\ worker'[w] = "get" /\ Len(putLeft'[w]) \in Nat
      /\ k = FinalStage \/ Len(putLeft'[w]) <= 1
      /\ k = FinalStage => putLeft'[w] = putLeft[w]
  <2>1. CASE k = FinalStage
    <3>1. putLeft' = putLeft
      BY <2>1 DEF Handle
    <3> QED BY <1>1, <1>3, <2>1, <3>1
  <2>2. CASE k # FinalStage
    <3>1. putLeft' = [putLeft EXCEPT ![w] = IF keeps THEN <<worker[w]>> ELSE <<>>]
      BY <2>2 DEF Handle
    <3>2. Len(<<worker[w]>>) = 1 /\ Len(<<>>) = 0
      BY EmptySeq
    <3> QED BY <1>1, <1>3, <2>2, <3>1, <3>2
  <2> QED BY <2>1, <2>2
<1>5. /\ ToPut(w)' <= ToPut(w) + 1 /\ ToPut(w)' \in Nat /\ ToPut(w) \in Nat
      /\ k = FinalStage => ToPut(w)' = ToPut(w)
  <2>1. /\ ToPut(w) = Len(putLeft[w]) + (IF k < FinalStage THEN StageWorkers[k + 1] ELSE 0)
        /\ ToPut(w)' = Len(putLeft'[w]) + (IF k < FinalStage THEN StageWorkers[k + 1] ELSE 0)
    BY <1>1, <1>4 DEF ToPut
  <2>2. PICK c \in Nat : c = (IF k < FinalStage THEN StageWorkers[k + 1] ELSE 0)
    BY <1>2
  <2>3. ToPut(w) = Len(putLeft[w]) + c /\ ToPut(w)' = Len(putLeft'[w]) + c
    BY <2>1, <2>2
  <2>4. Len(putLeft'[w]) <= Len(putLeft[w]) + 1 /\ (k = FinalStage => Len(putLeft'[w]) = Len(putLeft[w]))
    BY <1>3, <1>4
  <2> HIDE DEF k
  <2> QED BY <1>3, <1>4, <2>3, <2>4
<1>6. \A v \in PipelineWorkers \ {w} : ToPut(v)' = ToPut(v) /\ HandSteps(v)' = HandSteps(v)
  BY <1>4 DEF ToPut, HandSteps
<1>7. HandSteps(w) = PutSteps(k) + 1 /\ HandSteps(w)' = 0
  <2>1. "get" \notin PipelineItems
    BY MarkersApart
  <2> QED BY <1>1, <1>4, <2>1 DEF HandSteps
<1>8. \A r \in PipelinePlaces \ {p, q} : PipelineLoad'[r] <= PipelineLoad[r]
  <2>1. \A v \in PipelineWorkers : <<"put", v>> \notin {p, q} => ToPut(v)' <= ToPut(v)
    BY <1>6 DEF Counted, CountsTyped
  <2>2. \A v \in PipelineWorkers : <<"hand", v>> \notin {p, q} => HandSteps(v)' <= HandSteps(v)
    BY <1>6 DEF Counted, CountsTyped
  <2>3. /\ endsLeft' <= endsLeft /\ RunSteps' <= RunSteps
        /\ \A j \in StageNumbers : Len(queues'[j]) <= Len(queues[j])
    BY <1>1 DEF Counted, CountsTyped, RunSteps
  <2>4. \A y \in PipelineItems : y \in source' => y \in source
    BY <1>1
  <2> HIDE DEF p, q
  <2> QED BY <2>1, <2>2, <2>3, <2>4, OthersRest DEF Counted
<1>9. /\ PipelineLoad[p] = PutSteps(k) + 1 /\ PipelineLoad'[p] = 0
      /\ PipelineLoad[q] = ToPut(w) * PutSteps(k) /\ PipelineLoad'[q] = ToPut(w)' * PutSteps(k)
  <2>1. PipelineLoad[p] = HandSteps(w) /\ PipelineLoad'[p] = HandSteps(w)'
    BY DEF Counted, PipelineLoadIs
  <2>2. PipelineLoad[q] = ToPut(w) * PutSteps(k) /\ PipelineLoad'[q] = ToPut(w)' * PutSteps(k)
    BY DEF Counted, PipelineLoadIs
  <2> QED BY <1>7, <2>1, <2>2
<1>10. ToPut(w)' * PutSteps(k) <= ToPut(w) * PutSteps(k) + PutSteps(k)
       /\ ToPut(w)' * PutSteps(k) \in Nat /\ ToPut(w) * PutSteps(k) \in Nat
  <2>1. (ToPut(w) + 1) * PutSteps(k) = ToPut(w) * PutSteps(k) + PutSteps(k)
    BY <1>2, <1>5, TimesOneMore
  <2>2. ToPut(w)' * PutSteps(k) <= (ToPut(w) + 1) * PutSteps(k)
    <3>1. ToPut(w) + 1 \in Nat
      BY <1>5
    <3> QED BY <1>2, <1>5, <3>1, TimesOf
  <2>3. ToPut(w)' * PutSteps(k) \in Nat /\ ToPut(w) * PutSteps(k) \in Nat
    BY <1>2, <1>5, TimesOf
  <2> QED BY <2>1, <2>2, <2>3
<1>11. p \in PipelinePlaces /\ q \in PipelinePlaces
  BY PlaceKinds
<1>12. /\ PipelineLoad'[p] <= PipelineLoad[p]
       /\ PipelineLoad'[p] + PipelineLoad'[q] < PipelineLoad[p] + PipelineLoad[q]
  BY <1>2, <1>9, <1>10
<1> HIDE DEF p, q
<1> QED BY <1>8, <1>11, <1>12, PipelineMoves DEF Counted

LEMMA PutNextFalls ==
  ASSUME Counted, NEW w \in PipelineWorkers, PutNext(w)
  PROVE  LoadOf(PipelineLoad') < LoadOf(PipelineLoad)
<1> DEFINE k == w[1] + 1
           p == <<"put", w>>
           q == <<"queue", k>>
<1>1. /\ putLeft[w] # <<>> /\ HasRoom(k) /\ queues' = [queues EXCEPT ![k] = Append(queues[k], Head(putLeft[w]))]
      /\ putLeft' = [putLeft EXCEPT ![w] = Tail(putLeft[w])]
      /\ UNCHANGED <<pipeline, source, endsLeft, worker>>
  BY DEF PutNext
<1>2. /\ k \in StageNumbers /\ w[1] \in StageNumbers /\ w[1] < FinalStage
      /\ Head(putLeft[w]) \in PipelineItems \cup {EndMarker}
  BY <1>1, Staff, PutBase DEF Counted, PipelineBase, PutsBefore
<1>3. /\ queues'[k] = Append(queues[k], Head(putLeft[w])) /\ \A j \in StageNumbers : j # k => queues'[j] = queues[j]
      /\ Len(queues'[k]) = Len(queues[k]) + 1 /\ Len(queues[k]) \in Nat
  <2>1. queues[k] \in Queued
    BY <1>2, BaseTypes DEF Counted
  <2> QED BY <1>1, <1>2, <2>1, QueuePut, AppendOne DEF Counted
<1>4. /\ \A v \in PipelineWorkers \ {w} : putLeft'[v] = putLeft[v]
      /\ Len(putLeft[w]) = Len(putLeft'[w]) + 1 /\ Len(putLeft'[w]) \in Nat
  <2>1. putLeft \in [PipelineWorkers -> Queued]
    BY BaseTypes DEF Counted
  <2>2. putLeft[w] \in Seq(PipelineItems \cup {EndMarker})
    BY <2>1 DEF Queued
  <2>3. Len(putLeft[w]) = Len(Tail(putLeft[w])) + 1 /\ Len(Tail(putLeft[w])) \in Nat
    BY <1>1, <2>2, HeadTailProperties, LenProperties
  <2> QED BY <1>1, <2>1, <2>3
<1>5. ToPut(w) = ToPut(w)' + 1 /\ ToPut(w)' \in Nat
  <2>1. StageWorkers[w[1] + 1] \in Nat
    BY <1>2, Staff
  <2> QED BY <1>1, <1>4, <2>1 DEF ToPut
<1>6. /\ \A v \in PipelineWorkers \ {w} : ToPut(v)' = ToPut(v)
      /\ \A v \in PipelineWorkers : HandSteps(v)' = HandSteps(v)
  BY <1>1, <1>4 DEF ToPut, HandSteps
<1>7. \A r \in PipelinePlaces \ {p, q} : PipelineLoad'[r] <= PipelineLoad[r]
  <2>1. \A j \in StageNumbers : <<"queue", j>> \notin {p, q} => Len(queues'[j]) <= Len(queues[j])
    BY <1>3 DEF Counted, CountsTyped
  <2>2. \A v \in PipelineWorkers : <<"put", v>> \notin {p, q} => ToPut(v)' <= ToPut(v)
    BY <1>6 DEF Counted, CountsTyped
  <2>3. /\ \A v \in PipelineWorkers : HandSteps(v)' <= HandSteps(v)
        /\ endsLeft' <= endsLeft /\ RunSteps' <= RunSteps
    BY <1>1, <1>6 DEF Counted, CountsTyped, RunSteps
  <2>4. \A y \in PipelineItems : y \in source' => y \in source
    BY <1>1
  <2> HIDE DEF p, q
  <2> QED BY <2>1, <2>2, <2>3, <2>4, OthersRest DEF Counted
<1>8. PutSteps(w[1]) = PutSteps(k) + 3 /\ PutSteps(k) \in Nat
  BY <1>2, PutStepsAre
<1>9. /\ PipelineLoad[p] = (ToPut(w)' + 1) * PutSteps(w[1]) /\ PipelineLoad'[p] = ToPut(w)' * PutSteps(w[1])
      /\ PipelineLoad[q] = Len(queues[k]) * (PutSteps(k) + 2)
      /\ PipelineLoad'[q] = (Len(queues[k]) + 1) * (PutSteps(k) + 2)
  <2>1. PipelineLoad[p] = ToPut(w) * PutSteps(w[1]) /\ PipelineLoad'[p] = ToPut(w)' * PutSteps(w[1])
    BY DEF Counted, PipelineLoadIs
  <2>2. /\ PipelineLoad[q] = Len(queues[k]) * (PutSteps(k) + 2)
        /\ PipelineLoad'[q] = Len(queues'[k]) * (PutSteps(k) + 2)
    BY <1>2 DEF Counted, PipelineLoadIs
  <2> QED BY <1>3, <1>5, <2>1, <2>2
<1>10. /\ (ToPut(w)' + 1) * PutSteps(w[1]) = ToPut(w)' * PutSteps(w[1]) + PutSteps(w[1])
       /\ ToPut(w)' * PutSteps(w[1]) \in Nat
  BY <1>5, <1>8, TimesOneMore
<1>11. /\ (Len(queues[k]) + 1) * (PutSteps(k) + 2) = Len(queues[k]) * (PutSteps(k) + 2) + (PutSteps(k) + 2)
       /\ Len(queues[k]) * (PutSteps(k) + 2) \in Nat
  BY <1>3, <1>8, OneMoreQueued
<1>12. p \in PipelinePlaces /\ q \in PipelinePlaces
  BY <1>2, PlaceKinds
<1>13. /\ PipelineLoad'[p] <= PipelineLoad[p]
       /\ PipelineLoad'[p] + PipelineLoad'[q] < PipelineLoad[p] + PipelineLoad[q]
  BY <1>8, <1>9, <1>10, <1>11
<1> HIDE DEF p, q
<1> QED BY <1>7, <1>12, <1>13, PipelineMoves DEF Counted

\* A task that ends, the run itself, and a handler that raises.
LEMMA TaskFalls ==
  ASSUME Counted, StartPipeline \/ Gathered \/ \E w \in PipelineWorkers : WorkerReturns(w) \/ HandlerRaises(w)
  PROVE  LoadOf(PipelineLoad') < LoadOf(PipelineLoad)
<1>1. UNCHANGED <<source, endsLeft, queues, putLeft>>
  BY DEF StartPipeline, Gathered, WorkerReturns, HandlerRaises
<1>2. /\ \A y \in PipelineItems : y \in source' => y \in source
      /\ endsLeft' <= endsLeft /\ \A j \in StageNumbers : Len(queues'[j]) <= Len(queues[j])
  BY <1>1 DEF Counted, CountsTyped
<1>3. CASE StartPipeline \/ Gathered
  <2> DEFINE p == <<"run", 1>>
  <2>1. worker' = worker /\ RunSteps' < RunSteps
    BY <1>3 DEF StartPipeline, Gathered, RunSteps
  <2>2. \A v \in PipelineWorkers : ToPut(v)' <= ToPut(v) /\ HandSteps(v)' <= HandSteps(v)
    BY <1>1, <2>1 DEF Counted, CountsTyped, ToPut, HandSteps
  <2>3. PipelineLoad[p] = RunSteps /\ PipelineLoad'[p] = RunSteps' /\ p \in PipelinePlaces
    BY PlaceKinds DEF Counted, PipelineLoadIs
  <2>4. RunSteps \in Nat /\ RunSteps' \in Nat
    BY DEF RunSteps
  <2>5. \A r \in PipelinePlaces \ {p, p} : PipelineLoad'[r] <= PipelineLoad[r]
    BY <1>2, <2>2, OthersRest DEF Counted
  <2> HIDE DEF p
  <2> QED BY <2>1, <2>3, <2>4, <2>5, PipelineMoves DEF Counted
<1>4. ASSUME NEW w \in PipelineWorkers, WorkerReturns(w) \/ HandlerRaises(w)
      PROVE  LoadOf(PipelineLoad') < LoadOf(PipelineLoad)
  <2> DEFINE p == <<"hand", w>>
  <2>1. PutSteps(w[1]) \in Nat
    BY Staff, PutStepsAre
  <2>2. /\ \A v \in PipelineWorkers \ {w} : worker'[v] = worker[v]
        /\ worker[w] \in PipelineItems \cup {"ending"} /\ worker'[w] \in {"returned", "raised"}
    <3>1. worker \in [PipelineWorkers -> PipelineItems \cup {"get", "ending", "returned", "raised"}]
      BY BaseTypes DEF Counted
    <3> QED BY <1>4, <3>1 DEF WorkerReturns, HandlerRaises
  <2>3. HandSteps(w)' = 0 /\ HandSteps(w) \in Nat \ {0}
    <3>1. /\ "returned" \notin PipelineItems /\ "raised" \notin PipelineItems /\ "ending" \notin PipelineItems
      BY MarkersApart
    <3> QED BY <2>1, <2>2, <3>1 DEF HandSteps
  <2>4. \A v \in PipelineWorkers \ {w} : ToPut(v)' = ToPut(v) /\ HandSteps(v)' = HandSteps(v)
    BY <1>1, <2>2 DEF ToPut, HandSteps
  <2>5. ToPut(w)' <= ToPut(w)
    <3>1. worker'[w] \notin PipelineItems \cup {"get"}
      BY <2>2, MarkersApart
    <3>2. w[1] < FinalStage => StageWorkers[w[1] + 1] \in Nat
      BY Staff
    <3>3. Len(putLeft[w]) \in Nat
      <4>1. putLeft[w] \in Queued
        BY BaseTypes DEF Counted
      <4> QED BY <4>1, LenProperties DEF Queued
    <3>4. ToPut(w)' = Len(putLeft[w])
      BY <1>1, <3>1, <3>3 DEF ToPut
    <3> QED BY <3>2, <3>3, <3>4 DEF ToPut
  <2>6. RunSteps' <= RunSteps
    BY <1>4 DEF WorkerReturns, HandlerRaises, RunSteps
  <2>7. \A r \in PipelinePlaces \ {p, p} : PipelineLoad'[r] <= PipelineLoad[r]
    <3>1. \A v \in PipelineWorkers : ToPut(v)' <= ToPut(v)
      BY <2>4, <2>5 DEF Counted, CountsTyped
    <3>2. \A v \in PipelineWorkers : <<"hand", v>> \notin {p, p} => HandSteps(v)' <= HandSteps(v)
      BY <2>4 DEF Counted, CountsTyped
    <3> HIDE DEF p
    <3> QED BY <1>2, <2>6, <3>1, <3>2, OthersRest DEF Counted
  <2>8. PipelineLoad[p] = HandSteps(w) /\ PipelineLoad'[p] = HandSteps(w)' /\ p \in PipelinePlaces
    BY PlaceKinds DEF Counted, PipelineLoadIs
  <2>9. PipelineLoad'[p] < PipelineLoad[p] /\ PipelineLoad[p] \in Nat /\ PipelineLoad'[p] \in Nat
    BY <2>3, <2>8
  <2> HIDE DEF p
  <2> QED BY <2>7, <2>8, <2>9, PipelineMoves DEF Counted
<1> QED BY <1>3, <1>4

\* A source that raises takes its items and the markers with it.
LEMMA SourceFalls ==
  ASSUME Counted, SourceRaises
  PROVE  LoadOf(PipelineLoad') < LoadOf(PipelineLoad)
<1> DEFINE p == <<"ends", 1>>
<1>1. /\ source' = {} /\ endsLeft' = 0 /\ endsLeft = StageWorkers[1] /\ endsLeft \in Nat \ {0}
      /\ UNCHANGED <<queues, worker, putLeft>>
  BY Staff DEF SourceRaises
<1>2. /\ \A w \in PipelineWorkers : ToPut(w)' <= ToPut(w) /\ HandSteps(w)' <= HandSteps(w)
      /\ \A k \in StageNumbers : Len(queues'[k]) <= Len(queues[k])
  BY <1>1 DEF Counted, CountsTyped, ToPut, HandSteps
<1>3. RunSteps' <= RunSteps
  BY DEF SourceRaises, RunSteps
<1>4. \A r \in PipelinePlaces \ {p, p} : PipelineLoad'[r] <= PipelineLoad[r]
  <2>1. endsLeft' <= endsLeft /\ \A y \in PipelineItems : y \in source' => y \in source
    BY <1>1
  <2> HIDE DEF p
  <2> QED BY <1>2, <1>3, <2>1, OthersRest DEF Counted
<1>5. PutSteps(0) \in Nat \ {0}
  <2>1. 0 < FinalStage /\ 0 + 1 = 1 /\ 1 \in StageNumbers
    BY Staff
  <2>2. PutSteps(0) = PutSteps(1) + 3 /\ PutSteps(1) \in Nat
    BY <2>1, Staff, PutStepsAre
  <2> QED BY <2>2
<1>6. PipelineLoad[p] = endsLeft * PutSteps(0) /\ PipelineLoad'[p] = 0
  <2>1. PipelineLoad[p] = endsLeft * PutSteps(0) /\ PipelineLoad'[p] = endsLeft' * PutSteps(0)
    BY DEF Counted, PipelineLoadIs
  <2>2. 0 * PutSteps(0) = 0
    BY <1>5
  <2> QED BY <1>1, <2>1, <2>2
<1>7. endsLeft * PutSteps(0) \in Nat /\ endsLeft * PutSteps(0) > 0
  <2>1. endsLeft - 1 \in Nat /\ (endsLeft - 1) + 1 = endsLeft
    BY <1>1
  <2>2. endsLeft * PutSteps(0) = (endsLeft - 1) * PutSteps(0) + PutSteps(0) /\ (endsLeft - 1) * PutSteps(0) \in Nat
    BY <1>5, <2>1, TimesOneMore
  <2> QED BY <1>5, <2>2
<1>8. p \in PipelinePlaces
  BY PlaceKinds
<1>9. PipelineLoad'[p] < PipelineLoad[p] /\ PipelineLoad[p] \in Nat /\ PipelineLoad'[p] \in Nat
  BY <1>6, <1>7
<1> HIDE DEF p
<1> QED BY <1>4, <1>8, <1>9, PipelineMoves DEF Counted

\* Whatever the pipeline does, less is left to do.
LEMMA PipelineFalls ==
  ASSUME Counted, PipelineNext
  PROVE  LoadOf(PipelineLoad') < LoadOf(PipelineLoad)
BY ProduceFalls, ProduceEndFalls, GetFalls, HandleFalls, PutNextFalls, TaskFalls, SourceFalls
DEF PipelineNext, PipelineGoesOn, WorkerGoesOn

(* A pipeline takes finitely many steps, whatever it is given and whether a  *)
(* handler or the source raises: its tasks neither spin nor pass an item     *)
(* round.  With PipelineKeepsMoving, one that nothing ends early returns, as *)
(* long as its tasks are run.                                               *)
THEOREM PipelineRunsOut == PipelineSpec => []PipelineIsFinite /\ PipelineGoesDown
<1>1. PipelineSpec => []PipelineBase
  BY PipelineStarts, PipelineStep, PTL DEF PipelineSpec, PipelineInv
<1>2. PipelineBase => CountsTyped /\ LoadTyped
  BY CountsAreTyped, LoadIsTyped
<1>3. PipelineBase => PipelineIsFinite
  BY LoadIsTyped, PlacesAreFew, LoadCounts DEF LoadTyped, PipelineIsFinite
<1>4. ASSUME Counted, [PipelineNext]_pipelineVars
      PROVE  [LoadOf(PipelineLoad') < LoadOf(PipelineLoad)]_pipelineVars
  BY <1>4, PipelineFalls
<1>5. PipelineLoadIs
  BY LoadIs
<1> QED BY <1>1, <1>2, <1>3, <1>4, <1>5, PTL DEF PipelineSpec, PipelineGoesDown, Counted

------------------------------------------------------------------------------
(* The versions of documents.                                               *)

(* Nothing that was read, batched or stored is newer than what is shown.     *)
NeverAhead ==
  /\ \A d \in Documents : hash[d] <= showing[d]
  /\ \A r \in readItems : r[2] <= showing[r[1]]
  /\ \A r \in DocVersions : batched[r] > 0 => r[2] <= showing[r[1]]

(* Nothing older of the document is on its way.                             *)
IsSettled(d) ==
  /\ hash[d] = showing[d]
  /\ \A r \in DocVersions : r[1] = d => batched[r] = 0
  /\ \A r \in readItems : r[1] = d => r[2] = showing[d]

(* What has settled stays so until the site changes the document: no crawl   *)
(* and no recovery stores it again.                                         *)
StaysSettled == [][\A d \in Documents : IsSettled(d) /\ showing'[d] = showing[d] => IsSettled(d)']_versionVars

LEMMA VersionsTyped ==
  ASSUME VersionsTypeOK
  PROVE  /\ showing \in [Documents -> 0 .. MaxContent] /\ hash \in [Documents -> 0 .. MaxContent]
         /\ readItems \subseteq DocVersions /\ batched \in [DocVersions -> 0 .. MaxBatched]
         /\ MaxContent \in Nat /\ MaxBatched \in Nat
         /\ \A d \in Documents : showing[d] \in 0 .. MaxContent /\ hash[d] \in 0 .. MaxContent
         /\ \A r \in DocVersions : /\ batched[r] \in 0 .. MaxBatched
                                   /\ r[1] \in Documents /\ r[2] \in 1 .. MaxContent /\ r = <<r[1], r[2]>>
<1>1. /\ showing \in [Documents -> 0 .. MaxContent] /\ hash \in [Documents -> 0 .. MaxContent]
      /\ readItems \subseteq DocVersions /\ batched \in [DocVersions -> 0 .. MaxBatched]
      /\ MaxContent \in Nat /\ MaxBatched \in Nat
  BY VersionsAssumption DEF VersionsTypeOK
<1>2. \A r \in DocVersions : r[1] \in Documents /\ r[2] \in 1 .. MaxContent /\ r = <<r[1], r[2]>>
  BY DEF DocVersions
<1> QED BY <1>1, <1>2

(* One version more or less in the batches.                                 *)
LEMMA BatchedCount ==
  ASSUME VersionsTypeOK, NEW r \in DocVersions, NEW n \in 0 .. MaxBatched,
         batched' = [batched EXCEPT ![r] = n]
  PROVE  /\ batched' \in [DocVersions -> 0 .. MaxBatched]
         /\ batched'[r] = n /\ \A q \in DocVersions : q # r => batched'[q] = batched[q]
BY VersionsTyped

LEMMA BufferStep ==
  ASSUME VersionsTypeOK, NeverAhead, NEW r \in DocVersions, BufferVersion(r)
  PROVE  /\ VersionsTypeOK' /\ NeverAhead'
         /\ \A d \in Documents : IsSettled(d) => IsSettled(d)'
<1>1. /\ r \in readItems /\ readItems' = readItems \ {r} /\ showing' = showing /\ hash' = hash
      /\ IF Differs(r) THEN batched[r] < MaxBatched /\ batched' = [batched EXCEPT ![r] = batched[r] + 1]
         ELSE batched' = batched
  BY DEF BufferVersion
<1>2. r[1] \in Documents /\ r[2] <= showing[r[1]]
  BY <1>1, VersionsTyped DEF NeverAhead
<1>3. CASE Differs(r)
  <2>1. batched[r] + 1 \in 0 .. MaxBatched
    <3>1. batched[r] \in 0 .. MaxBatched /\ MaxBatched \in Nat /\ batched[r] < MaxBatched
      BY <1>1, <1>3, VersionsTyped
    <3> QED BY <3>1
  <2>2. batched' \in [DocVersions -> 0 .. MaxBatched] /\ \A q \in DocVersions : q # r => batched'[q] = batched[q]
    BY <1>1, <1>3, <2>1, BatchedCount
  <2>3. VersionsTypeOK' /\ NeverAhead'
    BY <1>1, <1>2, <2>2 DEF VersionsTypeOK, NeverAhead
  <2>4. ~IsSettled(r[1])
    BY <1>1, <1>3 DEF IsSettled, Differs
  <2>5. ASSUME NEW d \in Documents, IsSettled(d) PROVE IsSettled(d)'
    <3>1. d # r[1]
      BY <2>4, <2>5
    <3> QED BY <1>1, <2>2, <2>5, <3>1 DEF IsSettled
  <2> QED BY <2>3, <2>5
<1>4. CASE ~Differs(r)
  <2>1. batched' = batched
    BY <1>1, <1>4
  <2> QED BY <1>1, <2>1 DEF VersionsTypeOK, NeverAhead, IsSettled
<1> QED BY <1>3, <1>4

LEMMA CommitStep ==
  ASSUME VersionsTypeOK, NeverAhead, NEW r \in DocVersions, CommitVersion(r)
  PROVE  /\ VersionsTypeOK' /\ NeverAhead'
         /\ \A d \in Documents : IsSettled(d) => IsSettled(d)'
<1>1. /\ batched[r] > 0 /\ batched' = [batched EXCEPT ![r] = batched[r] - 1]
      /\ hash' = [hash EXCEPT ![r[1]] = r[2]] /\ showing' = showing /\ readItems' = readItems
  BY DEF CommitVersion
<1>2. /\ r[1] \in Documents /\ r[2] \in 1 .. MaxContent /\ r[2] <= showing[r[1]]
      /\ batched[r] \in 0 .. MaxBatched /\ MaxBatched \in Nat /\ MaxContent \in Nat
      /\ hash \in [Documents -> 0 .. MaxContent]
  BY <1>1, VersionsTyped DEF NeverAhead
<1>3. batched[r] - 1 \in 0 .. MaxBatched /\ r[2] \in 0 .. MaxContent
  BY <1>1, <1>2
<1>4. /\ batched' \in [DocVersions -> 0 .. MaxBatched]
      /\ \A q \in DocVersions : q # r => batched'[q] = batched[q]
  BY <1>1, <1>3, BatchedCount
<1>5. /\ hash' \in [Documents -> 0 .. MaxContent] /\ hash'[r[1]] = r[2]
      /\ \A d \in Documents : d # r[1] => hash'[d] = hash[d]
  BY <1>1, <1>2, <1>3
<1>6. VersionsTypeOK'
  BY <1>1, <1>4, <1>5 DEF VersionsTypeOK
<1>7. NeverAhead'
  <2>1. \A d \in Documents : hash'[d] <= showing[d]
    BY <1>2, <1>5 DEF NeverAhead
  <2>2. \A q \in DocVersions : batched'[q] > 0 => q[2] <= showing[q[1]]
    BY <1>2, <1>4 DEF NeverAhead
  <2> QED BY <1>1, <2>1, <2>2 DEF NeverAhead
<1>8. ASSUME NEW d \in Documents, IsSettled(d) PROVE IsSettled(d)'
  <2>1. d # r[1]
    BY <1>1, <1>8 DEF IsSettled
  <2> QED BY <1>1, <1>4, <1>5, <1>8, <2>1 DEF IsSettled
<1> QED BY <1>6, <1>7, <1>8

LEMMA SiteStep ==
  ASSUME VersionsTypeOK, NeverAhead, NEW d \in Documents, Publish(d) \/ ReadPage(d)
  PROVE  /\ VersionsTypeOK' /\ NeverAhead'
         /\ \A c \in Documents : IsSettled(c) /\ showing'[c] = showing[c] => IsSettled(c)'
<1>1. /\ showing \in [Documents -> 0 .. MaxContent] /\ showing[d] \in 0 .. MaxContent /\ MaxContent \in Nat
      /\ readItems \subseteq DocVersions
      /\ \A c \in Documents : showing[c] \in 0 .. MaxContent /\ hash[c] \in 0 .. MaxContent
  BY VersionsTyped
<1>2. CASE Publish(d)
  <2>1. /\ showing[d] < MaxContent /\ showing' = [showing EXCEPT ![d] = showing[d] + 1]
        /\ readItems' = readItems /\ batched' = batched /\ hash' = hash
    BY <1>2 DEF Publish
  <2>2. showing[d] + 1 \in 0 .. MaxContent /\ showing[d] + 1 # showing[d]
    BY <1>1, <2>1
  <2>3. /\ showing' \in [Documents -> 0 .. MaxContent] /\ showing'[d] = showing[d] + 1
        /\ \A c \in Documents : c # d => showing'[c] = showing[c]
    BY <1>1, <2>1, <2>2
  <2>4. VersionsTypeOK'
    BY <2>1, <2>3 DEF VersionsTypeOK
  <2>5. \A c \in Documents : \A n \in 0 .. MaxContent : n <= showing[c] => n <= showing'[c]
    BY <1>1, <2>3
  <2>6. \A r \in DocVersions : r[1] \in Documents /\ r[2] \in 0 .. MaxContent
    BY <1>1 DEF DocVersions
  <2>7. NeverAhead'
    BY <1>1, <2>1, <2>5, <2>6 DEF NeverAhead
  <2> QED BY <2>1, <2>4, <2>7 DEF IsSettled
<1>3. CASE ReadPage(d)
  <2>1. /\ showing[d] # 0 /\ readItems' = readItems \cup {<<d, showing[d]>>}
        /\ showing' = showing /\ batched' = batched /\ hash' = hash
    BY <1>3 DEF ReadPage
  <2>2. <<d, showing[d]>> \in DocVersions /\ showing[d] <= showing[d]
    BY <1>1, <2>1 DEF DocVersions
  <2>3. VersionsTypeOK'
    BY <2>1, <2>2 DEF VersionsTypeOK
  <2>4. NeverAhead'
    BY <2>1, <2>2 DEF NeverAhead
  <2>5. \A c \in Documents : IsSettled(c) => IsSettled(c)'
    BY <2>1 DEF IsSettled
  <2> QED BY <2>3, <2>4, <2>5
<1> QED BY <1>2, <1>3

LEMMA VersionsStep ==
  VersionsTypeOK /\ NeverAhead /\ [VersionsNext]_versionVars =>
    /\ VersionsTypeOK' /\ NeverAhead'
    /\ \A d \in Documents : IsSettled(d) /\ showing'[d] = showing[d] => IsSettled(d)'
<1> SUFFICES ASSUME VersionsTypeOK, NeverAhead, [VersionsNext]_versionVars
             PROVE  /\ VersionsTypeOK' /\ NeverAhead'
                    /\ \A d \in Documents : IsSettled(d) /\ showing'[d] = showing[d] => IsSettled(d)'
  OBVIOUS
<1>1. CASE ReadsLost \/ UNCHANGED versionVars
  <2>1. readItems' \subseteq readItems /\ UNCHANGED <<showing, batched, hash>>
    BY <1>1 DEF ReadsLost, versionVars
  <2> QED BY <2>1 DEF VersionsTypeOK, NeverAhead, IsSettled
<1> QED BY <1>1, SiteStep, BufferStep, CommitStep DEF VersionsNext

LEMMA VersionsStart == VersionsInit => VersionsTypeOK /\ NeverAhead
<1>1. 0 \in 0 .. MaxContent /\ 0 \in 0 .. MaxBatched /\ 0 <= 0 /\ ~(0 > 0)
  BY VersionsAssumption
<1> QED BY <1>1 DEF VersionsInit, VersionsTypeOK, NeverAhead

LEMMA VersionsSafely == VersionsInit /\ [][VersionsNext]_versionVars => [](VersionsTypeOK /\ NeverAhead)
BY VersionsStart, VersionsStep, PTL

(* Every hash of the seen store, and every version a crawl read or a batch  *)
(* holds, is one the site has shown, however often crawls are lost and      *)
(* their batches recovered.                                                 *)
THEOREM VersionsAreSound == VersionsSpec => [](VersionsTypeOK /\ NeverAhead)
BY VersionsSafely, PTL DEF VersionsSpec

(* A document whose newest version is stored, with nothing older in a batch *)
(* or on its way, stays so until the site changes it: no crawl takes it for *)
(* new and no recovery puts an older version over it.                       *)
THEOREM WhatSettledStays == VersionsSpec => StaysSettled
<1>1. VersionsTypeOK /\ NeverAhead /\ [VersionsNext]_versionVars =>
        [\A d \in Documents : IsSettled(d) /\ showing'[d] = showing[d] => IsSettled(d)']_versionVars
  BY VersionsStep
<1>2. VersionsSpec => [][VersionsNext]_versionVars
  BY DEF VersionsSpec
<1> QED BY <1>1, <1>2, VersionsAreSound, PTL DEF StaysSettled

------------------------------------------------------------------------------
(* The sites of a platform run: however many share whatever slots, nobody   *)
(* waits for slots that will not come back, and the report is honest.  The  *)
(* inductive invariant is PlatformInv: an owner has taken the first of its  *)
(* slots, in one order everywhere, and only where its site is at its work.  *)

TakesOf(role) ==
  CASE role = "recovery" ->
         {<< <<"upload", "catalog">>, {} >>, << <<"catalog">>, {"upload"} >>, << <<>>, {"upload", "catalog"} >>}
    [] role = "maintenance" ->
         {<< <<"writer", "upload", "catalog">>, {} >>, << <<"upload", "catalog">>, {"writer"} >>,
          << <<"catalog">>, {"writer", "upload"} >>, << <<>>, {"writer", "upload", "catalog"} >>}
    [] OTHER -> {<< <<>>, {} >>, << <<role>>, {} >>, << <<>>, {role} >>}

WorkplaceOf(role) == IF role \in Stages THEN "crawl" ELSE role

SlotsInOrder ==
  \A o \in SlotOwners :
    IF siteAt[o[1]] = WorkplaceOf(o[2]) THEN <<wants[o], holds[o]>> \in TakesOf(o[2])
    ELSE wants[o] = <<>> /\ holds[o] = {}

SlotsWithinLimit == \A st \in Stages : Cardinality(Active(st)) <= StageLimit[st]

ResultsHonest ==
  \A s \in Sites :
    /\ siteAt[s] = "done" => siteResult[s] # "NONE"
    /\ siteAt[s] # "done" => siteDone[s] < SiteDatasets
    /\ siteResult[s] \in {"SKIPPED", "INTERRUPTED"} => stopped

PlatformTypes ==
  /\ siteAt \in [Sites -> {"off", "queued", "start", "recovery", "preflight", "crawl", "maintenance", "done"}]
  /\ siteResult \in [Sites -> {"NONE", "COMPLETE", "BLOCKED", "FAILED", "INTERRUPTED", "SKIPPED"}]
  /\ siteDone \in [Sites -> 0 .. SiteDatasets] /\ siteWork \in [Sites -> 0 .. MaxStageWork]
  /\ wants \in [SlotOwners -> Seq(Stages)] /\ holds \in [SlotOwners -> SUBSET Stages]
  /\ stopped \in BOOLEAN

PlatformInv == PlatformTypes /\ SlotsInOrder /\ SlotsWithinLimit /\ ResultsHonest

(* Whoever waits, someone gets a slot or is inside and gives them back.     *)
CanAcquire(o) ==
  /\ wants[o] # <<>>
  /\ Cardinality(Active(Head(wants[o]))) < StageLimit[Head(wants[o])]
NoCircularWait ==
  (\E o \in SlotOwners : wants[o] # <<>>) =>
    \E o \in SlotOwners : CanAcquire(o) \/ (Inside(o) /\ siteAt[o[1]] = WorkplaceOf(o[2]))

LEMMA SlotsFollowed ==
  /\ Head(<<"upload", "catalog">>) = "upload" /\ Tail(<<"upload", "catalog">>) = <<"catalog">>
  /\ Head(<<"writer", "upload", "catalog">>) = "writer"
  /\ Tail(<<"writer", "upload", "catalog">>) = <<"upload", "catalog">>
  /\ \A x : Head(<<x>>) = x /\ Tail(<<x>>) = <<>> /\ <<x>> # <<>>
  /\ <<"writer", "upload", "catalog">> # <<>> /\ <<"upload", "catalog">> # <<>>
OBVIOUS

(* What an owner that waits, or has a slot, may hold and want.              *)
LEMMA OwnerCases ==
  ASSUME PlatformInv, NEW o \in SlotOwners
  PROVE  /\ "catalog" \in holds[o] => wants[o] = <<>>
         /\ "upload" \in holds[o] => wants[o] \in {<<>>, <<"catalog">>}
         /\ "writer" \in holds[o] => wants[o] \in {<<>>, <<"catalog">>, <<"upload", "catalog">>}
         /\ wants[o] # <<>> => Head(wants[o]) \in Stages /\ Head(wants[o]) \notin holds[o]
         /\ wants[o] # <<>> \/ holds[o] # {} => siteAt[o[1]] = WorkplaceOf(o[2])
<1>1. o[2] \in {"recovery", "maintenance", "writer", "upload", "catalog"}
  BY DEF SlotOwners, Roles, Stages
<1>2. siteAt[o[1]] # WorkplaceOf(o[2]) => wants[o] = <<>> /\ holds[o] = {}
  BY DEF PlatformInv, SlotsInOrder
<1>3. siteAt[o[1]] = WorkplaceOf(o[2]) => <<wants[o], holds[o]>> \in TakesOf(o[2])
  BY DEF PlatformInv, SlotsInOrder
<1>4. CASE siteAt[o[1]] # WorkplaceOf(o[2])
  BY <1>2, <1>4
<1>5. CASE siteAt[o[1]] = WorkplaceOf(o[2])
  <2>1. CASE o[2] = "recovery"
    BY <1>3, <1>5, <2>1, SlotsFollowed DEF TakesOf, Stages
  <2>2. CASE o[2] = "maintenance"
    BY <1>3, <1>5, <2>2, SlotsFollowed DEF TakesOf, Stages
  <2>3. CASE o[2] \in Stages
    BY <1>3, <1>5, <2>3, SlotsFollowed DEF TakesOf, Stages
  <2> QED BY <1>1, <2>1, <2>2, <2>3 DEF Stages
<1> QED BY <1>4, <1>5

LEMMA HolderExists ==
  ASSUME PlatformInv, NEW st \in Stages, ~ (Cardinality(Active(st)) < StageLimit[st])
  PROVE  \E o \in SlotOwners : st \in holds[o]
<1>1. StageLimit[st] \in Nat \ {0}
  BY PlatformAssumption
<1>2. Active(st) # {}
  <2>1. Cardinality({}) = 0
    BY FS_EmptySet
  <2> QED BY <1>1, <2>1
<1> QED BY <1>2 DEF Active

LEMMA SomeoneGoesOn == PlatformInv => NoCircularWait
<1> SUFFICES ASSUME PlatformInv, NEW a \in SlotOwners, wants[a] # <<>>,
                    ~ \E o \in SlotOwners : CanAcquire(o) \/ (Inside(o) /\ siteAt[o[1]] = WorkplaceOf(o[2]))
             PROVE  FALSE
  BY DEF NoCircularWait
<1>1. \A o \in SlotOwners : holds[o] # {} => wants[o] # <<>>
  BY OwnerCases DEF Inside
<1>2. \A o \in SlotOwners : wants[o] # <<>> => \E b \in SlotOwners : Head(wants[o]) \in holds[b]
  <2> SUFFICES ASSUME NEW o \in SlotOwners, wants[o] # <<>>
               PROVE  \E b \in SlotOwners : Head(wants[o]) \in holds[b]
    OBVIOUS
  <2>1. ~ (Cardinality(Active(Head(wants[o]))) < StageLimit[Head(wants[o])])
    BY DEF CanAcquire
  <2>2. Head(wants[o]) \in Stages
    BY OwnerCases
  <2> QED BY <2>1, <2>2, HolderExists
<1>3. \A o \in SlotOwners : "catalog" \notin holds[o]
  BY <1>1, OwnerCases
<1>4. \A o \in SlotOwners : "upload" \notin holds[o]
  <2> SUFFICES ASSUME NEW o \in SlotOwners, "upload" \in holds[o] PROVE FALSE
    OBVIOUS
  <2>1. wants[o] = <<"catalog">> /\ wants[o] # <<>>
    BY <1>1, OwnerCases
  <2>2. Head(wants[o]) = "catalog"
    BY <2>1, SlotsFollowed
  <2> QED BY <1>2, <1>3, <2>1, <2>2
<1>5. \A o \in SlotOwners : "writer" \notin holds[o]
  <2> SUFFICES ASSUME NEW o \in SlotOwners, "writer" \in holds[o] PROVE FALSE
    OBVIOUS
  <2>1. wants[o] \in {<<"catalog">>, <<"upload", "catalog">>} /\ wants[o] # <<>>
    BY <1>1, OwnerCases
  <2>2. Head(wants[o]) \in {"catalog", "upload"}
    BY <2>1, SlotsFollowed
  <2> QED BY <1>2, <1>3, <1>4, <2>1, <2>2
<1>6. Head(wants[a]) \in {"writer", "upload", "catalog"}
  BY OwnerCases DEF Stages
<1> QED BY <1>2, <1>3, <1>4, <1>5, <1>6

LEMMA OwnersAreFinite == IsFiniteSet(SlotOwners) /\ \A s \in Sites, role \in Roles : <<s, role>> \in SlotOwners
<1>1. IsFiniteSet(Roles)
  <2>1. IsFiniteSet({"recovery"}) /\ IsFiniteSet({"maintenance"})
    BY FS_Singleton
  <2>2. IsFiniteSet({"writer"}) /\ IsFiniteSet({"upload"}) /\ IsFiniteSet({"catalog"})
    BY FS_Singleton
  <2>3. IsFiniteSet({"recovery"} \cup {"maintenance"}) /\ IsFiniteSet({"writer"} \cup {"upload"})
    BY <2>1, <2>2, FS_Union
  <2>4. IsFiniteSet(({"writer"} \cup {"upload"}) \cup {"catalog"})
    BY <2>2, <2>3, FS_Union
  <2>5. IsFiniteSet(({"recovery"} \cup {"maintenance"}) \cup (({"writer"} \cup {"upload"}) \cup {"catalog"}))
    BY <2>3, <2>4, FS_Union
  <2>6. Roles = ({"recovery"} \cup {"maintenance"}) \cup (({"writer"} \cup {"upload"}) \cup {"catalog"})
    BY DEF Roles, Stages
  <2> QED BY <2>5, <2>6
<1> QED BY <1>1, PlatformAssumption, FS_Product DEF SlotOwners

(* Slots are only given back.                                               *)
LEMMA LimitKept ==
  ASSUME PlatformInv, \A o \in SlotOwners : holds'[o] \subseteq holds[o]
  PROVE  SlotsWithinLimit'
<1> SUFFICES ASSUME NEW st \in Stages PROVE Cardinality(Active(st)') <= StageLimit[st]
  BY DEF SlotsWithinLimit
<1> DEFINE before == Active(st)
           after == Active(st)'
<1>1. after \subseteq before
  BY DEF Active
<1>2. before \subseteq SlotOwners
  BY DEF Active
<1>3. IsFiniteSet(before)
  BY <1>2, OwnersAreFinite, FS_Subset
<1>4. Cardinality(before) <= StageLimit[st] /\ StageLimit[st] \in Nat
  BY PlatformAssumption DEF PlatformInv, SlotsWithinLimit
<1> HIDE DEF before, after
<1>5. Cardinality(after) \in Nat /\ Cardinality(before) \in Nat /\ Cardinality(after) <= Cardinality(before)
  BY <1>1, <1>3, FS_Subset, FS_CardinalityType
<1>6. Cardinality(after) <= StageLimit[st]
  BY <1>4, <1>5
<1> QED BY <1>6 DEF after

(* The next slot taken is the next in order.                                *)
LEMMA NextTaken ==
  ASSUME NEW role \in {"recovery", "maintenance", "writer", "upload", "catalog"}, NEW w, NEW h,
         <<w, h>> \in TakesOf(role), w # <<>>
  PROVE  <<Tail(w), h \cup {Head(w)}>> \in TakesOf(role)
<1>1. CASE role = "recovery"
  <2>1. TakesOf(role) = {<< <<"upload", "catalog">>, {} >>, << <<"catalog">>, {"upload"} >>, << <<>>, {"upload", "catalog"} >>}
    BY <1>1 DEF TakesOf
  <2>2. CASE w = <<"upload", "catalog">> /\ h = {}
    <3>1. Tail(w) = <<"catalog">> /\ h \cup {Head(w)} = {"upload"}
      BY <2>2, SlotsFollowed
    <3> QED BY <2>1, <3>1
  <2>3. CASE w = <<"catalog">> /\ h = {"upload"}
    <3>1. Tail(w) = <<>> /\ h \cup {Head(w)} = {"upload", "catalog"}
      BY <2>3, SlotsFollowed
    <3> QED BY <2>1, <3>1
  <2> QED BY <2>1, <2>2, <2>3
<1>2. CASE role = "maintenance"
  <2>1. TakesOf(role) = {<< <<"writer", "upload", "catalog">>, {} >>, << <<"upload", "catalog">>, {"writer"} >>,
                         << <<"catalog">>, {"writer", "upload"} >>, << <<>>, {"writer", "upload", "catalog"} >>}
    BY <1>2 DEF TakesOf
  <2>2. CASE w = <<"writer", "upload", "catalog">> /\ h = {}
    <3>1. Tail(w) = <<"upload", "catalog">> /\ h \cup {Head(w)} = {"writer"}
      BY <2>2, SlotsFollowed
    <3> QED BY <2>1, <3>1
  <2>3. CASE w = <<"upload", "catalog">> /\ h = {"writer"}
    <3>1. Tail(w) = <<"catalog">> /\ h \cup {Head(w)} = {"writer", "upload"}
      BY <2>3, SlotsFollowed
    <3> QED BY <2>1, <3>1
  <2>4. CASE w = <<"catalog">> /\ h = {"writer", "upload"}
    <3>1. Tail(w) = <<>> /\ h \cup {Head(w)} = {"writer", "upload", "catalog"}
      BY <2>4, SlotsFollowed
    <3> QED BY <2>1, <3>1
  <2> QED BY <2>1, <2>2, <2>3, <2>4
<1>3. CASE role \in {"writer", "upload", "catalog"}
  <2>1. TakesOf(role) = {<< <<>>, {} >>, << <<role>>, {} >>, << <<>>, {role} >>}
    BY <1>3 DEF TakesOf
  <2>2. w = <<role>> /\ h = {}
    BY <2>1
  <2>3. Tail(w) = <<>> /\ h \cup {Head(w)} = {role}
    BY <2>2, SlotsFollowed
  <2> QED BY <2>1, <2>3
<1> QED BY <1>1, <1>2, <1>3

LEMMA AcquireStep ==
  ASSUME PlatformInv, NEW o \in SlotOwners, AcquireSlot(o)
  PROVE  PlatformInv'
<1> DEFINE st == Head(wants[o])
<1>1. st \in Stages /\ siteAt[o[1]] = WorkplaceOf(o[2])
  BY OwnerCases DEF AcquireSlot
<1>2. /\ wants[o] # <<>> /\ Cardinality(Active(st)) < StageLimit[st]
      /\ holds' = [holds EXCEPT ![o] = @ \cup {st}] /\ wants' = [wants EXCEPT ![o] = Tail(@)]
      /\ UNCHANGED <<siteAt, siteResult, siteDone, siteWork, stopped>>
  BY DEF AcquireSlot, siteVars
<1>3. PlatformTypes
  BY DEF PlatformInv
<1>4. <<wants[o], holds[o]>> \in TakesOf(o[2]) /\ o[2] \in {"recovery", "maintenance", "writer", "upload", "catalog"}
  BY <1>1 DEF PlatformInv, SlotsInOrder, SlotOwners, Roles, Stages
<1>5. wants'[o] = Tail(wants[o]) /\ holds'[o] = holds[o] \cup {st}
      /\ \A b \in SlotOwners \ {o} : wants'[b] = wants[b] /\ holds'[b] = holds[b]
  BY <1>2, <1>3 DEF PlatformTypes
<1>6. <<Tail(wants[o]), holds[o] \cup {st}>> \in TakesOf(o[2])
  BY <1>2, <1>4, NextTaken
<1>7. Tail(wants[o]) \in Seq(Stages)
  BY <1>2, <1>3 DEF PlatformTypes
<1> HIDE DEF st
<1>8. PlatformTypes'
  BY <1>1, <1>2, <1>3, <1>7 DEF PlatformTypes
<1>9. SlotsInOrder'
  BY <1>1, <1>2, <1>5, <1>6 DEF PlatformInv, SlotsInOrder
<1>10. SlotsWithinLimit'
  <2> SUFFICES ASSUME NEW k \in Stages PROVE Cardinality(Active(k)') <= StageLimit[k]
    BY DEF SlotsWithinLimit
  <2> DEFINE before == Active(k)
             after == Active(k)'
             limit == StageLimit[k]
  <2>1. before \subseteq SlotOwners
    BY DEF Active
  <2>2. IsFiniteSet(before)
    BY <2>1, OwnersAreFinite, FS_Subset
  <2>3. Cardinality(before) <= limit /\ limit \in Nat
    BY PlatformAssumption DEF PlatformInv, SlotsWithinLimit
  <2>4. CASE k = st
    <3>1. after = before \cup {o}
      BY <1>5, <2>4 DEF Active
    <3>2. Cardinality(before) < limit
      BY <1>2, <2>4
    <3> HIDE DEF before, after, limit
    <3>3. Cardinality(before) \in Nat
      BY <2>2, FS_CardinalityType
    <3>4. Cardinality(after) = IF o \in before THEN Cardinality(before) ELSE Cardinality(before) + 1
      BY <2>2, <3>1, FS_AddElement, Zenon
    <3>5. Cardinality(after) <= limit
      BY <2>3, <3>2, <3>3, <3>4
    <3> QED BY <3>5 DEF after, limit
  <2>5. CASE k # st
    <3>1. after = before
      BY <1>5, <2>5 DEF Active
    <3> QED BY <2>3, <3>1
  <2> QED BY <2>4, <2>5
<1>11. ResultsHonest'
  BY <1>2 DEF PlatformInv, ResultsHonest
<1> QED BY <1>8, <1>9, <1>10, <1>11 DEF PlatformInv

LEMMA Workplaces ==
  /\ WorkplaceOf("recovery") = "recovery" /\ WorkplaceOf("maintenance") = "maintenance"
  /\ \A st \in Stages : WorkplaceOf(st) = "crawl"
  /\ \A st \in Stages : << <<>>, {} >> \in TakesOf(st) /\ << <<st>>, {} >> \in TakesOf(st)
  /\ <<RecoverySlots, {}>> \in TakesOf("recovery")
  /\ <<MaintenanceSlots, {}>> \in TakesOf("maintenance")
BY DEF WorkplaceOf, Stages, TakesOf, RecoverySlots, MaintenanceSlots

(* A site's task moves, and the owners of the others keep what they have.   *)
LEMMA MoveKeepsOrder ==
  ASSUME PlatformInv, NEW s \in Sites, NEW to, siteAt' = [siteAt EXCEPT ![s] = to],
         \A o \in SlotOwners : o[1] # s => wants'[o] = wants[o] /\ holds'[o] = holds[o],
         \A role \in Roles :
           IF to = WorkplaceOf(role) THEN <<wants'[<<s, role>>], holds'[<<s, role>>]>> \in TakesOf(role)
           ELSE wants'[<<s, role>>] = <<>> /\ holds'[<<s, role>>] = {}
  PROVE  SlotsInOrder'
<1> SUFFICES ASSUME NEW o \in SlotOwners
             PROVE  IF siteAt'[o[1]] = WorkplaceOf(o[2]) THEN <<wants'[o], holds'[o]>> \in TakesOf(o[2])
                    ELSE wants'[o] = <<>> /\ holds'[o] = {}
  BY DEF SlotsInOrder
<1>1. o[1] \in Sites /\ o[2] \in Roles /\ o = <<o[1], o[2]>>
  BY DEF SlotOwners
<1>2. siteAt \in [Sites -> {"off", "queued", "start", "recovery", "preflight", "crawl", "maintenance", "done"}]
  BY DEF PlatformInv, PlatformTypes
<1>3. CASE o[1] = s
  <2>1. siteAt'[o[1]] = to
    BY <1>2, <1>3
  <2> QED BY <1>1, <1>3, <2>1
<1>4. CASE o[1] # s
  <2>1. siteAt'[o[1]] = siteAt[o[1]] /\ wants'[o] = wants[o] /\ holds'[o] = holds[o]
    BY <1>1, <1>2, <1>4
  <2> QED BY <2>1 DEF PlatformInv, SlotsInOrder
<1> QED BY <1>3, <1>4

(* It moves where nobody works.                                             *)
LEMMA LeavesKeepOrder ==
  ASSUME PlatformInv, NEW s \in Sites, NEW to \in {"queued", "start", "preflight", "done"},
         siteAt' = [siteAt EXCEPT ![s] = to],
         \A o \in SlotOwners : o[1] # s => wants'[o] = wants[o] /\ holds'[o] = holds[o],
         \A role \in Roles : wants'[<<s, role>>] = <<>> /\ holds'[<<s, role>>] = {}
  PROVE  SlotsInOrder'
<1>1. \A role \in Roles : to # WorkplaceOf(role)
  BY Workplaces DEF Roles
<1>2. \A role \in Roles :
        IF to = WorkplaceOf(role) THEN <<wants'[<<s, role>>], holds'[<<s, role>>]>> \in TakesOf(role)
        ELSE wants'[<<s, role>>] = <<>> /\ holds'[<<s, role>>] = {}
  BY <1>1
<1> QED BY <1>2, MoveKeepsOrder

(* An owner that is not at its workplace has and wants nothing.             *)
LEMMA RestsElsewhere ==
  ASSUME PlatformInv, NEW s \in Sites, NEW role \in Roles, siteAt[s] # WorkplaceOf(role)
  PROVE  wants[<<s, role>>] = <<>> /\ holds[<<s, role>>] = {}
<1>1. <<s, role>> \in SlotOwners
  BY OwnersAreFinite
<1> QED BY <1>1 DEF PlatformInv, SlotsInOrder

LEMMA EnterStep ==
  ASSUME PlatformInv, NEW s \in Sites, EnterSite(s)
  PROVE  PlatformInv'
<1>1. PICK to \in {"start", "done"} :
        /\ siteAt' = [siteAt EXCEPT ![s] = to] /\ siteAt[s] = "queued"
        /\ IF to = "done" THEN stopped /\ siteResult' = [siteResult EXCEPT ![s] = "SKIPPED"]
           ELSE siteResult' = siteResult
        /\ UNCHANGED <<siteDone, siteWork, wants, holds, stopped>>
  BY DEF EnterSite, Answers, Moves
<1>2. \A role \in Roles : siteAt[s] # WorkplaceOf(role) /\ to # WorkplaceOf(role)
  BY <1>1, Workplaces DEF Roles
<1>3. SlotsInOrder'
  <2>1. \A role \in Roles : wants'[<<s, role>>] = <<>> /\ holds'[<<s, role>>] = {}
    BY <1>1, <1>2, RestsElsewhere
  <2>2. \A o \in SlotOwners : o[1] # s => wants'[o] = wants[o] /\ holds'[o] = holds[o]
    BY <1>1
  <2> QED BY <1>1, <2>1, <2>2, LeavesKeepOrder
<1>4. SlotsWithinLimit'
  BY <1>1, LimitKept
<1>5. PlatformTypes' /\ ResultsHonest'
  BY <1>1 DEF PlatformInv, PlatformTypes, ResultsHonest
<1> QED BY <1>3, <1>4, <1>5 DEF PlatformInv

LEMMA BeginRecoveryStep ==
  ASSUME PlatformInv, NEW s \in Sites, BeginRecovery(s)
  PROVE  PlatformInv'
<1> DEFINE o == <<s, "recovery">>
<1>1. /\ siteAt[s] = "start" /\ siteAt' = [siteAt EXCEPT ![s] = "recovery"]
      /\ wants' = [wants EXCEPT ![o] = RecoverySlots]
      /\ UNCHANGED <<siteResult, siteDone, siteWork, holds, stopped>>
  BY DEF BeginRecovery, Moves, Asks
<1>2. o \in SlotOwners /\ RecoverySlots \in Seq(Stages)
  <2>1. "recovery" \in Roles
    BY DEF Roles
  <2>2. RecoverySlots \in Seq(Stages)
    BY DEF RecoverySlots, Stages
  <2> QED BY <2>1, <2>2, OwnersAreFinite
<1>3. wants \in [SlotOwners -> Seq(Stages)]
  BY DEF PlatformInv, PlatformTypes
<1>4. \A role \in Roles : siteAt[s] # WorkplaceOf(role)
  BY <1>1, Workplaces DEF Roles
<1>5. ASSUME NEW role \in Roles
      PROVE  IF "recovery" = WorkplaceOf(role)
             THEN <<wants'[<<s, role>>], holds'[<<s, role>>]>> \in TakesOf(role)
             ELSE wants'[<<s, role>>] = <<>> /\ holds'[<<s, role>>] = {}
  <2>1. wants[<<s, role>>] = <<>> /\ holds[<<s, role>>] = {} /\ <<s, role>> \in SlotOwners
    BY <1>4, RestsElsewhere, OwnersAreFinite
  <2>2. CASE role = "recovery"
    BY <1>1, <1>2, <1>3, <2>1, <2>2, Workplaces
  <2>3. CASE role # "recovery"
    <3>1. "recovery" # WorkplaceOf(role)
      BY <2>3, Workplaces DEF Roles
    <3> QED BY <1>1, <1>3, <2>1, <2>3, <3>1
  <2> QED BY <2>2, <2>3
<1>6. \A b \in SlotOwners : b[1] # s => wants'[b] = wants[b] /\ holds'[b] = holds[b]
  BY <1>1, <1>3
<1>7. SlotsInOrder'
  BY <1>1, <1>5, <1>6, MoveKeepsOrder
<1>8. SlotsWithinLimit'
  BY <1>1, LimitKept
<1>9. PlatformTypes' /\ ResultsHonest'
  BY <1>1, <1>2 DEF PlatformInv, PlatformTypes, ResultsHonest
<1> QED BY <1>7, <1>8, <1>9 DEF PlatformInv

LEMMA RecoveryEndsStep ==
  ASSUME PlatformInv, NEW s \in Sites, NEW canContinue \in BOOLEAN, RecoveryEnds(s, canContinue)
  PROVE  PlatformInv'
<1> DEFINE o == <<s, "recovery">>
<1>1. PICK to \in {"preflight", "done"} :
        /\ siteAt' = [siteAt EXCEPT ![s] = to] /\ siteAt[s] = "recovery"
        /\ IF to = "done" THEN \E status \in {"FAILED", "COMPLETE"} : siteResult' = [siteResult EXCEPT ![s] = status]
           ELSE siteResult' = siteResult
        /\ wants[o] = <<>> /\ holds' = [holds EXCEPT ![o] = {}]
        /\ UNCHANGED <<siteDone, siteWork, wants, stopped>>
  BY DEF RecoveryEnds, Answers, Moves, Releases, Inside
<1>2. o \in SlotOwners /\ holds \in [SlotOwners -> SUBSET Stages]
  <2>1. "recovery" \in Roles
    BY DEF Roles
  <2> QED BY <2>1, OwnersAreFinite DEF PlatformInv, PlatformTypes
<1>3. ASSUME NEW role \in Roles PROVE wants'[<<s, role>>] = <<>> /\ holds'[<<s, role>>] = {}
  <2>1. <<s, role>> \in SlotOwners
    BY OwnersAreFinite
  <2>2. CASE role = "recovery"
    BY <1>1, <1>2, <2>2
  <2>3. CASE role # "recovery"
    <3>1. siteAt[s] # WorkplaceOf(role)
      BY <1>1, <2>3, Workplaces DEF Roles
    <3> QED BY <1>1, <1>2, <2>1, <2>3, <3>1, RestsElsewhere
  <2> QED BY <2>2, <2>3
<1>4. \A b \in SlotOwners : b[1] # s => wants'[b] = wants[b] /\ holds'[b] = holds[b]
  BY <1>1, <1>2
<1>5. SlotsInOrder'
  BY <1>1, <1>3, <1>4, LeavesKeepOrder
<1>6. SlotsWithinLimit'
  <2>1. \A b \in SlotOwners : holds'[b] \subseteq holds[b]
    BY <1>1, <1>2
  <2> QED BY <2>1, LimitKept
<1>7. PlatformTypes' /\ ResultsHonest'
  BY <1>1, <1>2 DEF PlatformInv, PlatformTypes, ResultsHonest
<1> QED BY <1>5, <1>6, <1>7 DEF PlatformInv

LEMMA PreflightStep ==
  ASSUME PlatformInv, NEW s \in Sites, NEW access \in Accesses, Preflight(s, access)
  PROVE  PlatformInv'
<1>1. PICK to \in {"crawl", "done"} :
        /\ siteAt' = [siteAt EXCEPT ![s] = to] /\ siteAt[s] = "preflight"
        /\ IF to = "done" THEN \E status \in {"BLOCKED", "FAILED"} : siteResult' = [siteResult EXCEPT ![s] = status]
           ELSE siteResult' = siteResult
        /\ UNCHANGED <<siteDone, siteWork, wants, holds, stopped>>
  BY DEF Preflight, Answers, Moves, Accesses
<1>2. \A role \in Roles : wants'[<<s, role>>] = <<>> /\ holds'[<<s, role>>] = {}
  <2>1. \A role \in Roles : siteAt[s] # WorkplaceOf(role)
    BY <1>1, Workplaces DEF Roles
  <2> QED BY <1>1, <2>1, RestsElsewhere
<1>3. \A b \in SlotOwners : b[1] # s => wants'[b] = wants[b] /\ holds'[b] = holds[b]
  BY <1>1
<1>4. SlotsInOrder'
  <2>1. CASE to = "done"
    BY <1>1, <1>2, <1>3, <2>1, LeavesKeepOrder
  <2>2. CASE to = "crawl"
    <3>1. ASSUME NEW role \in Roles
          PROVE  IF to = WorkplaceOf(role) THEN <<wants'[<<s, role>>], holds'[<<s, role>>]>> \in TakesOf(role)
                 ELSE wants'[<<s, role>>] = <<>> /\ holds'[<<s, role>>] = {}
      <4>1. to = WorkplaceOf(role) => role \in Stages
        BY <2>2, Workplaces DEF Roles
      <4>2. role \in Stages => <<wants'[<<s, role>>], holds'[<<s, role>>]>> \in TakesOf(role)
        BY <1>2, Workplaces
      <4> QED BY <1>2, <4>1, <4>2
    <3> QED BY <1>1, <1>3, <3>1, MoveKeepsOrder
  <2> QED BY <2>1, <2>2
<1>5. SlotsWithinLimit'
  BY <1>1, LimitKept
<1>6. PlatformTypes' /\ ResultsHonest'
  BY <1>1 DEF PlatformInv, PlatformTypes, ResultsHonest
<1> QED BY <1>4, <1>5, <1>6 DEF PlatformInv

LEMMA StageWorkStep ==
  ASSUME PlatformInv, NEW s \in Sites, NEW st \in Stages, StageWork(s, st) \/ StageWorkEnds(s, st)
  PROVE  PlatformInv'
<1> DEFINE o == <<s, st>>
<1>1. o \in SlotOwners /\ st \in Roles
  BY OwnersAreFinite DEF Roles
<1>2. PlatformTypes /\ SlotsInOrder
  BY DEF PlatformInv
<1>3. /\ siteAt[s] = "crawl" /\ UNCHANGED <<siteAt, siteResult, siteDone, stopped>>
      /\ \/ holds[o] = {} /\ holds' = holds /\ wants' = [wants EXCEPT ![o] = <<st>>]
         \/ wants[o] = <<>> /\ wants' = wants /\ holds' = [holds EXCEPT ![o] = {}]
      /\ siteWork' = siteWork \/ (siteWork[s] > 0 /\ siteWork' = [siteWork EXCEPT ![s] = @ - 1])
  BY DEF StageWork, StageWorkEnds, Idle, Inside, Asks, Releases, siteVars
<1>4. /\ <<wants'[o], holds'[o]>> \in TakesOf(st)
      /\ \A b \in SlotOwners \ {o} : wants'[b] = wants[b] /\ holds'[b] = holds[b]
      /\ \A b \in SlotOwners : holds'[b] \subseteq holds[b]
  <2>1. wants \in [SlotOwners -> Seq(Stages)] /\ holds \in [SlotOwners -> SUBSET Stages]
    BY <1>2 DEF PlatformTypes
  <2>2. CASE holds[o] = {} /\ holds' = holds /\ wants' = [wants EXCEPT ![o] = <<st>>]
    <3>1. wants'[o] = <<st>> /\ holds'[o] = {}
      BY <1>1, <2>1, <2>2
    <3> QED BY <1>1, <2>1, <2>2, <3>1, Workplaces
  <2>3. CASE wants[o] = <<>> /\ wants' = wants /\ holds' = [holds EXCEPT ![o] = {}]
    <3>1. wants'[o] = <<>> /\ holds'[o] = {}
      BY <1>1, <2>1, <2>3
    <3> QED BY <1>1, <2>1, <2>3, <3>1, Workplaces
  <2> QED BY <1>3, <2>2, <2>3
<1>5. SlotsInOrder'
  <2> SUFFICES ASSUME NEW b \in SlotOwners
               PROVE  IF siteAt'[b[1]] = WorkplaceOf(b[2]) THEN <<wants'[b], holds'[b]>> \in TakesOf(b[2])
                      ELSE wants'[b] = <<>> /\ holds'[b] = {}
    BY DEF SlotsInOrder
  <2>1. CASE b = o
    <3>1. b[1] = s /\ b[2] = st /\ WorkplaceOf(st) = "crawl"
      BY <2>1, Workplaces
    <3> QED BY <1>3, <1>4, <2>1, <3>1
  <2>2. CASE b # o
    BY <1>2, <1>3, <1>4, <2>2 DEF SlotsInOrder
  <2> QED BY <2>1, <2>2
<1>6. SlotsWithinLimit'
  BY <1>4, LimitKept
<1>7. PlatformTypes'
  <2>1. siteWork' \in [Sites -> 0 .. MaxStageWork]
    <3>1. siteWork \in [Sites -> 0 .. MaxStageWork] /\ MaxStageWork \in Nat
      BY <1>2, PlatformAssumption DEF PlatformTypes
    <3>2. siteWork[s] \in 0 .. MaxStageWork
      BY <3>1
    <3>3. siteWork[s] > 0 => siteWork[s] - 1 \in 0 .. MaxStageWork
      BY <3>1, <3>2
    <3> QED BY <1>3, <3>1, <3>3
  <2>2. <<st>> \in Seq(Stages)
    OBVIOUS
  <2>3. wants' \in [SlotOwners -> Seq(Stages)] /\ holds' \in [SlotOwners -> SUBSET Stages]
    BY <1>2, <1>3, <2>2 DEF PlatformTypes
  <2> QED BY <1>2, <1>3, <2>1, <2>3 DEF PlatformTypes
<1>8. ResultsHonest'
  BY <1>3 DEF PlatformInv, ResultsHonest
<1> QED BY <1>5, <1>6, <1>7, <1>8 DEF PlatformInv


LEMMA DatasetEndsStep ==
  ASSUME PlatformInv, NEW s \in Sites, DatasetEnds(s)
  PROVE  PlatformInv'
<1> DEFINE o == <<s, "maintenance">>
<1>1. o \in SlotOwners /\ MaintenanceSlots \in Seq(Stages)
  <2>1. "maintenance" \in Roles
    BY DEF Roles
  <2>2. MaintenanceSlots \in Seq(Stages)
    BY DEF MaintenanceSlots, Stages
  <2> QED BY <2>1, <2>2, OwnersAreFinite
<1>2. wants \in [SlotOwners -> Seq(Stages)]
  BY DEF PlatformInv, PlatformTypes
<1>3. /\ siteAt[s] = "crawl" /\ \A st \in Stages : wants[<<s, st>>] = <<>> /\ holds[<<s, st>>] = {}
      /\ UNCHANGED <<siteDone, siteWork, holds, stopped>>
      /\ \/ /\ siteAt' = [siteAt EXCEPT ![s] = "done"] /\ wants' = wants
            /\ stopped /\ siteResult' = [siteResult EXCEPT ![s] = "INTERRUPTED"]
         \/ /\ siteAt' = [siteAt EXCEPT ![s] = "maintenance"] /\ siteResult' = siteResult
            /\ wants' = [wants EXCEPT ![o] = MaintenanceSlots]
  BY DEF DatasetEnds, Answers, Moves, Asks, Idle
<1>4. ASSUME NEW role \in Roles PROVE wants[<<s, role>>] = <<>> /\ holds[<<s, role>>] = {}
  <2>1. CASE role \in Stages
    BY <1>3, <2>1
  <2>2. CASE role \notin Stages
    <3>1. siteAt[s] # WorkplaceOf(role)
      BY <1>3, <2>2, Workplaces DEF Roles
    <3> QED BY <3>1, RestsElsewhere
  <2> QED BY <2>1, <2>2
<1>5. \A b \in SlotOwners : b[1] # s => wants'[b] = wants[b] /\ holds'[b] = holds[b]
  BY <1>2, <1>3
<1>6. SlotsInOrder'
  <2>1. CASE siteAt' = [siteAt EXCEPT ![s] = "done"] /\ wants' = wants
    BY <1>3, <1>4, <1>5, <2>1, LeavesKeepOrder
  <2>2. CASE siteAt' = [siteAt EXCEPT ![s] = "maintenance"] /\ wants' = [wants EXCEPT ![o] = MaintenanceSlots]
    <3>1. ASSUME NEW role \in Roles
          PROVE  IF "maintenance" = WorkplaceOf(role)
                 THEN <<wants'[<<s, role>>], holds'[<<s, role>>]>> \in TakesOf(role)
                 ELSE wants'[<<s, role>>] = <<>> /\ holds'[<<s, role>>] = {}
      <4>1. <<s, role>> \in SlotOwners
        BY OwnersAreFinite
      <4>2. CASE role = "maintenance"
        BY <1>1, <1>2, <1>3, <1>4, <2>2, <4>2, Workplaces
      <4>3. CASE role # "maintenance"
        <5>1. "maintenance" # WorkplaceOf(role)
          BY <4>3, Workplaces DEF Roles
        <5> QED BY <1>2, <1>3, <1>4, <2>2, <4>1, <4>3, <5>1
      <4> QED BY <4>2, <4>3
    <3> QED BY <1>5, <2>2, <3>1, MoveKeepsOrder
  <2> QED BY <1>3, <2>1, <2>2
<1>7. SlotsWithinLimit'
  BY <1>3, LimitKept
<1>8. PlatformTypes' /\ ResultsHonest'
  BY <1>1, <1>3 DEF PlatformInv, PlatformTypes, ResultsHonest
<1> QED BY <1>6, <1>7, <1>8 DEF PlatformInv

LEMMA MaintenanceEndsStep ==
  ASSUME PlatformInv, NEW s \in Sites, MaintenanceEnds(s)
  PROVE  PlatformInv'
<1> DEFINE o == <<s, "maintenance">>
<1>1. o \in SlotOwners /\ holds \in [SlotOwners -> SUBSET Stages]
  <2>1. "maintenance" \in Roles
    BY DEF Roles
  <2> QED BY <2>1, OwnersAreFinite DEF PlatformInv, PlatformTypes
<1> DEFINE last == siteDone[s] + 1 = SiteDatasets
           to == IF last \/ stopped THEN "done" ELSE "crawl"
           status == IF stopped /\ ~last THEN "INTERRUPTED" ELSE IF last THEN "COMPLETE" ELSE siteResult[s]
<1>2. /\ siteAt[s] = "maintenance" /\ wants[o] = <<>> /\ holds' = [holds EXCEPT ![o] = {}]
      /\ UNCHANGED <<wants, stopped>>
      /\ siteDone' = [siteDone EXCEPT ![s] = @ + 1] /\ siteWork' = [siteWork EXCEPT ![s] = MaxStageWork]
      /\ siteAt' = [siteAt EXCEPT ![s] = to]
      /\ siteResult' = [siteResult EXCEPT ![s] = status]
  BY DEF MaintenanceEnds, Releases, Inside
<1>3. ASSUME NEW role \in Roles PROVE wants'[<<s, role>>] = <<>> /\ holds'[<<s, role>>] = {}
  <2>1. <<s, role>> \in SlotOwners
    BY OwnersAreFinite
  <2>2. CASE role = "maintenance"
    BY <1>1, <1>2, <2>2
  <2>3. CASE role # "maintenance"
    <3>1. siteAt[s] # WorkplaceOf(role)
      BY <1>2, <2>3, Workplaces DEF Roles
    <3> QED BY <1>1, <1>2, <2>1, <2>3, <3>1, RestsElsewhere
  <2> QED BY <2>2, <2>3
<1>4. \A b \in SlotOwners : b[1] # s => wants'[b] = wants[b] /\ holds'[b] = holds[b]
  BY <1>1, <1>2
<1>5. SlotsWithinLimit'
  <2>1. \A b \in SlotOwners : holds'[b] \subseteq holds[b]
    BY <1>1, <1>2
  <2> QED BY <2>1, LimitKept
<1>6. /\ siteDone \in [Sites -> 0 .. SiteDatasets] /\ SiteDatasets \in Nat \ {0} /\ siteDone[s] < SiteDatasets
      /\ siteWork \in [Sites -> 0 .. MaxStageWork] /\ MaxStageWork \in Nat
  BY <1>2, PlatformAssumption DEF PlatformInv, PlatformTypes, ResultsHonest
<1>7. siteDone[s] \in 0 .. SiteDatasets
  BY <1>6
<1>8. siteDone[s] + 1 \in 0 .. SiteDatasets /\ (~last => siteDone[s] + 1 < SiteDatasets)
  BY <1>6, <1>7
<1>9. /\ siteDone' \in [Sites -> 0 .. SiteDatasets] /\ siteWork' \in [Sites -> 0 .. MaxStageWork]
      /\ siteDone'[s] = siteDone[s] + 1 /\ \A t \in Sites \ {s} : siteDone'[t] = siteDone[t]
  <2>1. MaxStageWork \in 0 .. MaxStageWork
    BY <1>6
  <2> QED BY <1>2, <1>6, <1>8, <2>1
<1>10. to \in {"done", "crawl"} /\ (to = "crawl" => ~last) /\ (to = "done" => status \in {"INTERRUPTED", "COMPLETE"})
       /\ status \in {"INTERRUPTED", "COMPLETE", siteResult[s]} /\ (status = "INTERRUPTED" => stopped \/ siteResult[s] = status)
  OBVIOUS
<1> HIDE DEF to, status, last
<1>11. SlotsInOrder'
  <2>1. CASE to = "done"
    BY <1>2, <1>3, <1>4, <2>1, LeavesKeepOrder
  <2>2. CASE to = "crawl"
    <3>1. ASSUME NEW role \in Roles
          PROVE  IF to = WorkplaceOf(role) THEN <<wants'[<<s, role>>], holds'[<<s, role>>]>> \in TakesOf(role)
                 ELSE wants'[<<s, role>>] = <<>> /\ holds'[<<s, role>>] = {}
      <4>1. to = WorkplaceOf(role) => role \in Stages
        BY <2>2, Workplaces DEF Roles
      <4>2. role \in Stages => <<wants'[<<s, role>>], holds'[<<s, role>>]>> \in TakesOf(role)
        BY <1>3, Workplaces
      <4> QED BY <1>3, <4>1, <4>2
    <3> QED BY <1>2, <1>4, <3>1, MoveKeepsOrder
  <2> QED BY <1>10, <2>1, <2>2
<1>12. PlatformTypes
  BY DEF PlatformInv
<1>13. siteResult[s] \in {"NONE", "COMPLETE", "BLOCKED", "FAILED", "INTERRUPTED", "SKIPPED"}
  BY <1>12 DEF PlatformTypes
<1>14. PlatformTypes'
  BY <1>1, <1>2, <1>9, <1>10, <1>12, <1>13 DEF PlatformTypes
<1>15. ResultsHonest'
  <2> SUFFICES ASSUME NEW t \in Sites
               PROVE  /\ siteAt'[t] = "done" => siteResult'[t] # "NONE"
                      /\ siteAt'[t] # "done" => siteDone'[t] < SiteDatasets
                      /\ siteResult'[t] \in {"SKIPPED", "INTERRUPTED"} => stopped'
    BY DEF ResultsHonest
  <2>1. /\ siteAt[t] = "done" => siteResult[t] # "NONE"
        /\ siteAt[t] # "done" => siteDone[t] < SiteDatasets
        /\ siteResult[t] \in {"SKIPPED", "INTERRUPTED"} => stopped
    BY DEF PlatformInv, ResultsHonest
  <2>2. CASE t = s
    <3>1. siteAt'[t] = to /\ siteResult'[t] = status
      BY <1>2, <1>12, <2>2 DEF PlatformTypes
    <3>2. to # "done" => siteDone'[t] < SiteDatasets
      BY <1>8, <1>9, <1>10, <2>2
    <3> QED BY <1>2, <1>10, <2>1, <2>2, <3>1, <3>2
  <2>3. CASE t # s
    <3>1. siteAt'[t] = siteAt[t] /\ siteResult'[t] = siteResult[t] /\ siteDone'[t] = siteDone[t]
      BY <1>2, <1>9, <1>12, <2>3 DEF PlatformTypes
    <3> QED BY <1>2, <2>1, <3>1
  <2> QED BY <2>2, <2>3
<1> QED BY <1>5, <1>11, <1>14, <1>15 DEF PlatformInv

LEMMA SiteRaisesStep ==
  ASSUME PlatformInv, NEW s \in Sites, NEW waf \in BOOLEAN, SiteRaises(s, waf)
  PROVE  PlatformInv'
<1>1. PICK status \in {"BLOCKED", "INTERRUPTED", "FAILED"} :
        /\ siteAt' = [siteAt EXCEPT ![s] = "done"] /\ siteResult' = [siteResult EXCEPT ![s] = status]
        /\ status = "INTERRUPTED" => stopped
        /\ wants' = [o \in SlotOwners |-> IF o[1] = s THEN <<>> ELSE wants[o]]
        /\ holds' = [o \in SlotOwners |-> IF o[1] = s THEN {} ELSE holds[o]]
        /\ UNCHANGED <<siteDone, siteWork, stopped>>
  BY DEF SiteRaises, Answers
<1>2. \A role \in Roles : wants'[<<s, role>>] = <<>> /\ holds'[<<s, role>>] = {}
  BY <1>1, OwnersAreFinite
<1>3. \A b \in SlotOwners : b[1] # s => wants'[b] = wants[b] /\ holds'[b] = holds[b]
  BY <1>1
<1>4. SlotsInOrder'
  BY <1>1, <1>2, <1>3, LeavesKeepOrder
<1>5. SlotsWithinLimit'
  BY <1>1, LimitKept
<1>6. PlatformTypes
  BY DEF PlatformInv
<1>7. PlatformTypes'
  <2>1. <<>> \in Seq(Stages)
    OBVIOUS
  <2>2. wants' \in [SlotOwners -> Seq(Stages)] /\ holds' \in [SlotOwners -> SUBSET Stages]
    BY <1>1, <1>6, <2>1 DEF PlatformTypes
  <2> QED BY <1>1, <1>6, <2>2 DEF PlatformTypes
<1>8. ResultsHonest'
  BY <1>1, <1>6 DEF PlatformInv, PlatformTypes, ResultsHonest
<1> QED BY <1>4, <1>5, <1>7, <1>8 DEF PlatformInv

LEMMA PlatformBegins == PlatformInit => PlatformInv
<1> SUFFICES ASSUME PlatformInit PROVE PlatformInv
  OBVIOUS
<1>1. PlatformTypes
  <2>1. <<>> \in Seq(Stages)
    OBVIOUS
  <2>2. 0 \in 0 .. SiteDatasets /\ MaxStageWork \in 0 .. MaxStageWork
    BY PlatformAssumption
  <2> QED BY <2>1, <2>2 DEF PlatformInit, PlatformTypes
<1>2. SlotsInOrder
  <2>1. \A o \in SlotOwners : siteAt[o[1]] = "off" /\ WorkplaceOf(o[2]) # "off"
    BY DEF PlatformInit, SlotOwners, Roles, Stages, WorkplaceOf
  <2> QED BY <2>1 DEF PlatformInit, SlotsInOrder
<1>3. SlotsWithinLimit
  <2>1. \A st \in Stages : Active(st) = {}
    BY DEF PlatformInit, Active
  <2>2. \A st \in Stages : StageLimit[st] \in Nat /\ Cardinality({}) = 0
    BY FS_EmptySet, PlatformAssumption
  <2> QED BY <2>1, <2>2 DEF SlotsWithinLimit
<1>4. ResultsHonest
  BY PlatformAssumption DEF PlatformInit, ResultsHonest
<1> QED BY <1>1, <1>2, <1>3, <1>4 DEF PlatformInv

LEMMA StartPlatformStep ==
  ASSUME PlatformInv, StartPlatform
  PROVE  PlatformInv'
<1>1. /\ siteAt' = [s \in Sites |-> "queued"] /\ \A s \in Sites : siteAt[s] = "off"
      /\ UNCHANGED <<siteResult, siteDone, siteWork, wants, holds, stopped>>
  BY DEF StartPlatform
<1>2. \A o \in SlotOwners : o[1] \in Sites /\ WorkplaceOf(o[2]) \notin {"off", "queued"}
  BY DEF SlotOwners, Roles, Stages, WorkplaceOf
<1>3. SlotsInOrder'
  BY <1>1, <1>2 DEF PlatformInv, SlotsInOrder
<1>4. SlotsWithinLimit'
  BY <1>1, LimitKept
<1>5. PlatformTypes' /\ ResultsHonest'
  BY <1>1 DEF PlatformInv, PlatformTypes, ResultsHonest
<1> QED BY <1>3, <1>4, <1>5 DEF PlatformInv

(* Only a stop, or nothing, happens.                                        *)
LEMMA StopStep ==
  ASSUME PlatformInv, UNCHANGED <<siteAt, siteResult, siteDone, siteWork, wants, holds>>,
         stopped' = TRUE \/ stopped' = stopped
  PROVE  PlatformInv'
<1>1. SlotsInOrder'
  BY DEF PlatformInv, SlotsInOrder
<1>2. SlotsWithinLimit'
  BY LimitKept
<1>3. PlatformTypes' /\ ResultsHonest'
  BY DEF PlatformInv, PlatformTypes, ResultsHonest
<1> QED BY <1>1, <1>2, <1>3 DEF PlatformInv

(* Whatever a task does keeps the invariant of the platform.                *)
LEMMA PlatformStep == PlatformInv /\ [PlatformNext]_platformVars => PlatformInv'
<1> SUFFICES ASSUME PlatformInv, [PlatformNext]_platformVars PROVE PlatformInv'
  OBVIOUS
<1>1. CASE StartPlatform
  BY <1>1, StartPlatformStep
<1>2. CASE RequestStop \/ UNCHANGED platformVars
  <2>1. UNCHANGED <<siteAt, siteResult, siteDone, siteWork, wants, holds>> /\ (stopped' = TRUE \/ stopped' = stopped)
    BY <1>2 DEF RequestStop, platformVars, siteVars
  <2> QED BY <2>1, StopStep
<1>3. ASSUME NEW s \in Sites, SiteGoesOn(s) PROVE PlatformInv'
  BY <1>3, EnterStep, BeginRecoveryStep, RecoveryEndsStep, PreflightStep, DatasetEndsStep, MaintenanceEndsStep
  DEF SiteGoesOn
<1>4. ASSUME NEW s \in Sites, NEW st \in Stages, StageWorkEnds(s, st) \/ StageWork(s, st) PROVE PlatformInv'
  BY <1>4, StageWorkStep
<1>5. ASSUME NEW o \in SlotOwners, AcquireSlot(o) PROVE PlatformInv'
  BY <1>5, AcquireStep
<1>6. ASSUME NEW s \in Sites, NEW w \in BOOLEAN, SiteRaises(s, w) PROVE PlatformInv'
  BY <1>6, SiteRaisesStep
<1> QED BY <1>1, <1>2, <1>3, <1>4, <1>5, <1>6 DEF PlatformNext, PlatformGoesOn

LEMMA PlatformInvariant == PlatformInit /\ [][PlatformNext]_platformVars => []PlatformInv
BY PlatformBegins, PlatformStep, PTL

(* While someone waits for a slot of the writer, upload or catalog stage,    *)
(* an owner can take one now or has all it asked for and gives them back:   *)
(* recovery and maintenance nest their slots in one order, so that no sites *)
(* wait for each other in a circle, whatever the limits.                    *)
THEOREM SlotsKeepMoving == PlatformSpec => []NoCircularWait
BY PlatformInvariant, SomeoneGoesOn, PTL DEF PlatformSpec

LEMMA PlatformSafely ==
  PlatformInit /\ [][PlatformNext]_platformVars => [](PlatformTypeOK /\ PlatformHonest /\ NoCircularWait)
<1>1. PlatformInv => PlatformTypeOK
  BY DEF PlatformInv, PlatformTypes, SlotsWithinLimit, PlatformTypeOK
<1>2. PlatformInv => PlatformHonest
  BY DEF PlatformInv, PlatformTypes, ResultsHonest, PlatformHonest, Finished, PlatformSuccess
<1> QED BY <1>1, <1>2, SomeoneGoesOn, PlatformInvariant, PTL

(* A platform run that reports success has completed each site or found it  *)
(* blocked, and only a stop skips or interrupts one; no stage ever has more *)
(* owners than slots.                                                       *)
THEOREM PlatformIsHonest == PlatformSpec => [](PlatformTypeOK /\ PlatformHonest)
BY PlatformSafely, PTL DEF PlatformSpec

------------------------------------------------------------------------------

(* A platform run that is not over has a task whose guard is true: a site   *)
(* that can enter, or whose work is over, an owner that can take a slot or  *)
(* give its slots back.                                                     *)
SiteCanGoOn(s) ==
  \/ siteAt[s] = "queued" /\ Cardinality(Running) < SiteWorkers
  \/ siteAt[s] \in {"start", "preflight"}
  \/ siteAt[s] = "crawl" /\ \A st \in Stages : Idle(<<s, st>>)

PlatformNeverStuck ==
  (\E s \in Sites : siteAt[s] \notin {"off", "done"}) =>
    \/ \E s \in Sites : SiteCanGoOn(s)
    \/ \E o \in SlotOwners : CanAcquire(o) \/ (Inside(o) /\ siteAt[o[1]] = WorkplaceOf(o[2]))

LEMMA RunningGoesOn ==
  ASSUME PlatformInv, NEW s \in Running
  PROVE  \/ SiteCanGoOn(s)
         \/ \E o \in SlotOwners : CanAcquire(o) \/ (Inside(o) /\ siteAt[o[1]] = WorkplaceOf(o[2]))
<1>1. s \in Sites /\ siteAt[s] \in {"start", "recovery", "preflight", "crawl", "maintenance"}
  BY DEF Running, PlatformInv, PlatformTypes
<1>2. CASE siteAt[s] \in {"start", "preflight"}
  BY <1>2 DEF SiteCanGoOn
<1>3. CASE siteAt[s] = "crawl"
  <2>1. CASE \A st \in Stages : Idle(<<s, st>>)
    BY <1>3, <2>1 DEF SiteCanGoOn
  <2>2. ASSUME NEW st \in Stages, ~Idle(<<s, st>>)
        PROVE  \E o \in SlotOwners : CanAcquire(o) \/ (Inside(o) /\ siteAt[o[1]] = WorkplaceOf(o[2]))
    <3>1. <<s, st>> \in SlotOwners /\ WorkplaceOf(st) = "crawl"
      BY <1>1, OwnersAreFinite DEF Roles, WorkplaceOf
    <3>2. wants[<<s, st>>] # <<>> \/ Inside(<<s, st>>)
      BY <2>2 DEF Idle, Inside
    <3> QED BY <1>3, <3>1, <3>2, SomeoneGoesOn DEF NoCircularWait
  <2> QED BY <2>1, <2>2
<1>4. CASE siteAt[s] \in {"recovery", "maintenance"}
  <2> DEFINE o == <<s, siteAt[s]>>
  <2>1. o \in SlotOwners /\ WorkplaceOf(siteAt[s]) = siteAt[s]
    BY <1>1, <1>4, OwnersAreFinite DEF Roles, WorkplaceOf, Stages
  <2>2. <<wants[o], holds[o]>> \in TakesOf(siteAt[s])
    BY <2>1 DEF PlatformInv, SlotsInOrder
  <2>3. wants[o] # <<>> \/ Inside(o)
    BY <1>4, <2>2 DEF TakesOf, Inside
  <2> QED BY <2>1, <2>3, SomeoneGoesOn DEF NoCircularWait
<1> QED BY <1>1, <1>2, <1>3, <1>4

LEMMA SomeSiteGoesOn == PlatformInv => PlatformNeverStuck
<1> SUFFICES ASSUME PlatformInv, NEW s \in Sites, siteAt[s] \notin {"off", "done"}
             PROVE  \/ \E t \in Sites : SiteCanGoOn(t)
                    \/ \E o \in SlotOwners : CanAcquire(o) \/ (Inside(o) /\ siteAt[o[1]] = WorkplaceOf(o[2]))
  BY DEF PlatformNeverStuck
<1>1. CASE Running # {}
  BY <1>1, RunningGoesOn DEF Running
<1>2. CASE Running = {}
  <2>1. siteAt[s] = "queued"
    BY <1>2 DEF Running
  <2>2. Cardinality(Running) = 0 /\ SiteWorkers \in Nat \ {0}
    BY <1>2, FS_EmptySet, PlatformAssumption
  <2> QED BY <2>1, <2>2 DEF SiteCanGoOn
<1> QED BY <1>1, <1>2

(* A platform run keeps moving: until every site has answered, a task can go *)
(* on, with any number of sites, workers and slots, after any failures.     *)
THEOREM PlatformKeepsMoving == PlatformSpec => []PlatformNeverStuck
BY PlatformInvariant, SomeSiteGoesOn, PTL DEF PlatformSpec

(* And it is finite: the steps the task of a site and the owners of slots    *)
(* have before them.                                                        *)
DatasetSteps == 3 * MaxStageWork + 6
SitePlace(s) ==
  CASE siteAt[s] = "off" -> 14
    [] siteAt[s] = "queued" -> 13
    [] siteAt[s] = "start" -> 12
    [] siteAt[s] = "recovery" -> 8
    [] siteAt[s] = "preflight" -> 7
    [] siteAt[s] = "crawl" -> 6
    [] OTHER -> 1
SiteSteps(s) ==
  IF siteAt[s] = "done" THEN 0
  ELSE SitePlace(s) + 3 * siteWork[s] + (SiteDatasets - siteDone[s]) * DatasetSteps
OwnerSteps(o) == Len(wants[o]) + (IF Idle(o) THEN 0 ELSE 1)
StopSteps == IF stopped THEN 0 ELSE 1

PlatformPlaces == ({"site"} \X Sites) \cup ({"owner"} \X SlotOwners) \cup {<<"stop", 1>>}
PlatformLoad ==
  [p \in PlatformPlaces |->
     CASE p[1] = "site" -> SiteSteps(p[2])
       [] p[1] = "owner" -> OwnerSteps(p[2])
       [] OTHER -> StopSteps]

PlatformIsFinite == LoadOf(PlatformLoad) \in Nat
PlatformGoesDown == [][LoadOf(PlatformLoad') < LoadOf(PlatformLoad)]_platformVars

PlatformLoadIs ==
  /\ \A s \in Sites : PlatformLoad[<<"site", s>>] = SiteSteps(s)
  /\ \A o \in SlotOwners : PlatformLoad[<<"owner", o>>] = OwnerSteps(o)
  /\ PlatformLoad[<<"stop", 1>>] = StopSteps
StepsTyped ==
  /\ \A s \in Sites : SiteSteps(s) \in Nat
  /\ \A o \in SlotOwners : OwnerSteps(o) \in Nat
  /\ StopSteps \in Nat
PlatformLoadTyped == PlatformLoad \in [PlatformPlaces -> Nat]

LEMMA PlatformPlacesAre ==
  /\ IsFiniteSet(PlatformPlaces)
  /\ \A s \in Sites : <<"site", s>> \in PlatformPlaces
  /\ \A o \in SlotOwners : <<"owner", o>> \in PlatformPlaces
  /\ <<"stop", 1>> \in PlatformPlaces
  /\ \A p \in PlatformPlaces : \/ \E s \in Sites : p = <<"site", s>>
                               \/ \E o \in SlotOwners : p = <<"owner", o>>
                               \/ p = <<"stop", 1>>
<1>1. IsFiniteSet({"site"} \X Sites) /\ IsFiniteSet({"owner"} \X SlotOwners) /\ IsFiniteSet({<<"stop", 1>>})
  <2>1. IsFiniteSet({"site"}) /\ IsFiniteSet({"owner"}) /\ IsFiniteSet({<<"stop", 1>>})
    BY FS_Singleton
  <2> QED BY <2>1, PlatformAssumption, OwnersAreFinite, FS_Product
<1>2. IsFiniteSet(({"site"} \X Sites) \cup ({"owner"} \X SlotOwners))
  BY <1>1, FS_Union
<1>3. IsFiniteSet(PlatformPlaces)
  BY <1>1, <1>2, FS_Union DEF PlatformPlaces
<1> QED BY <1>3 DEF PlatformPlaces

LEMMA PlatformLoads == PlatformLoadIs
BY DEF PlatformLoadIs, PlatformLoad, PlatformPlaces

\* The datasets a site has left, n of them, of so many steps each.
LEMMA DatasetsLeft ==
  /\ DatasetSteps \in Nat
  /\ \A n \in Nat : n * DatasetSteps \in Nat /\ (n + 1) * DatasetSteps = n * DatasetSteps + DatasetSteps
<1>1. DatasetSteps \in Nat
  BY PlatformAssumption DEF DatasetSteps
<1> QED BY <1>1, TimesOneMore

LEMMA StepsAreTyped == PlatformInv => StepsTyped
<1> SUFFICES ASSUME PlatformInv PROVE StepsTyped
  OBVIOUS
<1>1. ASSUME NEW s \in Sites PROVE SiteSteps(s) \in Nat
  <2>1. siteWork[s] \in Nat /\ siteDone[s] \in 0 .. SiteDatasets /\ SiteDatasets \in Nat
    BY PlatformAssumption DEF PlatformInv, PlatformTypes
  <2>2. SiteDatasets - siteDone[s] \in Nat
    BY <2>1
  <2>3. (SiteDatasets - siteDone[s]) * DatasetSteps \in Nat
    BY <2>2, DatasetsLeft
  <2>4. SitePlace(s) \in Nat
    BY DEF SitePlace
  <2> QED BY <2>1, <2>3, <2>4 DEF SiteSteps
<1>2. ASSUME NEW o \in SlotOwners PROVE OwnerSteps(o) \in Nat
  <2>1. wants[o] \in Seq(Stages)
    BY DEF PlatformInv, PlatformTypes
  <2>2. Len(wants[o]) \in Nat
    BY <2>1, LenProperties
  <2>3. (IF Idle(o) THEN 0 ELSE 1) \in Nat
    OBVIOUS
  <2>4. \A m, n \in Nat : m + n \in Nat
    OBVIOUS
  <2> QED BY <2>2, <2>3, <2>4 DEF OwnerSteps
<1> QED BY <1>1, <1>2 DEF StepsTyped, StopSteps

LEMMA PlatformLoadsTyped == StepsTyped => PlatformLoadTyped
<1> SUFFICES ASSUME StepsTyped PROVE \A p \in PlatformPlaces : PlatformLoad[p] \in Nat
  BY DEF PlatformLoadTyped, PlatformLoad
<1> QED BY PlatformLoads, PlatformPlacesAre DEF PlatformLoadIs, StepsTyped

Sized == PlatformInv /\ PlatformInv' /\ StepsTyped /\ StepsTyped' /\ PlatformLoadTyped /\ PlatformLoadTyped'
         /\ PlatformLoadIs /\ PlatformLoadIs'

\* What leaves p may come to q, but for one step; nowhere else is there more.
LEMMA PlatformMoves ==
  ASSUME Sized, NEW p \in PlatformPlaces, NEW q \in PlatformPlaces,
         \A s \in Sites : <<"site", s>> \notin {p, q} => SiteSteps(s)' <= SiteSteps(s),
         \A o \in SlotOwners : <<"owner", o>> \notin {p, q} => OwnerSteps(o)' <= OwnerSteps(o),
         <<"stop", 1>> \notin {p, q} => StopSteps' <= StopSteps,
         PlatformLoad'[p] <= PlatformLoad[p],
         PlatformLoad'[p] + PlatformLoad'[q] < PlatformLoad[p] + PlatformLoad[q]
  PROVE  LoadOf(PlatformLoad') < LoadOf(PlatformLoad)
<1>1. \A r \in PlatformPlaces \ {p, q} : PlatformLoad'[r] <= PlatformLoad[r]
  BY PlatformPlacesAre DEF Sized, PlatformLoadIs
<1>2. PlatformLoad \in [PlatformPlaces -> Nat] /\ PlatformLoad' \in [PlatformPlaces -> Nat]
  BY DEF Sized, PlatformLoadTyped
<1> QED BY <1>1, <1>2, PlatformPlacesAre, LoadMoves

\* A site's task goes on, and its owners at most give back.
LEMMA SiteTakes ==
  ASSUME Sized, NEW s \in Sites, SiteSteps(s)' < SiteSteps(s), stopped' = stopped,
         \A t \in Sites \ {s} : SiteSteps(t)' = SiteSteps(t),
         \A o \in SlotOwners : OwnerSteps(o)' <= OwnerSteps(o)
  PROVE  LoadOf(PlatformLoad') < LoadOf(PlatformLoad)
<1> DEFINE p == <<"site", s>>
<1>1. PlatformLoad[p] = SiteSteps(s) /\ PlatformLoad'[p] = SiteSteps(s)' /\ p \in PlatformPlaces
  BY PlatformPlacesAre DEF Sized, PlatformLoadIs
<1>2. SiteSteps(s) \in Nat /\ SiteSteps(s)' \in Nat /\ StopSteps' <= StopSteps
  BY DEF Sized, StepsTyped, StopSteps
<1>3. \A t \in Sites : <<"site", t>> \notin {p, p} => SiteSteps(t)' <= SiteSteps(t)
  BY DEF Sized, StepsTyped
<1> HIDE DEF p
<1> QED BY <1>1, <1>2, <1>3, PlatformMoves

\* A site's task goes on and lets an owner ask for slots.
LEMMA SiteAsks ==
  ASSUME Sized, NEW s \in Sites, NEW o \in SlotOwners, stopped' = stopped,
         SiteSteps(s)' <= SiteSteps(s), SiteSteps(s)' + OwnerSteps(o)' < SiteSteps(s) + OwnerSteps(o),
         \A t \in Sites \ {s} : SiteSteps(t)' = SiteSteps(t),
         \A v \in SlotOwners \ {o} : OwnerSteps(v)' = OwnerSteps(v)
  PROVE  LoadOf(PlatformLoad') < LoadOf(PlatformLoad)
<1> DEFINE p == <<"site", s>>
           q == <<"owner", o>>
<1>1. /\ PlatformLoad[p] = SiteSteps(s) /\ PlatformLoad'[p] = SiteSteps(s)' /\ p \in PlatformPlaces
      /\ PlatformLoad[q] = OwnerSteps(o) /\ PlatformLoad'[q] = OwnerSteps(o)' /\ q \in PlatformPlaces
  BY PlatformPlacesAre DEF Sized, PlatformLoadIs
<1>2. StopSteps' <= StopSteps
  BY DEF StopSteps
<1>3. \A t \in Sites : <<"site", t>> \notin {p, q} => SiteSteps(t)' <= SiteSteps(t)
  BY DEF Sized, StepsTyped
<1>4. \A v \in SlotOwners : <<"owner", v>> \notin {p, q} => OwnerSteps(v)' <= OwnerSteps(v)
  BY DEF Sized, StepsTyped
<1> HIDE DEF p, q
<1> QED BY <1>1, <1>2, <1>3, <1>4, PlatformMoves

\* An owner takes a slot or gives its slots back.
LEMMA OwnerTakes ==
  ASSUME Sized, NEW o \in SlotOwners, OwnerSteps(o)' < OwnerSteps(o), stopped' = stopped,
         \A t \in Sites : SiteSteps(t)' = SiteSteps(t),
         \A v \in SlotOwners \ {o} : OwnerSteps(v)' = OwnerSteps(v)
  PROVE  LoadOf(PlatformLoad') < LoadOf(PlatformLoad)
<1> DEFINE q == <<"owner", o>>
<1>1. PlatformLoad[q] = OwnerSteps(o) /\ PlatformLoad'[q] = OwnerSteps(o)' /\ q \in PlatformPlaces
  BY PlatformPlacesAre DEF Sized, PlatformLoadIs
<1>2. OwnerSteps(o) \in Nat /\ OwnerSteps(o)' \in Nat /\ StopSteps' <= StopSteps
  BY DEF Sized, StepsTyped, StopSteps
<1>3. \A t \in Sites : SiteSteps(t)' <= SiteSteps(t)
  BY DEF Sized, StepsTyped
<1>4. \A v \in SlotOwners : <<"owner", v>> \notin {q, q} => OwnerSteps(v)' <= OwnerSteps(v)
  BY DEF Sized, StepsTyped
<1> HIDE DEF q
<1> QED BY <1>1, <1>2, <1>3, <1>4, PlatformMoves

\* What the actions do to the numbers.
LEMMA AtStations ==
  ASSUME PlatformInv, NEW s \in Sites
  PROVE  /\ siteWork[s] \in Nat /\ SiteDatasets - siteDone[s] \in Nat /\ SitePlace(s) \in Nat
         /\ (SiteDatasets - siteDone[s]) * DatasetSteps \in Nat
<1>1. siteWork[s] \in Nat /\ siteDone[s] \in 0 .. SiteDatasets /\ SiteDatasets \in Nat
  BY PlatformAssumption DEF PlatformInv, PlatformTypes
<1>2. SiteDatasets - siteDone[s] \in Nat
  BY <1>1
<1>3. (SiteDatasets - siteDone[s]) * DatasetSteps \in Nat
  BY <1>2, DatasetsLeft
<1> QED BY <1>1, <1>2, <1>3 DEF SitePlace

\* A site that goes to an earlier place, with the same work and datasets left.
LEMMA EarlierPlace ==
  ASSUME PlatformInv, NEW s \in Sites, siteWork'[s] = siteWork[s], siteDone'[s] = siteDone[s],
         siteAt[s] # "done", SitePlace(s)' \in Nat, NEW n \in Nat, SitePlace(s)' + n <= SitePlace(s)
  PROVE  siteAt'[s] # "done" => SiteSteps(s)' + n <= SiteSteps(s)
<1>1. PICK k \in Nat : k = (SiteDatasets - siteDone[s]) * DatasetSteps
  BY AtStations
<1>2. PICK w \in Nat : w = siteWork[s]
  BY AtStations
<1>3. SiteSteps(s) = SitePlace(s) + 3 * w + k /\ SitePlace(s) \in Nat
  BY <1>1, <1>2, AtStations DEF SiteSteps
<1>4. siteAt'[s] # "done" => SiteSteps(s)' = SitePlace(s)' + 3 * w + k
  BY <1>1, <1>2 DEF SiteSteps, DatasetSteps
<1> QED BY <1>3, <1>4

\* A site that has answered has nothing left to do.
LEMMA SiteOver ==
  ASSUME PlatformInv, NEW s \in Sites, siteAt[s] # "done", siteAt'[s] = "done"
  PROVE  SiteSteps(s)' = 0 /\ SiteSteps(s) \in Nat /\ 0 < SiteSteps(s)
<1>1. PICK k \in Nat : k = (SiteDatasets - siteDone[s]) * DatasetSteps
  BY AtStations
<1>2. PICK w \in Nat : w = siteWork[s]
  BY AtStations
<1>3. PICK h \in Nat : h = SitePlace(s) /\ 0 < h
  BY AtStations DEF SitePlace
<1>4. SiteSteps(s) = h + 3 * w + k
  BY <1>1, <1>2, <1>3 DEF SiteSteps
<1>5. SiteSteps(s)' = 0
  BY DEF SiteSteps
<1> QED BY <1>3, <1>4, <1>5

\* The other sites, whose tasks rest.
LEMMA OtherSites ==
  ASSUME NEW s \in Sites, NEW t \in Sites \ {s},
         siteAt'[t] = siteAt[t], siteWork'[t] = siteWork[t], siteDone'[t] = siteDone[t]
  PROVE  SiteSteps(t)' = SiteSteps(t)
BY DEF SiteSteps, SitePlace, DatasetSteps

LEMMA OthersMove ==
  ASSUME PlatformInv, NEW s \in Sites, NEW to, siteAt' = [siteAt EXCEPT ![s] = to],
         UNCHANGED <<siteDone, siteWork>>
  PROVE  /\ siteAt'[s] = to /\ siteDone'[s] = siteDone[s] /\ siteWork'[s] = siteWork[s]
         /\ \A t \in Sites \ {s} : SiteSteps(t)' = SiteSteps(t)
<1>1. siteAt'[s] = to /\ \A t \in Sites \ {s} : siteAt'[t] = siteAt[t]
  BY DEF PlatformInv, PlatformTypes
<1> QED BY <1>1, OtherSites

LEMMA SameOwner ==
  ASSUME NEW o, wants'[o] = wants[o], holds'[o] = holds[o]
  PROVE  OwnerSteps(o)' = OwnerSteps(o)
BY DEF OwnerSteps, Idle

\* An owner that has given its slots back has nothing left to do.
LEMMA OwnerRests ==
  ASSUME Sized, NEW o \in SlotOwners, wants'[o] = <<>>, holds'[o] = {}
  PROVE  OwnerSteps(o)' = 0 /\ OwnerSteps(o)' <= OwnerSteps(o)
<1>1. OwnerSteps(o)' = 0
  BY DEF OwnerSteps, Idle
<1>2. OwnerSteps(o) \in Nat
  BY DEF Sized, StepsTyped
<1> QED BY <1>1, <1>2

LEMMA OwnerIsIdle ==
  ASSUME NEW o, Idle(o)
  PROVE  OwnerSteps(o) = 0
BY DEF OwnerSteps, Idle

\* A task enters a site, looks at it, or answers, and no owner takes or asks.
LEMMA SiteFalls ==
  ASSUME Sized, NEW s \in Sites, NEW to, siteAt' = [siteAt EXCEPT ![s] = to], UNCHANGED <<siteDone, siteWork, stopped>>,
         siteAt[s] # "done", to = "done" \/ SitePlace(s)' + 1 <= SitePlace(s),
         \A o \in SlotOwners : \/ wants'[o] = wants[o] /\ holds'[o] = holds[o]
                               \/ wants'[o] = <<>> /\ holds'[o] = {}
  PROVE  LoadOf(PlatformLoad') < LoadOf(PlatformLoad)
<1>1. PlatformInv /\ PlatformInv'
  BY DEF Sized
<1>2. /\ siteAt'[s] = to /\ siteDone'[s] = siteDone[s] /\ siteWork'[s] = siteWork[s]
      /\ \A t \in Sites \ {s} : SiteSteps(t)' = SiteSteps(t)
  BY <1>1, OthersMove
<1>3. \A o \in SlotOwners : OwnerSteps(o)' <= OwnerSteps(o)
  <2> SUFFICES ASSUME NEW o \in SlotOwners PROVE OwnerSteps(o)' <= OwnerSteps(o)
    OBVIOUS
  <2>1. CASE wants'[o] = wants[o] /\ holds'[o] = holds[o]
    <3>1. OwnerSteps(o)' = OwnerSteps(o)
      BY <2>1, SameOwner
    <3> QED BY <3>1 DEF Sized, StepsTyped
  <2>2. CASE wants'[o] = <<>> /\ holds'[o] = {}
    BY <2>2, OwnerRests
  <2> QED BY <2>1, <2>2
<1>4. SiteSteps(s)' < SiteSteps(s)
  <2>1. CASE to = "done"
    BY <1>1, <1>2, <2>1, SiteOver
  <2>2. CASE to # "done"
    <3>1. SitePlace(s)' \in Nat
      BY DEF SitePlace
    <3>2. SiteSteps(s)' + 1 <= SiteSteps(s)
      BY <1>1, <1>2, <2>2, <3>1, EarlierPlace
    <3>3. SiteSteps(s)' \in Nat /\ SiteSteps(s) \in Nat
      BY DEF Sized, StepsTyped
    <3> QED BY <3>2, <3>3
  <2> QED BY <2>1, <2>2
<1> QED BY <1>2, <1>3, <1>4, SiteTakes

LEMMA StartFalls ==
  ASSUME Sized, StartPlatform
  PROVE  UNCHANGED platformVars \/ LoadOf(PlatformLoad') < LoadOf(PlatformLoad)
<1>1. /\ \A s \in Sites : siteAt[s] = "off" /\ siteAt'[s] = "queued"
      /\ siteAt' = [s \in Sites |-> "queued"]
      /\ UNCHANGED <<siteResult, siteDone, siteWork, wants, holds, stopped>>
  BY DEF StartPlatform
<1>2. CASE Sites = {}
  <2>1. siteAt' = siteAt
    BY <1>1, <1>2 DEF Sized, PlatformInv, PlatformTypes
  <2> QED BY <1>1, <2>1 DEF platformVars
<1>3. ASSUME NEW s \in Sites PROVE LoadOf(PlatformLoad') < LoadOf(PlatformLoad)
  <2>1. \A t \in Sites : SiteSteps(t)' < SiteSteps(t)
    <3> SUFFICES ASSUME NEW t \in Sites PROVE SiteSteps(t)' < SiteSteps(t)
      OBVIOUS
    <3>1. SitePlace(t)' = 13 /\ SitePlace(t) = 14 /\ siteAt[t] # "done" /\ siteAt'[t] # "done"
      BY <1>1 DEF SitePlace
    <3>2. SiteSteps(t)' + 1 <= SiteSteps(t)
      BY <1>1, <3>1, EarlierPlace DEF Sized
    <3>3. SiteSteps(t)' \in Nat /\ SiteSteps(t) \in Nat
      BY DEF Sized, StepsTyped
    <3> QED BY <3>2, <3>3
  <2>2. \A o \in SlotOwners : OwnerSteps(o)' = OwnerSteps(o)
    BY <1>1, SameOwner
  <2>3. StopSteps' = StopSteps
    BY <1>1 DEF StopSteps
  <2>4. \A p \in PlatformPlaces : PlatformLoad'[p] <= PlatformLoad[p]
    <3>1. (\A t \in Sites : SiteSteps(t)' <= SiteSteps(t)) /\ (\A o \in SlotOwners : OwnerSteps(o)' <= OwnerSteps(o))
          /\ StopSteps' <= StopSteps
      BY <2>1, <2>2, <2>3 DEF Sized, StepsTyped
    <3> QED BY <3>1, PlatformPlacesAre DEF Sized, PlatformLoadIs
  <2>5. <<"site", s>> \in PlatformPlaces /\ PlatformLoad'[<<"site", s>>] < PlatformLoad[<<"site", s>>]
    BY <2>1, PlatformPlacesAre DEF Sized, PlatformLoadIs
  <2>6. PlatformLoad \in [PlatformPlaces -> Nat] /\ PlatformLoad' \in [PlatformPlaces -> Nat]
    BY DEF Sized, PlatformLoadTyped
  <2> QED BY <2>4, <2>5, <2>6, PlatformPlacesAre, LoadFallsAt
<1> QED BY <1>2, <1>3

LEMMA StopFalls ==
  ASSUME Sized, RequestStop
  PROVE  LoadOf(PlatformLoad') < LoadOf(PlatformLoad)
<1> DEFINE p == <<"stop", 1>>
<1>1. PlatformLoad[p] = 1 /\ PlatformLoad'[p] = 0 /\ p \in PlatformPlaces
  BY PlatformPlacesAre DEF Sized, PlatformLoadIs, StopSteps, RequestStop
<1>2. siteAt' = siteAt /\ siteWork' = siteWork /\ siteDone' = siteDone /\ wants' = wants /\ holds' = holds
  BY DEF RequestStop, siteVars
<1>3. \A s \in Sites : SiteSteps(s)' <= SiteSteps(s)
  <2>1. \A s \in Sites : SiteSteps(s)' = SiteSteps(s)
    BY <1>2 DEF SiteSteps, SitePlace, DatasetSteps
  <2> QED BY <2>1 DEF Sized, StepsTyped
<1>4. \A o \in SlotOwners : OwnerSteps(o)' <= OwnerSteps(o)
  <2>1. \A o \in SlotOwners : OwnerSteps(o)' = OwnerSteps(o)
    BY <1>2, SameOwner
  <2> QED BY <2>1 DEF Sized, StepsTyped
<1>5. <<"stop", 1>> \notin {p, p} => StopSteps' <= StopSteps
  OBVIOUS
<1>6. PlatformLoad'[p] <= PlatformLoad[p] /\ PlatformLoad'[p] + PlatformLoad'[p] < PlatformLoad[p] + PlatformLoad[p]
  BY <1>1
<1> HIDE DEF p
<1> QED BY <1>1, <1>3, <1>4, <1>5, <1>6, PlatformMoves

\* An owner that takes its next slot, or gives its slots back.
LEMMA OwnerFalls ==
  ASSUME Sized, NEW o \in SlotOwners,
         AcquireSlot(o) \/ (\E s \in Sites, st \in Stages : o = <<s, st>> /\ StageWorkEnds(s, st))
  PROVE  LoadOf(PlatformLoad') < LoadOf(PlatformLoad)
<1>1. UNCHANGED <<siteAt, siteDone, siteWork, stopped>>
  BY DEF AcquireSlot, StageWorkEnds, siteVars
<1>2. \A t \in Sites : SiteSteps(t)' = SiteSteps(t)
  BY <1>1 DEF SiteSteps, SitePlace, DatasetSteps
<1>3. wants \in [SlotOwners -> Seq(Stages)] /\ holds \in [SlotOwners -> SUBSET Stages]
  BY DEF Sized, PlatformInv, PlatformTypes
<1>4. \A v \in SlotOwners \ {o} : wants'[v] = wants[v] /\ holds'[v] = holds[v]
  BY <1>3 DEF AcquireSlot, StageWorkEnds, Releases
<1>5. \A v \in SlotOwners \ {o} : OwnerSteps(v)' = OwnerSteps(v)
  BY <1>4, SameOwner
<1>6. CASE AcquireSlot(o)
  <2>1. /\ wants[o] \in Seq(Stages) /\ wants[o] # <<>> /\ wants'[o] = Tail(wants[o])
        /\ holds'[o] = holds[o] \cup {Head(wants[o])}
    BY <1>3, <1>6 DEF AcquireSlot
  <2>2. Len(wants[o]) \in Nat /\ Len(wants'[o]) = Len(wants[o]) - 1
    BY <2>1
  <2>3. ~Idle(o) /\ ~Idle(o)'
    BY <2>1 DEF Idle
  <2>4. OwnerSteps(o) = Len(wants[o]) + 1 /\ OwnerSteps(o)' = Len(wants'[o]) + 1
    BY <2>3 DEF OwnerSteps
  <2>5. OwnerSteps(o)' < OwnerSteps(o)
    BY <2>2, <2>4
  <2> QED BY <1>1, <1>2, <1>5, <2>5, OwnerTakes
<1>7. ASSUME NEW s \in Sites, NEW st \in Stages, o = <<s, st>>, StageWorkEnds(s, st)
      PROVE  LoadOf(PlatformLoad') < LoadOf(PlatformLoad)
  <2>1. wants'[o] = <<>> /\ holds'[o] = {} /\ wants[o] = <<>> /\ holds[o] # {}
    BY <1>3, <1>7 DEF StageWorkEnds, Inside, Releases
  <2>2. OwnerSteps(o)' = 0
    BY <2>1, OwnerRests
  <2>3. OwnerSteps(o) = 1
    BY <2>1 DEF OwnerSteps, Idle
  <2>4. OwnerSteps(o)' < OwnerSteps(o)
    BY <2>2, <2>3
  <2> QED BY <1>1, <1>2, <1>5, <2>4, OwnerTakes
<1> QED BY <1>6, <1>7

LEMMA EnterFalls ==
  ASSUME Sized, NEW s \in Sites,
         EnterSite(s) \/ (\E c \in BOOLEAN : RecoveryEnds(s, c)) \/ (\E a \in Accesses : Preflight(s, a))
  PROVE  LoadOf(PlatformLoad') < LoadOf(PlatformLoad)
<1>1. PICK to \in {"start", "preflight", "crawl", "done"} :
        /\ siteAt' = [siteAt EXCEPT ![s] = to] /\ siteAt[s] \in {"queued", "recovery", "preflight"}
        /\ to = "start" => siteAt[s] = "queued"
        /\ to = "preflight" => siteAt[s] = "recovery"
        /\ to = "crawl" => siteAt[s] = "preflight"
  BY DEF EnterSite, RecoveryEnds, Preflight, Answers, Moves, Accesses
<1>2. UNCHANGED <<siteDone, siteWork, stopped>>
  BY DEF EnterSite, RecoveryEnds, Preflight, Answers, Moves
<1>3. \A o \in SlotOwners : \/ wants'[o] = wants[o] /\ holds'[o] = holds[o]
                            \/ wants'[o] = <<>> /\ holds'[o] = {}
  <2>1. wants \in [SlotOwners -> Seq(Stages)] /\ holds \in [SlotOwners -> SUBSET Stages]
    BY DEF Sized, PlatformInv, PlatformTypes
  <2>2. CASE wants' = wants /\ holds' = holds
    BY <2>2
  <2>3. CASE /\ wants' = wants /\ wants[<<s, "recovery">>] = <<>>
             /\ holds' = [holds EXCEPT ![<<s, "recovery">>] = {}]
    BY <2>1, <2>3
  <2> QED BY <2>2, <2>3 DEF EnterSite, RecoveryEnds, Preflight, Inside, Releases
<1>4. to = "done" \/ SitePlace(s)' + 1 <= SitePlace(s)
  <2>1. siteAt'[s] = to
    BY <1>1 DEF Sized, PlatformInv, PlatformTypes
  <2> QED BY <1>1, <2>1 DEF SitePlace
<1>5. siteAt[s] # "done"
  BY <1>1
<1> QED BY <1>1, <1>2, <1>3, <1>4, <1>5, SiteFalls

LEMMA RaiseFalls ==
  ASSUME Sized, NEW s \in Sites, NEW waf \in BOOLEAN, SiteRaises(s, waf)
  PROVE  LoadOf(PlatformLoad') < LoadOf(PlatformLoad)
<1>1. /\ siteAt' = [siteAt EXCEPT ![s] = "done"] /\ siteAt[s] # "done" /\ UNCHANGED <<siteDone, siteWork, stopped>>
      /\ wants' = [o \in SlotOwners |-> IF o[1] = s THEN <<>> ELSE wants[o]]
      /\ holds' = [o \in SlotOwners |-> IF o[1] = s THEN {} ELSE holds[o]]
  BY DEF SiteRaises, Answers, Running
<1>2. \A o \in SlotOwners : \/ wants'[o] = wants[o] /\ holds'[o] = holds[o]
                            \/ wants'[o] = <<>> /\ holds'[o] = {}
  BY <1>1
<1> QED BY <1>1, <1>2, SiteFalls

\* The owner whose slots are asked for had none and asked for none.
LEMMA OwnerAsks ==
  ASSUME Sized, NEW o \in SlotOwners, NEW slots \in Seq(Stages), slots # <<>>, Idle(o), Asks(o, slots)
  PROVE  /\ OwnerSteps(o) = 0 /\ OwnerSteps(o)' = Len(slots) + 1
         /\ \A v \in SlotOwners \ {o} : OwnerSteps(v)' = OwnerSteps(v)
<1>1. wants \in [SlotOwners -> Seq(Stages)]
  BY DEF Sized, PlatformInv, PlatformTypes
<1>2. wants'[o] = slots /\ \A v \in SlotOwners \ {o} : wants'[v] = wants[v] /\ holds'[v] = holds[v]
  BY <1>1 DEF Asks
<1>3. ~Idle(o)'
  BY <1>2 DEF Idle
<1>4. OwnerSteps(o)' = Len(slots) + 1
  BY <1>2, <1>3 DEF OwnerSteps
<1> QED BY <1>2, <1>4, OwnerIsIdle, SameOwner

LEMMA SlotsAsked ==
  /\ RecoverySlots \in Seq(Stages) /\ RecoverySlots # <<>> /\ Len(RecoverySlots) = 2
  /\ MaintenanceSlots \in Seq(Stages) /\ MaintenanceSlots # <<>> /\ Len(MaintenanceSlots) = 3
  /\ \A st \in Stages : <<st>> \in Seq(Stages) /\ <<st>> # <<>> /\ Len(<<st>>) = 1
BY DEF RecoverySlots, MaintenanceSlots, Stages

\* A site's recovery begins, or the work after a dataset.
LEMMA RecoveryFalls ==
  ASSUME Sized, NEW s \in Sites, BeginRecovery(s)
  PROVE  LoadOf(PlatformLoad') < LoadOf(PlatformLoad)
<1> DEFINE o == <<s, "recovery">>
<1>1. /\ siteAt[s] = "start" /\ siteAt' = [siteAt EXCEPT ![s] = "recovery"]
      /\ UNCHANGED <<siteDone, siteWork, stopped>> /\ Asks(o, RecoverySlots) /\ PlatformInv
  BY DEF BeginRecovery, Moves, Sized
<1>2. "recovery" \in Roles /\ o \in SlotOwners
  BY OwnersAreFinite DEF Roles
<1>3. Idle(o)
  <2>1. siteAt[s] # WorkplaceOf("recovery")
    BY <1>1, Workplaces
  <2> QED BY <1>1, <1>2, <2>1, RestsElsewhere DEF Idle
<1> HIDE DEF o
<1>4. /\ siteAt'[s] = "recovery" /\ siteDone'[s] = siteDone[s] /\ siteWork'[s] = siteWork[s]
      /\ \A t \in Sites \ {s} : SiteSteps(t)' = SiteSteps(t)
  BY <1>1, OthersMove
<1>5. OwnerSteps(o) = 0 /\ OwnerSteps(o)' = 3 /\ \A v \in SlotOwners \ {o} : OwnerSteps(v)' = OwnerSteps(v)
  <2>1. RecoverySlots \in Seq(Stages) /\ RecoverySlots # <<>> /\ Len(RecoverySlots) = 2
    BY SlotsAsked
  <2>2. OwnerSteps(o) = 0 /\ OwnerSteps(o)' = Len(RecoverySlots) + 1 /\ \A v \in SlotOwners \ {o} : OwnerSteps(v)' = OwnerSteps(v)
    BY <1>1, <1>2, <1>3, <2>1, OwnerAsks
  <2> QED BY <2>1, <2>2
<1>6. SiteSteps(s)' + 4 <= SiteSteps(s)
  <2>1. SitePlace(s)' = 8 /\ SitePlace(s) = 12 /\ siteAt[s] # "done" /\ siteAt'[s] # "done"
    BY <1>1, <1>4 DEF SitePlace
  <2> QED BY <1>1, <1>4, <2>1, EarlierPlace
<1>7. SiteSteps(s)' <= SiteSteps(s) /\ SiteSteps(s)' + OwnerSteps(o)' < SiteSteps(s) + OwnerSteps(o)
  <2>1. SiteSteps(s)' \in Nat /\ SiteSteps(s) \in Nat
    BY DEF Sized, StepsTyped
  <2> QED BY <1>5, <1>6, <2>1
<1> QED BY <1>1, <1>2, <1>4, <1>5, <1>7, SiteAsks

LEMMA DatasetFalls ==
  ASSUME Sized, NEW s \in Sites, DatasetEnds(s)
  PROVE  LoadOf(PlatformLoad') < LoadOf(PlatformLoad)
<1> DEFINE o == <<s, "maintenance">>
<1>1. PlatformInv /\ siteAt[s] = "crawl" /\ UNCHANGED <<siteDone, siteWork, stopped>>
  BY DEF DatasetEnds, Moves, Answers, Sized
<1>2. CASE siteAt' = [siteAt EXCEPT ![s] = "done"] /\ UNCHANGED <<wants, holds>>
  <2>1. siteAt[s] # "done"
    BY <1>1
  <2> QED BY <1>1, <1>2, <2>1, SiteFalls
<1>3. CASE siteAt' = [siteAt EXCEPT ![s] = "maintenance"] /\ Asks(o, MaintenanceSlots)
  <2>1. "maintenance" \in Roles /\ o \in SlotOwners
    BY OwnersAreFinite DEF Roles
  <2>2. Idle(o)
    <3>1. siteAt[s] # WorkplaceOf("maintenance")
      BY <1>1, Workplaces
    <3> QED BY <1>1, <2>1, <3>1, RestsElsewhere DEF Idle
  <2> HIDE DEF o
  <2>3. /\ siteAt'[s] = "maintenance" /\ siteDone'[s] = siteDone[s] /\ siteWork'[s] = siteWork[s]
        /\ \A t \in Sites \ {s} : SiteSteps(t)' = SiteSteps(t)
    BY <1>1, <1>3, OthersMove
  <2>4. OwnerSteps(o) = 0 /\ OwnerSteps(o)' = 4 /\ \A v \in SlotOwners \ {o} : OwnerSteps(v)' = OwnerSteps(v)
    <3>1. MaintenanceSlots \in Seq(Stages) /\ MaintenanceSlots # <<>> /\ Len(MaintenanceSlots) = 3
      BY SlotsAsked
    <3>2. OwnerSteps(o) = 0 /\ OwnerSteps(o)' = Len(MaintenanceSlots) + 1 /\ \A v \in SlotOwners \ {o} : OwnerSteps(v)' = OwnerSteps(v)
      BY <1>3, <2>1, <2>2, <3>1, OwnerAsks
    <3> QED BY <3>1, <3>2
  <2>5. SiteSteps(s)' + 5 <= SiteSteps(s)
    <3>1. SitePlace(s)' = 1 /\ SitePlace(s) = 6 /\ siteAt[s] # "done" /\ siteAt'[s] # "done"
      BY <1>1, <2>3 DEF SitePlace
    <3> QED BY <1>1, <2>3, <3>1, EarlierPlace
  <2>6. SiteSteps(s)' <= SiteSteps(s) /\ SiteSteps(s)' + OwnerSteps(o)' < SiteSteps(s) + OwnerSteps(o)
    <3>1. SiteSteps(s)' \in Nat /\ SiteSteps(s) \in Nat
      BY DEF Sized, StepsTyped
    <3> QED BY <2>4, <2>5, <3>1
  <2> QED BY <1>1, <2>1, <2>3, <2>4, <2>6, SiteAsks
<1> QED BY <1>2, <1>3 DEF DatasetEnds, Answers, Moves

\* A batch of the crawl asks for its stage's slot.
LEMMA WorkFalls ==
  ASSUME Sized, NEW s \in Sites, NEW st \in Stages, StageWork(s, st)
  PROVE  LoadOf(PlatformLoad') < LoadOf(PlatformLoad)
<1> DEFINE o == <<s, st>>
<1>1. /\ siteAt[s] = "crawl" /\ Idle(o) /\ siteWork[s] > 0 /\ siteWork' = [siteWork EXCEPT ![s] = @ - 1]
      /\ Asks(o, <<st>>) /\ UNCHANGED <<siteAt, siteDone, stopped>> /\ PlatformInv
  BY DEF StageWork, Sized
<1>2. o \in SlotOwners
  BY OwnersAreFinite DEF Roles
<1> HIDE DEF o
<1>3. siteWork'[s] = siteWork[s] - 1 /\ \A t \in Sites \ {s} : siteWork'[t] = siteWork[t]
  BY <1>1 DEF PlatformInv, PlatformTypes
<1>4. \A t \in Sites \ {s} : SiteSteps(t)' = SiteSteps(t)
  BY <1>1, <1>3, OtherSites
<1>5. OwnerSteps(o) = 0 /\ OwnerSteps(o)' = 2 /\ \A v \in SlotOwners \ {o} : OwnerSteps(v)' = OwnerSteps(v)
  <2>1. <<st>> \in Seq(Stages) /\ <<st>> # <<>> /\ Len(<<st>>) = 1
    BY SlotsAsked
  <2>2. OwnerSteps(o) = 0 /\ OwnerSteps(o)' = Len(<<st>>) + 1 /\ \A v \in SlotOwners \ {o} : OwnerSteps(v)' = OwnerSteps(v)
    BY <1>1, <1>2, <2>1, OwnerAsks
  <2> QED BY <2>1, <2>2
<1>6. PICK k \in Nat : k = (SiteDatasets - siteDone[s]) * DatasetSteps
  BY <1>1, AtStations
<1>7. PICK w \in Nat : w = siteWork[s] /\ 0 < w
  BY <1>1, AtStations
<1>8. SiteSteps(s) = 6 + 3 * w + k /\ SiteSteps(s)' = 6 + 3 * (w - 1) + k
  <2>1. SitePlace(s) = 6 /\ SitePlace(s)' = 6
    BY <1>1 DEF SitePlace
  <2>2. siteDone'[s] = siteDone[s] /\ siteAt'[s] # "done" /\ siteAt[s] # "done" /\ DatasetSteps' = DatasetSteps
    BY <1>1 DEF DatasetSteps
  <2> QED BY <1>3, <1>6, <1>7, <2>1, <2>2 DEF SiteSteps
<1>9. SiteSteps(s)' <= SiteSteps(s) /\ SiteSteps(s)' + OwnerSteps(o)' < SiteSteps(s) + OwnerSteps(o)
  BY <1>5, <1>7, <1>8
<1> QED BY <1>1, <1>2, <1>4, <1>5, <1>9, SiteAsks

\* The work after a dataset ends: the next one, with work of its own, or none.
LEMMA MaintenanceFalls ==
  ASSUME Sized, NEW s \in Sites, MaintenanceEnds(s)
  PROVE  LoadOf(PlatformLoad') < LoadOf(PlatformLoad)
<1> DEFINE o == <<s, "maintenance">>
<1>1. PICK to \in {"done", "crawl"} :
        /\ siteAt[s] = "maintenance" /\ wants[o] = <<>> /\ holds' = [holds EXCEPT ![o] = {}]
        /\ UNCHANGED <<wants, stopped>> /\ PlatformInv
        /\ siteDone' = [siteDone EXCEPT ![s] = @ + 1] /\ siteWork' = [siteWork EXCEPT ![s] = MaxStageWork]
        /\ siteAt' = [siteAt EXCEPT ![s] = to]
  BY DEF MaintenanceEnds, Releases, Inside, Sized
<1>2. PlatformTypes /\ o \in SlotOwners
  BY OwnersAreFinite DEF Roles, Sized, PlatformInv
<1> HIDE DEF o
<1>3. /\ siteAt'[s] = to /\ siteDone'[s] = siteDone[s] + 1 /\ siteWork'[s] = MaxStageWork
      /\ \A t \in Sites \ {s} : siteAt'[t] = siteAt[t] /\ siteDone'[t] = siteDone[t] /\ siteWork'[t] = siteWork[t]
  BY <1>1, <1>2 DEF PlatformTypes
<1>4. \A t \in Sites \ {s} : SiteSteps(t)' = SiteSteps(t)
  BY <1>3, OtherSites
<1>5. \A v \in SlotOwners : OwnerSteps(v)' <= OwnerSteps(v)
  <2> SUFFICES ASSUME NEW v \in SlotOwners PROVE OwnerSteps(v)' <= OwnerSteps(v)
    OBVIOUS
  <2>1. CASE v = o
    <3>1. wants'[v] = <<>> /\ holds'[v] = {}
      BY <1>1, <1>2, <2>1 DEF PlatformTypes
    <3> QED BY <3>1, OwnerRests
  <2>2. CASE v # o
    <3>1. OwnerSteps(v)' = OwnerSteps(v)
      BY <1>1, <1>2, <2>2, SameOwner DEF PlatformTypes
    <3> QED BY <3>1 DEF Sized, StepsTyped
  <2> QED BY <2>1, <2>2
<1>6. SiteSteps(s)' < SiteSteps(s)
  <2>1. CASE to = "done"
    BY <1>1, <1>3, <2>1, SiteOver
  <2>2. CASE to = "crawl"
    <3>1. siteDone[s] < SiteDatasets /\ siteDone[s] \in 0 .. SiteDatasets /\ SiteDatasets \in Nat /\ MaxStageWork \in Nat
      BY <1>1, <1>2, PlatformAssumption DEF PlatformInv, ResultsHonest, PlatformTypes
    <3>2. PICK n \in Nat : SiteDatasets - siteDone[s] = n + 1 /\ SiteDatasets - siteDone'[s] = n
      <4>1. siteDone[s] \in Nat /\ SiteDatasets - siteDone[s] - 1 \in Nat
        BY <3>1
      <4>2. SiteDatasets - siteDone[s] = (SiteDatasets - siteDone[s] - 1) + 1
            /\ SiteDatasets - siteDone'[s] = SiteDatasets - siteDone[s] - 1
        BY <1>3, <3>1, <4>1
      <4> QED BY <4>1, <4>2
    <3>3. PICK k \in Nat : k = n * DatasetSteps
      BY DatasetsLeft
    <3>4. PICK w \in Nat : w = siteWork[s]
      BY <1>1, AtStations
    <3>5. (SiteDatasets - siteDone[s]) * DatasetSteps = k + DatasetSteps
      BY <3>2, <3>3, DatasetsLeft
    <3>6. SiteSteps(s) = 1 + 3 * w + (k + DatasetSteps)
      <4>1. SitePlace(s) = 1 /\ siteAt[s] # "done"
        BY <1>1 DEF SitePlace
      <4> QED BY <3>4, <3>5, <4>1 DEF SiteSteps
    <3>7. SiteSteps(s)' = 6 + 3 * MaxStageWork + k
      <4>1. SitePlace(s)' = 6 /\ siteAt'[s] # "done" /\ DatasetSteps' = DatasetSteps
        BY <1>3, <2>2 DEF SitePlace, DatasetSteps
      <4> QED BY <1>3, <3>2, <3>3, <4>1 DEF SiteSteps
    <3>8. DatasetSteps = 3 * MaxStageWork + 6
      BY DEF DatasetSteps
    <3> HIDE DEF DatasetSteps
    <3> QED BY <3>1, <3>6, <3>7, <3>8
  <2> QED BY <2>1, <2>2
<1> QED BY <1>1, <1>4, <1>5, <1>6, SiteTakes

LEMMA PlatformFalls ==
  ASSUME Sized, PlatformNext
  PROVE  UNCHANGED platformVars \/ LoadOf(PlatformLoad') < LoadOf(PlatformLoad)
<1>1. CASE StartPlatform \/ RequestStop
  BY <1>1, StartFalls, StopFalls
<1>2. ASSUME NEW s \in Sites, SiteGoesOn(s)
      PROVE  LoadOf(PlatformLoad') < LoadOf(PlatformLoad)
  BY <1>2, EnterFalls, RecoveryFalls, DatasetFalls, MaintenanceFalls DEF SiteGoesOn
<1>3. ASSUME NEW s \in Sites, NEW st \in Stages, StageWorkEnds(s, st)
      PROVE  LoadOf(PlatformLoad') < LoadOf(PlatformLoad)
  <2>1. <<s, st>> \in SlotOwners
    BY OwnersAreFinite DEF Roles
  <2> QED BY <1>3, <2>1, OwnerFalls
<1>4. ASSUME NEW o \in SlotOwners, AcquireSlot(o)
      PROVE  LoadOf(PlatformLoad') < LoadOf(PlatformLoad)
  BY <1>4, OwnerFalls
<1>5. ASSUME NEW s \in Sites, NEW w \in BOOLEAN, SiteRaises(s, w)
      PROVE  LoadOf(PlatformLoad') < LoadOf(PlatformLoad)
  BY <1>5, RaiseFalls
<1>6. ASSUME NEW s \in Sites, NEW st \in Stages, StageWork(s, st)
      PROVE  LoadOf(PlatformLoad') < LoadOf(PlatformLoad)
  BY <1>6, WorkFalls
<1> QED BY <1>1, <1>2, <1>3, <1>4, <1>5, <1>6 DEF PlatformNext, PlatformGoesOn

(* A platform run takes finitely many steps, however its sites share the     *)
(* slots and whatever raises.  With PlatformKeepsMoving, every site answers *)
(* as long as a task that can go on does.                                   *)
THEOREM PlatformRunsOut == PlatformSpec => []PlatformIsFinite /\ PlatformGoesDown
<1>1. PlatformInv => StepsTyped
  BY StepsAreTyped
<1>2. StepsTyped => PlatformLoadTyped
  BY PlatformLoadsTyped
<1>3. PlatformLoadTyped => PlatformIsFinite
  BY PlatformPlacesAre, LoadCounts DEF PlatformLoadTyped, PlatformIsFinite
<1>4. ASSUME Sized, [PlatformNext]_platformVars
      PROVE  [LoadOf(PlatformLoad') < LoadOf(PlatformLoad)]_platformVars
  BY <1>4, PlatformFalls
<1>5. PlatformLoadIs
  BY PlatformLoads
<1> QED BY PlatformInvariant, <1>1, <1>2, <1>3, <1>4, <1>5, PTL DEF PlatformSpec, PlatformGoesDown, Sized

-----------------------------------------------------------------------------
(* The watermark.                                                          *)

USE WatermarkAssumption DEF Sequences

LEMMA WatermarkStarts == WatermarkInit => WatermarkTypeOK
BY DEF WatermarkInit, WatermarkTypeOK

LEMMA MarkTypes ==
  ASSUME WatermarkTypeOK, NEW q \in Sequences, MarkComplete(q)
  PROVE  WatermarkTypeOK'
<1>1. CASE q <= current
  BY <1>1 DEF WatermarkTypeOK, MarkComplete
<1>2. CASE ~(q <= current)
  <2>1. PICK n \in current .. MaxSequence :
          /\ current' = n
          /\ completed' = (completed \cup {q}) \ ((current + 1) .. n)
    BY <1>2 DEF MarkComplete
  <2>2. QED
    BY <2>1 DEF WatermarkTypeOK, MarkComplete
<1>3. QED
  BY <1>1, <1>2

(* Every variable keeps its type, however often and in which order sequences *)
(* are marked.                                                              *)
THEOREM WatermarkTypes == WatermarkSpec => []WatermarkTypeOK
<1>1. WatermarkTypeOK /\ [WatermarkNext]_watermarkVars => WatermarkTypeOK'
  <2>1. ASSUME WatermarkTypeOK, UNCHANGED watermarkVars PROVE WatermarkTypeOK'
    BY <2>1 DEF WatermarkTypeOK, watermarkVars
  <2>2. QED
    BY <2>1, MarkTypes DEF WatermarkNext
<1>2. QED
  BY <1>1, WatermarkStarts, PTL DEF WatermarkSpec

(* What MarkComplete does to the prefix: the numbers up to the new mark were  *)
(* marked now or before, the next one never was, and what stays behind the  *)
(* gap is all that was marked there.                                        *)
LEMMA MarkMovesPrefix ==
  ASSUME WatermarkTypeOK, WatermarkIsPrefix, NEW q \in Sequences, MarkComplete(q)
  PROVE  WatermarkIsPrefix'
<1>0. /\ current \in Nat /\ WatermarkStart \in Nat /\ q \in Nat /\ q > 0
      /\ WatermarkStart <= current /\ marked' = marked \cup {q}
  BY DEF WatermarkTypeOK, MarkComplete
<1>1. CASE q <= current
  <2>1. UNCHANGED <<current, completed>>
    BY <1>1 DEF MarkComplete
  <2>2. QED
    BY <1>0, <1>1, <2>1 DEF WatermarkIsPrefix, WatermarkTypeOK
<1>2. CASE ~(q <= current)
  <2>1. PICK n \in current .. MaxSequence :
          /\ MovesTo(n, completed \cup {q})
          /\ current' = n
          /\ completed' = (completed \cup {q}) \ ((current + 1) .. n)
    BY <1>2 DEF MarkComplete
  <2>2. n \in Nat /\ n >= current
    BY <1>0, <2>1
  <2>3. ((WatermarkStart + 1) .. current') \subseteq marked'
    <3>1. ASSUME NEW i \in (WatermarkStart + 1) .. n PROVE i \in marked \cup {q}
      <4>1. CASE i <= current
        BY <1>0, <3>1, <4>1 DEF WatermarkIsPrefix
      <4>2. CASE ~(i <= current)
        BY <1>0, <2>1, <2>2, <4>2 DEF WatermarkIsPrefix, MovesTo
      <4>3. QED
        BY <4>1, <4>2
    <3>2. QED
      BY <1>0, <2>1, <3>1
  <2>4. current' + 1 \notin marked'
    <3>1. n + 1 > current
      BY <1>0, <2>2
    <3>2. n + 1 \notin completed \cup {q}
      BY <2>1 DEF MovesTo
    <3>3. QED
      BY <1>0, <2>1, <2>2, <3>1, <3>2 DEF WatermarkIsPrefix
  <2>5. completed' = {r \in marked' : r > current'}
    <3>1. ASSUME NEW r PROVE r \in completed' <=> r \in marked' /\ r > current'
      <4>1. r \in marked \cup {q} => r \in Nat
        BY <1>0 DEF WatermarkTypeOK
      <4>2. r \in completed \cup {q} <=> r \in marked \cup {q} /\ r > current
        BY <1>0, <1>2, <4>1 DEF WatermarkIsPrefix
      <4>3. r \in Nat /\ r > current => (r \in (current + 1) .. n <=> ~(r > n))
        BY <1>0, <2>2
      <4>4. QED
        BY <1>0, <2>1, <2>2, <4>1, <4>2, <4>3
    <3>2. QED
      BY <3>1
  <2>6. QED
    BY <2>3, <2>4, <2>5 DEF WatermarkIsPrefix
<1>3. QED
  BY <1>1, <1>2

(* The watermark is the end of the longest complete prefix, and nothing that *)
(* was marked behind the first gap is forgotten, for any order of           *)
(* completion.                                                              *)
THEOREM WatermarkExact == WatermarkSpec => []WatermarkIsPrefix
<1>1. WatermarkInit => WatermarkIsPrefix
  BY DEF WatermarkInit, WatermarkIsPrefix
<1>2. WatermarkTypeOK /\ WatermarkIsPrefix /\ [WatermarkNext]_watermarkVars => WatermarkIsPrefix'
  <2>1. ASSUME WatermarkIsPrefix, UNCHANGED watermarkVars PROVE WatermarkIsPrefix'
    BY <2>1 DEF WatermarkIsPrefix, watermarkVars
  <2>2. QED
    BY <2>1, MarkMovesPrefix DEF WatermarkNext
<1>3. QED
  BY <1>1, <1>2, WatermarkTypes, PTL DEF WatermarkSpec

------------------------------------------------------------------------------
(* The command line: what a sweep of slices crawls.                         *)

Firsts(names) == {n \in DOMAIN names : \A k \in 1 .. n - 1 : names[k] # names[n]}
Rank(names, n) == Cardinality({m \in Firsts(names) : m <= n})

(* There is a first place for each rank.                                    *)
LEMMA RanksAreMet ==
  ASSUME NEW S, NEW names \in Seq(S)
  PROVE  /\ Cardinality(Firsts(names)) \in Nat /\ Firsts(names) \subseteq 1 .. Len(names)
         /\ \A k \in 1 .. Cardinality(Firsts(names)) : \E n \in Firsts(names) : Rank(names, n) = k
<1> DEFINE F == Firsts(names)
           N == Cardinality(F)
           Upto(n) == {m \in F : m <= n}
           rank == [n \in F |-> Cardinality(Upto(n))]
<1>1. F \subseteq 1 .. Len(names) /\ IsFiniteSet(1 .. Len(names)) /\ F \subseteq Nat
  <2>1. Len(names) \in Nat /\ DOMAIN names = 1 .. Len(names)
    BY LenProperties
  <2>2. IsFiniteSet(1 .. Len(names))
    BY <2>1, FS_Interval
  <2>3. QED
    BY <2>1, <2>2 DEF Firsts
<1>2. IsFiniteSet(F)
  BY <1>1, FS_Subset
<1>3. N \in Nat
  BY <1>2, FS_CardinalityType
<1> HIDE DEF F, N
<1>4. ASSUME NEW n \in F PROVE /\ IsFiniteSet(Upto(n)) /\ Cardinality(Upto(n)) \in 1 .. N
  <2>1. IsFiniteSet(Upto(n)) /\ Cardinality(Upto(n)) <= N
    BY <1>2, FS_Subset DEF N
  <2>2. n \in Upto(n)
    BY <1>1
  <2>3. Cardinality(Upto(n)) \in Nat /\ Cardinality(Upto(n)) # 0
    BY <2>1, <2>2, FS_EmptySet, FS_CardinalityType
  <2>4. QED
    BY <1>3, <2>1, <2>3
<1>5. rank \in [F -> 1 .. N]
  BY <1>4
<1>6. ASSUME NEW n \in F, NEW p \in F, n < p PROVE rank[n] # rank[p]
  <2>0. n \in Nat /\ p \in Nat /\ p \in Upto(p) /\ p \notin Upto(n)
    BY <1>1, <1>6
  <2>1. Upto(n) \subseteq Upto(p) /\ Upto(n) # Upto(p)
    <3>1. ASSUME NEW m \in Upto(n) PROVE m \in Upto(p)
      BY <1>1, <1>6, <2>0
    <3>2. QED
      BY <2>0, <3>1
  <2>2. IsFiniteSet(Upto(p))
    BY <1>4
  <2>3. Cardinality(Upto(n)) # Cardinality(Upto(p))
    BY <2>1, <2>2, FS_Subset
  <2>4. QED
    BY <2>3
<1>7. rank \in Injection(F, 1 .. N)
  <2>1. \A n, p \in F : rank[n] = rank[p] => n = p
    <3>1. SUFFICES ASSUME NEW n \in F, NEW p \in F, n # p PROVE rank[n] # rank[p]
      OBVIOUS
    <3>2. n < p \/ p < n
      BY <1>1, <3>1
    <3>3. QED
      BY <1>6, <3>2
  <2> HIDE DEF rank
  <2>2. QED
    BY <1>5, <2>1 DEF Injection, IsInjective
<1>8. IsFiniteSet(1 .. N) /\ Cardinality(1 .. N) = N
  <2>1. Cardinality(1 .. N) = IF 1 > N THEN 0 ELSE N - 1 + 1
    BY <1>3, FS_Interval
  <2>2. QED
    BY <1>3, <2>1, FS_Interval
<1>9. rank \in Surjection(F, 1 .. N)
  BY <1>7, <1>8, FS_Injection DEF N
<1>10. ASSUME NEW k \in 1 .. N PROVE \E n \in F : Cardinality(Upto(n)) = k
  BY <1>9, <1>10 DEF Surjection
<1>11. QED
  BY <1>1, <1>3, <1>10 DEF F, N, Rank

(* A deduplicated list has each of its names once.                          *)
LEMMA DeduplicatedOnce ==
  ASSUME NEW S, NEW names \in Seq(S)
  PROVE  /\ Deduplicated(names) \in Seq(S)
         /\ \A i, j \in DOMAIN Deduplicated(names) :
              Deduplicated(names)[i] = Deduplicated(names)[j] => i = j
<1> DEFINE F == Firsts(names)
           N == Cardinality(F)
           Nth(k) == CHOOSE n \in F : Rank(names, n) = k
           list == [k \in 1 .. N |-> names[Nth(k)]]
<1>1. Deduplicated(names) = list
  BY DEF Deduplicated, Firsts, Rank
<1>2. N \in Nat /\ F \subseteq 1 .. Len(names) /\ \A k \in 1 .. N : Nth(k) \in F /\ Rank(names, Nth(k)) = k
  BY RanksAreMet
<1>3. \A n \in F : names[n] \in S
  BY <1>2, ElementOfSeq
<1>4. \A n, p \in F : names[n] = names[p] => n = p
  <2>1. SUFFICES ASSUME NEW n \in F, NEW p \in F, n # p PROVE names[n] # names[p]
    OBVIOUS
  <2>2. n \in Nat /\ p \in Nat /\ n > 0 /\ p > 0 /\ (n < p \/ p < n)
    BY <1>2, <2>1
  <2>3. n \in 1 .. p - 1 \/ p \in 1 .. n - 1
    BY <2>2
  <2>4. QED
    BY <2>3 DEF Firsts
<1> HIDE DEF F, N, Nth
<1>5. list \in [1 .. N -> S]
  BY <1>2, <1>3
<1>6. list \in Seq(S)
  BY <1>2, <1>5, SeqDef
<1>7. \A i, j \in 1 .. N : list[i] = list[j] => i = j
  BY <1>2, <1>4
<1>8. DOMAIN list = 1 .. N
  OBVIOUS
<1> HIDE DEF list
<1>9. QED
  BY <1>1, <1>6, <1>7, <1>8

NamesOnce(names) == \A i, j \in DOMAIN names : names[i] = names[j] => i = j

LEMMA UpToLimitIs ==
  ASSUME NEW S, NEW names \in Seq(S), NEW limit \in Nat
  PROVE  LET upto == UpToLimit(names, limit)
         IN  /\ upto \in Seq(S)
             /\ Len(upto) = IF limit < Len(names) THEN limit ELSE Len(names)
             /\ \A i \in 1 .. Len(upto) : upto[i] = names[i]
<1> DEFINE last == IF limit < Len(names) THEN limit ELSE Len(names)
<1>1. Len(names) \in Nat /\ DOMAIN names = 1 .. Len(names) /\ last \in Nat /\ last <= Len(names)
  BY LenProperties
<1>2. \A i \in 1 .. last : names[i] \in S
  BY <1>1, ElementOfSeq
<1> HIDE DEF last
<1>3. /\ SubSeq(names, 1, last) \in Seq(S)
      /\ Len(SubSeq(names, 1, last)) = IF 1 <= last THEN last - 1 + 1 ELSE 0
      /\ \A i \in 1 .. last - 1 + 1 : SubSeq(names, 1, last)[i] = names[1 + i - 1]
  <2>1. 1 \in Int /\ last \in Int
    BY <1>1
  <2>2. QED
    BY <1>2, <2>1, SubSeqProperties
<1>4. Len(SubSeq(names, 1, last)) = last
  BY <1>1, <1>3
<1>5. \A i \in 1 .. last : SubSeq(names, 1, last)[i] = names[i]
  <2>1. ASSUME NEW i \in 1 .. last PROVE SubSeq(names, 1, last)[i] = names[i]
    <3>1. i \in 1 .. last - 1 + 1 /\ 1 + i - 1 = i
      BY <1>1
    <3>2. QED
      BY <1>3, <3>1
  <2>2. QED
    BY <2>1
<1>6. UpToLimit(names, limit) = SubSeq(names, 1, last)
  BY DEF UpToLimit, last
<1>7. QED
  BY <1>3, <1>4, <1>5, <1>6 DEF last

LEMMA FromIs ==
  ASSUME NEW S, NEW names \in Seq(S), NEW offset \in Nat
  PROVE  LET rest == From(names, offset)
         IN  /\ rest \in Seq(S)
             /\ Len(rest) = IF offset < Len(names) THEN Len(names) - offset ELSE 0
             /\ \A i \in 1 .. Len(rest) : rest[i] = names[offset + i]
<1> DEFINE L == Len(names)
           first == offset + 1
           rest == SubSeq(names, first, L)
           more == L - first + 1
<1>1. L \in Nat /\ DOMAIN names = 1 .. L /\ first \in Nat /\ first > 0
  BY LenProperties
<1>2. \A i \in first .. L : names[i] \in S
  BY <1>1, ElementOfSeq
<1>3. more = L - first + 1 /\ first = offset + 1
  OBVIOUS
<1>4. From(names, offset) = rest
  BY DEF From
<1> HIDE DEF L, first
<1>5. /\ rest \in Seq(S)
      /\ Len(rest) = IF first <= L THEN more ELSE 0
      /\ \A i \in 1 .. more : rest[i] = names[first + i - 1]
  <2>1. first \in Int /\ L \in Int
    BY <1>1
  <2>2. QED
    BY <1>2, <2>1, SubSeqProperties
<1> HIDE DEF rest, more
<1>6. Len(rest) = IF offset < L THEN L - offset ELSE 0
  BY <1>1, <1>3, <1>5
<1>7. ASSUME NEW i \in 1 .. Len(rest) PROVE rest[i] = names[offset + i]
  <2>1. i \in 1 .. more /\ first + i - 1 = offset + i
    BY <1>1, <1>3, <1>5
  <2>2. QED
    BY <1>5, <2>1
<1>8. QED
  BY <1>4, <1>5, <1>6, <1>7 DEF L

(* A slice is what the next offset adds to the instruments swept, all new   *)
(* if the list has each name once, and it is not empty before the end.      *)
LEMMA SliceIsNext ==
  ASSUME NEW S, NEW names \in Seq(S), NEW offset \in Nat, NEW limit \in Nat \ {0}
  PROVE  LET slice == InstrumentSlice(names, offset, limit)
             before == ToSet(UpToLimit(names, offset))
         IN  /\ ToSet(UpToLimit(names, offset + limit)) = before \cup ToSet(slice)
             /\ NamesOnce(names) => ToSet(slice) \cap before = {}
             /\ offset < Len(names) => slice # << >>
<1> DEFINE rest == From(names, offset)
           slice == UpToLimit(rest, limit)
           upto == UpToLimit(names, offset)
           then == UpToLimit(names, offset + limit)
           L == Len(names)
<1>1. L \in Nat /\ DOMAIN names = 1 .. L
  BY LenProperties
<1>2. /\ rest \in Seq(S)
      /\ Len(rest) = IF offset < L THEN L - offset ELSE 0
      /\ \A i \in 1 .. Len(rest) : rest[i] = names[offset + i]
  BY FromIs
<1>3. /\ slice \in Seq(S)
      /\ Len(slice) = IF limit < Len(rest) THEN limit ELSE Len(rest)
      /\ \A i \in 1 .. Len(slice) : slice[i] = rest[i]
  BY <1>2, UpToLimitIs
<1>4. /\ upto \in Seq(S)
      /\ Len(upto) = IF offset < L THEN offset ELSE L
      /\ \A i \in 1 .. Len(upto) : upto[i] = names[i]
  BY UpToLimitIs
<1>5. /\ then \in Seq(S)
      /\ Len(then) = IF offset + limit < L THEN offset + limit ELSE L
      /\ \A i \in 1 .. Len(then) : then[i] = names[i]
  <2>1. offset + limit \in Nat
    OBVIOUS
  <2>2. QED
    BY <2>1, UpToLimitIs
<1>6. /\ DOMAIN slice = 1 .. Len(slice) /\ Len(slice) \in Nat
      /\ DOMAIN upto = 1 .. Len(upto) /\ Len(upto) \in Nat
      /\ DOMAIN then = 1 .. Len(then) /\ Len(then) \in Nat
  BY <1>3, <1>4, <1>5, LenProperties
<1> HIDE DEF rest, slice, upto, then, L
<1>7. Len(then) = Len(upto) + Len(slice) /\ Len(rest) \in Nat
  BY <1>1, <1>2, <1>3, <1>4, <1>5
<1>8. \A i \in 1 .. Len(slice) : slice[i] = then[Len(upto) + i] /\ slice[i] = names[Len(upto) + i]
  <2>1. SUFFICES ASSUME NEW i \in 1 .. Len(slice)
                 PROVE  slice[i] = names[Len(upto) + i] /\ Len(upto) + i \in 1 .. Len(then)
    BY <1>5
  <2>2. i \in 1 .. Len(rest) /\ Len(upto) = offset /\ Len(upto) + i \in 1 .. Len(then)
    BY <1>1, <1>2, <1>3, <1>4, <1>6, <1>7
  <2>3. QED
    BY <1>2, <1>3, <2>2
<1>9. \A i \in 1 .. Len(upto) : upto[i] = then[i] /\ i \in 1 .. Len(then)
  <2>1. \A i \in 1 .. Len(upto) : i \in 1 .. Len(then)
    BY <1>6, <1>7
  <2>2. QED
    BY <1>4, <1>5, <2>1
<1>10. ToSet(then) = ToSet(upto) \cup ToSet(slice)
  <2>1. ASSUME NEW x \in ToSet(then) PROVE x \in ToSet(upto) \cup ToSet(slice)
    <3>1. PICK n \in 1 .. Len(then) : then[n] = x
      BY <1>6, <2>1 DEF ToSet
    <3>2. CASE n <= Len(upto)
      <4>1. n \in 1 .. Len(upto)
        BY <1>6, <3>2
      <4>2. QED
        BY <1>6, <1>9, <3>1, <4>1 DEF ToSet
    <3>3. CASE ~(n <= Len(upto))
      <4>1. n - Len(upto) \in 1 .. Len(slice) /\ Len(upto) + (n - Len(upto)) = n
        BY <1>6, <1>7, <3>3
      <4>2. slice[n - Len(upto)] = x
        BY <1>8, <3>1, <4>1
      <4>3. QED
        BY <1>6, <4>1, <4>2 DEF ToSet
    <3>4. QED
      BY <3>2, <3>3
  <2>2. ToSet(upto) \subseteq ToSet(then)
    BY <1>6, <1>9 DEF ToSet
  <2>3. ASSUME NEW i \in 1 .. Len(slice) PROVE slice[i] \in ToSet(then)
    <3>1. Len(upto) + i \in 1 .. Len(then)
      BY <1>6, <1>7
    <3>2. QED
      BY <1>6, <1>8, <3>1 DEF ToSet
  <2>4. ToSet(slice) \subseteq ToSet(then)
    BY <1>6, <2>3 DEF ToSet
  <2>5. QED
    BY <2>1, <2>2, <2>4
<1>11. NamesOnce(names) => ToSet(slice) \cap ToSet(upto) = {}
  <2>1. SUFFICES ASSUME NamesOnce(names), NEW i \in 1 .. Len(slice), NEW j \in 1 .. Len(upto)
                 PROVE  slice[i] # upto[j]
    BY <1>6 DEF ToSet
  <2>2. j \in 1 .. L /\ Len(upto) + i \in 1 .. L /\ Len(upto) + i # j
    BY <1>1, <1>5, <1>6, <1>7
  <2>3. slice[i] = names[Len(upto) + i] /\ upto[j] = names[j]
    BY <1>4, <1>8
  <2>4. QED
    BY <1>1, <2>1, <2>2, <2>3 DEF NamesOnce
<1>12. offset < L => slice # << >>
  <2>1. offset < L => Len(slice) # 0
    BY <1>1, <1>2, <1>3
  <2>2. QED
    BY <2>1, EmptySeq
<1>13. QED
  BY <1>10, <1>11, <1>12 DEF InstrumentSlice, rest, slice, upto, then, L

(* The names that can be typed or read from a file.                         *)
NamesTyped == UNION {ToSet(s) : s \in ListedOptions \cup FileOptions \cup {RolloutUniverse}}

LEMMA CommandFields ==
  ASSUME NEW c \in Commands
  PROVE  /\ c.site \in {"naver", "toss", "hkex"} /\ c.profile \in {"none", "full", "incremental", "backfill"}
         /\ c.listed \in ListedOptions /\ c.file \in FileOptions /\ c.limit \in SliceSizes
         /\ c.maxPages \in Nat /\ c.recoveryOnly \in BOOLEAN
         /\ \A d \in PagedDatasets : c.pages[d] \in Nat
<1> DEFINE Limits == {[x \in PagedDatasets |-> IF x = d THEN flag ELSE NotTyped] :
                        d \in PagedDatasets, flag \in PageFlags}
<1>1. c \in [site : CommandSites, profile : {"none", "full", "incremental", "backfill"},
              listed : ListedOptions, file : FileOptions, limit : SliceSizes, maxPages : PageFlags,
              pages : Limits, recoveryOnly : BOOLEAN]
  BY DEF Commands
<1>2. \A f \in Limits, d \in PagedDatasets : f[d] \in Nat
  BY SettingsAssumption DEF NotTyped
<1> HIDE DEF Limits
<1>3. QED
  BY <1>1, <1>2, SettingsAssumption

LEMMA AllAreOnce ==
  ASSUME NEW c \in Commands
  PROVE  AllInstruments(c) \in Seq(NamesTyped) /\ NamesOnce(AllInstruments(c))
<1>1. c.listed \in ListedOptions /\ c.file \in FileOptions
  BY DEF Commands
<1>2. FileRead(c) \in FileOptions \cup {RolloutUniverse}
  BY <1>1 DEF FileRead
<1>3. ASSUME NEW s \in ListedOptions \cup FileOptions \cup {RolloutUniverse}
      PROVE  Deduplicated(s) \in Seq(NamesTyped)
  <2>1. s \in Seq(ToSet(s)) /\ ToSet(s) \subseteq NamesTyped
    BY SettingsAssumption DEF NamesTyped
  <2>2. s \in Seq(NamesTyped)
    BY <2>1, SeqMonotonic
  <2>3. QED
    BY <2>2, DeduplicatedOnce
<1>4. Deduplicated(c.listed) \o Deduplicated(FileRead(c)) \in Seq(NamesTyped)
  BY <1>1, <1>2, <1>3, ConcatProperties
<1>5. QED
  BY <1>4, DeduplicatedOnce DEF AllInstruments, NamesOnce

(* What the sweep has come to: which part of the list is swept, and what a  *)
(* command at each stage has in hand.                                       *)
SweepUpTo ==
  command # NoCommand /\ AllInstruments(command) # << >> =>
    swept = ToSet(UpToLimit(AllInstruments(command), at))

StageHas ==
  /\ stage = "idle" =>
       at = 0 /\ swept = {} /\ toCrawl = {} /\ sliceDone = {} /\ exitCode = NotExited
  /\ stage = "built" => exitCode = NotExited /\ toCrawl = {} /\ sliceDone = {} /\ MoreToSweep
  /\ stage = "crawling" =>
       /\ exitCode = NotExited /\ MoreToSweep
       /\ toCrawl \cup sliceDone =
            Discovered(command, InstrumentSlice(AllInstruments(command), at, command.limit))

CommandTyped ==
  /\ at \in Nat
  /\ stage \in {"idle", "built", "crawling", "over"}
  /\ command # NoCommand => command \in Commands
  /\ command = NoCommand => stage = "idle"

CommandInv == CommandTyped /\ StageHas /\ SweepUpTo /\ ExitTellsWhatWasCrawled

LEMMA CommandStarts == SettingsInit => CommandInv
<1> SUFFICES ASSUME SettingsInit PROVE CommandInv
  OBVIOUS
<1>1. command = NoCommand /\ at = 0 /\ stage = "idle" /\ toCrawl = {} /\ sliceDone = {} /\ swept = {}
      /\ exitCode = NotExited
  BY DEF SettingsInit
<1>2. CommandTyped /\ StageHas /\ SweepUpTo
  BY <1>1 DEF CommandTyped, StageHas, SweepUpTo
<1>3. ExitTellsWhatWasCrawled
  BY <1>1 DEF ExitTellsWhatWasCrawled, Exits, NotExited
<1>4. QED
  BY <1>2, <1>3 DEF CommandInv

LEMMA CommandChosen == CommandInv /\ ChooseCommand => CommandInv'
<1> SUFFICES ASSUME CommandInv, ChooseCommand PROVE CommandInv'
  OBVIOUS
<1>1. /\ command = NoCommand /\ command' \in Commands
      /\ at' = at /\ stage' = stage /\ toCrawl' = toCrawl /\ sliceDone' = sliceDone
      /\ swept' = swept /\ exitCode' = exitCode
  BY DEF ChooseCommand
<1>2. /\ stage = "idle" /\ at = 0 /\ swept = {} /\ toCrawl = {} /\ sliceDone = {} /\ exitCode = NotExited
  BY <1>1 DEF CommandInv, CommandTyped, StageHas
<1>3. CommandTyped' /\ StageHas'
  BY <1>1, <1>2 DEF CommandTyped, StageHas
<1>4. SweepUpTo'
  <2>1. PICK c \in Commands : command' = c
    BY <1>1
  <2>2. ToSet(UpToLimit(AllInstruments(c), 0)) = {}
    <3> DEFINE names == AllInstruments(c)
               upto == UpToLimit(names, 0)
    <3>1. names \in Seq(NamesTyped) /\ Len(names) \in Nat
      BY AllAreOnce, LenProperties
    <3> HIDE DEF names
    <3>2. upto \in Seq(NamesTyped) /\ Len(upto) = IF 0 < Len(names) THEN 0 ELSE Len(names)
      BY <3>1, UpToLimitIs
    <3> HIDE DEF upto
    <3>3. Len(upto) = 0 /\ DOMAIN upto = 1 .. Len(upto)
      BY <3>1, <3>2, LenProperties
    <3>4. DOMAIN upto = {}
      BY <3>3
    <3>5. ToSet(upto) = {}
      BY <3>4 DEF ToSet
    <3>6. QED
      BY <3>5 DEF upto, names
  <2>3. QED
    BY <1>1, <1>2, <2>1, <2>2 DEF SweepUpTo
<1>5. ExitTellsWhatWasCrawled'
  BY <1>1, <1>2 DEF ExitTellsWhatWasCrawled, Exits, NotExited
<1>6. QED
  BY <1>3, <1>4, <1>5 DEF CommandInv

LEMMA CommandBuilt == CommandInv /\ Build => CommandInv'
<1> SUFFICES ASSUME CommandInv, Build PROVE CommandInv'
  OBVIOUS
<1>1. /\ command # NoCommand /\ MoreToSweep /\ sliceDone' = {} /\ toCrawl' = {}
      /\ command' = command /\ at' = at /\ swept' = swept
      /\ \/ stage' = "built" /\ exitCode' = NotExited
         \/ stage' = "over" /\ exitCode' = Exits.misconfigured
  BY DEF Build, BootstrapBuilt, ConfigurationRefused, Exit
<1>2. CommandTyped' /\ SweepUpTo'
  BY <1>1 DEF CommandInv, CommandTyped, SweepUpTo
<1>3. MoreToSweep'
  BY <1>1 DEF MoreToSweep
<1>4. StageHas'
  BY <1>1, <1>3 DEF StageHas
<1>5. ExitTellsWhatWasCrawled'
  BY <1>1 DEF ExitTellsWhatWasCrawled
<1>6. QED
  BY <1>2, <1>4, <1>5 DEF CommandInv

(* A command that ends moves the sweep on by the slice it crawled, or       *)
(* leaves it where it was.                                                  *)
LEMMA CommandEnds ==
  ASSUME CommandInv, command \in Commands, command # NoCommand, command' = command,
         NEW code, Exited(code),
         code = Exits.success => toCrawl' = {},
         code \in {Exits.blocked, Exits.misconfigured} => sliceDone' = {},
         code = Exits.success /\ ~command.recoveryOnly /\ AllInstruments(command) # << >> =>
           sliceDone = ToSet(InstrumentSlice(AllInstruments(command), at, command.limit))
  PROVE  CommandInv'
<1> DEFINE names == AllInstruments(command)
<1>1. stage' = "over" /\ exitCode' = code
  BY DEF Exited, Exit
<1>2. at \in Nat /\ command.limit \in Nat \ {0}
  <2>1. command.limit \in SliceSizes
    BY CommandFields
  <2>2. QED
    BY <2>1, SettingsAssumption DEF CommandInv, CommandTyped
<1>3. ExitTellsWhatWasCrawled'
  BY <1>1 DEF ExitTellsWhatWasCrawled
<1>4. StageHas'
  BY <1>1 DEF StageHas
<1>5. names \in Seq(NamesTyped)
  BY AllAreOnce
<1>6. ToSet(UpToLimit(names, at + command.limit)) =
        ToSet(UpToLimit(names, at)) \cup ToSet(InstrumentSlice(names, at, command.limit))
  BY <1>2, <1>5, SliceIsNext
<1> HIDE DEF names
<1>7. CASE code = Exits.success /\ ~command.recoveryOnly
  <2>1. at' = at + command.limit /\ swept' = swept \cup sliceDone
    BY <1>7 DEF Exited
  <2>2. CommandTyped'
    BY <1>1, <1>2, <2>1 DEF CommandInv, CommandTyped
  <2>3. SweepUpTo'
    <3>1. SUFFICES ASSUME command # NoCommand, names # << >>
                   PROVE  swept' = ToSet(UpToLimit(names, at'))
      BY DEF SweepUpTo, names
    <3>2. swept = ToSet(UpToLimit(names, at))
      BY <3>1 DEF CommandInv, SweepUpTo, names
    <3>3. sliceDone = ToSet(InstrumentSlice(names, at, command.limit))
      BY <1>7, <3>1 DEF names
    <3>4. QED
      BY <1>6, <2>1, <3>2, <3>3
  <2>4. QED
    BY <1>3, <1>4, <2>2, <2>3 DEF CommandInv
<1>8. CASE ~(code = Exits.success /\ ~command.recoveryOnly)
  <2>1. at' = at /\ swept' = swept
    BY <1>8 DEF Exited
  <2>2. CommandTyped' /\ SweepUpTo'
    BY <1>1, <2>1 DEF CommandInv, CommandTyped, SweepUpTo
  <2>3. QED
    BY <1>3, <1>4, <2>2 DEF CommandInv
<1>9. QED
  BY <1>7, <1>8

(* While there is more to sweep, the slice is not empty, so every site      *)
(* crawls the slice and nothing else.                                       *)
LEMMA SliceIsDiscovered ==
  ASSUME CommandInv, command \in Commands, MoreToSweep, AllInstruments(command) # << >>
  PROVE  LET slice == InstrumentSlice(AllInstruments(command), at, command.limit)
         IN  /\ Discovered(command, slice) = ToSet(slice)
             /\ ToSet(slice) \cap ToSet(UpToLimit(AllInstruments(command), at)) = {}
<1> DEFINE names == AllInstruments(command)
           slice == InstrumentSlice(names, at, command.limit)
<1>1. names \in Seq(NamesTyped) /\ NamesOnce(names)
  BY AllAreOnce
<1>2. at \in Nat /\ command.limit \in Nat \ {0}
  BY CommandFields, SettingsAssumption DEF CommandInv, CommandTyped
<1>3. at < Len(names)
  <2>1. Len(names) \in Nat \ {0}
    BY <1>1, EmptySeq
  <2>2. QED
    BY <1>2, <2>1 DEF MoreToSweep
<1> HIDE DEF names
<1>4. slice # << >> /\ ToSet(slice) \cap ToSet(UpToLimit(names, at)) = {}
  BY <1>1, <1>2, <1>3, SliceIsNext
<1> HIDE DEF slice
<1>5. Discovered(command, slice) = ToSet(slice)
  BY <1>4 DEF Discovered, TossDiscovers
<1>6. QED
  BY <1>4, <1>5 DEF slice, names

LEMMA CommandRecovered == CommandInv /\ Recover => CommandInv'
<1> SUFFICES ASSUME CommandInv, Recover PROVE CommandInv'
  OBVIOUS
<1> DEFINE names == InstrumentSlice(AllInstruments(command), at, command.limit)
<1>1. stage = "built" /\ command' = command /\ sliceDone' = sliceDone
  BY DEF Recover
<1>2. command # NoCommand /\ command \in Commands
  BY <1>1 DEF CommandInv, CommandTyped
<1>3. exitCode = NotExited /\ toCrawl = {} /\ sliceDone = {} /\ MoreToSweep
  BY <1>1 DEF CommandInv, StageHas
<1>4. CASE toCrawl' = {} /\ (Exited(Exits.blocked) \/ Exited(Exits.failed))
  <2>1. Exits.blocked # Exits.success /\ Exits.failed # Exits.success
    BY DEF Exits
  <2>2. QED
    BY <1>1, <1>2, <1>3, <1>4, <2>1, CommandEnds
<1>5. CASE RecoveryOnlyEnds
  <2>1. command.recoveryOnly /\ toCrawl' = {} /\ Exited(Exits.success)
    BY <1>5 DEF RecoveryOnlyEnds
  <2>2. QED
    BY <1>1, <1>2, <1>3, <2>1, CommandEnds
<1>6. CASE /\ toCrawl' = Discovered(command, names) /\ stage' = "crawling"
           /\ at' = at /\ swept' = swept /\ exitCode' = exitCode
  <2>1. CommandTyped' /\ SweepUpTo'
    BY <1>1, <1>2, <1>6 DEF CommandInv, CommandTyped, SweepUpTo
  <2>2. MoreToSweep'
    BY <1>1, <1>3, <1>6 DEF MoreToSweep
  <2>3. toCrawl' \cup sliceDone' =
          Discovered(command', InstrumentSlice(AllInstruments(command'), at', command'.limit))
    BY <1>1, <1>3, <1>6
  <2>4. StageHas'
    BY <1>3, <1>6, <2>2, <2>3 DEF StageHas
  <2>5. ExitTellsWhatWasCrawled'
    BY <1>3, <1>6 DEF ExitTellsWhatWasCrawled, Exits, NotExited
  <2>6. QED
    BY <2>1, <2>4, <2>5 DEF CommandInv
<1>7. QED
  BY <1>4, <1>5, <1>6 DEF Recover

LEMMA CommandCrawls ==
  ASSUME CommandInv, stage = "crawling", UNCHANGED <<command, at, stage, swept, exitCode>>,
         toCrawl' \cup sliceDone' = toCrawl \cup sliceDone
  PROVE  CommandInv'
<1>1. /\ command' = command /\ at' = at /\ stage' = stage /\ swept' = swept /\ exitCode' = exitCode
  OBVIOUS
<1>2. CommandTyped' /\ SweepUpTo'
  BY <1>1 DEF CommandInv, CommandTyped, SweepUpTo
<1>3. MoreToSweep' <=> MoreToSweep
  BY <1>1 DEF MoreToSweep
<1>4. StageHas' /\ exitCode = NotExited
  <2>1. exitCode = NotExited /\ MoreToSweep /\ toCrawl \cup sliceDone =
          Discovered(command, InstrumentSlice(AllInstruments(command), at, command.limit))
    BY DEF CommandInv, StageHas
  <2>2. toCrawl' \cup sliceDone' =
          Discovered(command', InstrumentSlice(AllInstruments(command'), at', command'.limit))
    BY <1>1, <2>1
  <2>3. QED
    BY <1>1, <1>3, <2>1, <2>2 DEF StageHas
<1>5. ExitTellsWhatWasCrawled'
  BY <1>1, <1>4 DEF ExitTellsWhatWasCrawled, Exits, NotExited
<1>6. QED
  BY <1>2, <1>4, <1>5 DEF CommandInv

LEMMA CommandStep == CommandInv /\ [SettingsNext]_settingsVars => CommandInv'
<1> SUFFICES ASSUME CommandInv, [SettingsNext]_settingsVars PROVE CommandInv'
  OBVIOUS
<1>1. CASE ChooseCommand
  BY <1>1, CommandChosen
<1>2. CASE Build
  BY <1>2, CommandBuilt
<1>3. CASE Recover
  BY <1>3, CommandRecovered
<1>4. CASE CrawlInstrument
  <2>1. stage = "crawling" /\ UNCHANGED <<command, at, stage, swept, exitCode>>
    BY <1>4 DEF CrawlInstrument
  <2>2. toCrawl' \cup sliceDone' = toCrawl \cup sliceDone
    BY <1>4 DEF CrawlInstrument
  <2>3. QED
    BY <2>1, <2>2, CommandCrawls
<1>5. CASE CrawlRaises
  <2>1. stage = "crawling" /\ command' = command /\ Exited(Exits.failed)
    BY <1>5 DEF CrawlRaises
  <2>2. command # NoCommand /\ command \in Commands
    BY <2>1 DEF CommandInv, CommandTyped
  <2>3. Exits.failed \notin {Exits.success, Exits.blocked, Exits.misconfigured}
    BY DEF Exits
  <2>4. QED
    BY <2>1, <2>2, <2>3, CommandEnds
<1>6. CASE RuntimeReturns
  <2>1. stage = "crawling" /\ command' = command /\ toCrawl' = toCrawl /\ sliceDone' = sliceDone
    BY <1>6 DEF RuntimeReturns
  <2>2. command # NoCommand /\ command \in Commands
    BY <2>1 DEF CommandInv, CommandTyped
  <2>3. PICK code \in {Exits.success, Exits.interrupted, Exits.failed} :
          Exited(code) /\ (code = Exits.success => toCrawl = {})
    BY <1>6 DEF RuntimeReturns, BootstrapSucceeds, Exits
  <2>4. code \notin {Exits.blocked, Exits.misconfigured}
    BY <2>3 DEF Exits
  <2>5. ASSUME code = Exits.success, AllInstruments(command) # << >>
        PROVE  sliceDone = ToSet(InstrumentSlice(AllInstruments(command), at, command.limit))
    <3>1. MoreToSweep /\ toCrawl \cup sliceDone =
            Discovered(command, InstrumentSlice(AllInstruments(command), at, command.limit))
      BY <2>1 DEF CommandInv, StageHas
    <3>2. Discovered(command, InstrumentSlice(AllInstruments(command), at, command.limit)) =
            ToSet(InstrumentSlice(AllInstruments(command), at, command.limit))
      BY <2>2, <2>5, <3>1, SliceIsDiscovered
    <3>3. QED
      BY <2>3, <2>5, <3>1, <3>2
  <2>6. QED
    BY <2>1, <2>2, <2>3, <2>4, <2>5, CommandEnds
<1>7. CASE UNCHANGED settingsVars
  <2>1. /\ command' = command /\ at' = at /\ stage' = stage /\ swept' = swept /\ exitCode' = exitCode
        /\ toCrawl' = toCrawl /\ sliceDone' = sliceDone
    BY <1>7 DEF settingsVars
  <2>2. QED
    BY <2>1 DEF CommandInv, CommandTyped, StageHas, SweepUpTo, ExitTellsWhatWasCrawled, MoreToSweep
<1>8. QED
  BY <1>1, <1>2, <1>3, <1>4, <1>5, <1>6, <1>7 DEF SettingsNext

LEMMA LimitsHold ==
  ASSUME CommandInv
  PROVE  TypedLimitsHold
<1> SUFFICES ASSUME command # NoCommand, NEW d \in PagedDatasets
             PROVE  LET limit == IF command.pages[d] # NotTyped THEN command.pages[d] ELSE command.maxPages
                    IN limit # NotTyped => PagesOf(command, d) <= limit
  BY DEF TypedLimitsHold
<1>1. command.pages[d] \in Nat /\ command.maxPages \in Nat
  BY CommandFields DEF CommandInv, CommandTyped
<1>2. CASE command.pages[d] # NotTyped
  <2>1. PagesOf(command, d) = command.pages[d]
    BY <1>2 DEF PagesOf, ContextPages, ProfilePages
  <2>2. QED
    BY <1>1, <1>2, <2>1
<1>3. CASE command.pages[d] = NotTyped /\ command.maxPages # NotTyped
  <2>1. ProfilePages(command, d) \in {1, NotTyped}
    BY <1>3 DEF ProfilePages
  <2>2. PagesOf(command, d) \in {1, command.maxPages}
    BY <1>3, <2>1 DEF PagesOf, ContextPages
  <2>3. QED
    BY <1>1, <1>3, <2>2 DEF NotTyped
<1>4. QED
  BY <1>1, <1>2, <1>3

LEMMA SweptExactly ==
  ASSUME CommandInv
  PROVE  SweepIsExact
<1> SUFFICES ASSUME command # NoCommand, AllInstruments(command) # << >>
             PROVE  /\ swept = ToSet(UpToLimit(AllInstruments(command), at))
                    /\ stage = "crawling" => (toCrawl \cup sliceDone) \cap swept = {}
  BY DEF SweepIsExact
<1>1. swept = ToSet(UpToLimit(AllInstruments(command), at)) /\ command \in Commands
  BY DEF CommandInv, SweepUpTo, CommandTyped
<1>2. ASSUME stage = "crawling" PROVE (toCrawl \cup sliceDone) \cap swept = {}
  <2>1. MoreToSweep /\ toCrawl \cup sliceDone =
          Discovered(command, InstrumentSlice(AllInstruments(command), at, command.limit))
    BY <1>2 DEF CommandInv, StageHas
  <2>2. QED
    BY <1>1, <2>1, SliceIsDiscovered
<1>3. QED
  BY <1>1, <1>2

(* Whatever lists, files, limits and offsets are typed, and however often a *)
(* command is retyped after a failure, a sweep crawls each instrument of    *)
(* the list in one slice, no page limit typed is exceeded, and the exit     *)
(* code tells how far the command came.                                     *)
THEOREM SweepsAsTyped == SettingsSpec => []CommandDoesAsTyped
<1>1. CommandInv => CommandDoesAsTyped
  BY LimitsHold, SweptExactly DEF CommandInv, CommandDoesAsTyped
<1>2. QED
  BY <1>1, CommandStarts, CommandStep, PTL DEF SettingsSpec

(* What a command has in hand beside its slice.                             *)
CommandRest ==
  /\ toCrawl \subseteq NamesTyped \cup Market /\ sliceDone \cap toCrawl = {}
  /\ exitCode \in {NotExited} \cup {Exits[e] : e \in DOMAIN Exits} /\ typed \in 0 .. MaxCommands

LEMMA SliceOfNames ==
  ASSUME NEW c \in Commands, NEW offset \in Nat
  PROVE  Discovered(c, InstrumentSlice(AllInstruments(c), offset, c.limit)) \subseteq NamesTyped \cup Market
<1> DEFINE names == AllInstruments(c)
           then == From(names, offset)
           slice == UpToLimit(then, c.limit)
<1>1. names \in Seq(NamesTyped) /\ c.limit \in Nat
  BY AllAreOnce, CommandFields, SettingsAssumption
<1> HIDE DEF names
<1>2. then \in Seq(NamesTyped)
  BY <1>1, FromIs
<1> HIDE DEF then
<1>3. slice \in Seq(NamesTyped)
  BY <1>1, <1>2, UpToLimitIs
<1> HIDE DEF slice
<1>4. ToSet(slice) \subseteq NamesTyped
  BY <1>3 DEF ToSet
<1>5. Discovered(c, slice) \subseteq NamesTyped \cup Market
  BY <1>4 DEF Discovered, TossDiscovers
<1> QED BY <1>5 DEF slice, then, names, InstrumentSlice

LEMMA ExitCodes == \A e \in {"success", "blocked", "failed", "misconfigured", "interrupted"} : Exits[e] \in {Exits[k] : k \in DOMAIN Exits}
BY DEF Exits

LEMMA ExitsSo ==
  ASSUME CommandInv, NEW code \in {Exits[e] : e \in DOMAIN Exits}, Exited(code), UNCHANGED typed, CommandRest,
         toCrawl' = {} \/ toCrawl' = toCrawl, sliceDone' = sliceDone
  PROVE  CommandRest'
BY DEF Exited, Exit, CommandRest

LEMMA CommandRests == CommandInv /\ CommandRest /\ [SettingsNext]_settingsVars => CommandRest'
<1> SUFFICES ASSUME CommandInv, CommandRest, [SettingsNext]_settingsVars PROVE CommandRest'
  OBVIOUS
<1> DEFINE codes == {Exits[e] : e \in DOMAIN Exits}
<1>1. Exits.success \in codes /\ Exits.blocked \in codes /\ Exits.failed \in codes
      /\ Exits.misconfigured \in codes /\ Exits.interrupted \in codes
  BY ExitCodes
<1> HIDE DEF codes
<1>2. exitCode \in {NotExited} \cup codes /\ toCrawl \subseteq NamesTyped \cup Market /\ sliceDone \cap toCrawl = {}
  BY DEF CommandRest, codes
<1>3. CASE ChooseCommand \/ UNCHANGED settingsVars
  BY <1>3 DEF ChooseCommand, settingsVars, CommandRest
<1>4. CASE Build
  <2>1. typed' \in 0 .. MaxCommands
    BY <1>4, SettingsAssumption DEF Build, CommandRest
  <2> QED BY <1>1, <1>4, <2>1 DEF Build, BootstrapBuilt, ConfigurationRefused, Exit, CommandRest, codes
<1>5. CASE Recover
  <2>1. stage = "built" /\ sliceDone = {} /\ command \in Commands /\ at \in Nat /\ sliceDone' = sliceDone /\ typed' = typed
    BY <1>5 DEF Recover, CommandInv, CommandTyped, StageHas
  <2>2. CASE toCrawl' = {} /\ (Exited(Exits.blocked) \/ Exited(Exits.failed) \/ Exited(Exits.success))
    BY <1>1, <2>1, <2>2, ExitsSo DEF codes
  <2>3. CASE /\ toCrawl' = Discovered(command, InstrumentSlice(AllInstruments(command), at, command.limit))
             /\ exitCode' = exitCode
    BY <2>1, <2>3, SliceOfNames DEF CommandRest
  <2> QED BY <1>5, <2>2, <2>3 DEF Recover, RecoveryOnlyEnds
<1>6. CASE CrawlInstrument
  BY <1>2, <1>6 DEF CrawlInstrument, CommandRest
<1>7. CASE CrawlRaises \/ RuntimeReturns
  <2>1. PICK code \in codes : Exited(code)
    BY <1>1, <1>7 DEF CrawlRaises, RuntimeReturns
  <2>2. UNCHANGED <<toCrawl, sliceDone, typed>>
    BY <1>7 DEF CrawlRaises, RuntimeReturns
  <2> QED BY <2>1, <2>2, ExitsSo DEF codes
<1> QED BY <1>3, <1>4, <1>5, <1>6, <1>7 DEF SettingsNext

(* A sweep crawls none but the instruments that were typed, read from a     *)
(* file or shown by the market, and one of them once in a command.          *)
THEOREM SettingsTypes == SettingsSpec => []SettingsTypeOK
<1>1. SettingsInit => CommandRest
  BY SettingsAssumption DEF SettingsInit, CommandRest
<1>2. CommandInv /\ CommandRest => SettingsTypeOK
  <2>1. NamesTyped \cup Market \subseteq ToSet(RolloutUniverse) \cup Market
                          \cup UNION {ToSet(s) : s \in ListedOptions \cup FileOptions}
    BY DEF NamesTyped
  <2> QED BY <2>1 DEF CommandInv, CommandTyped, CommandRest, SettingsTypeOK
<1>3. SettingsSpec => SettingsInit /\ [][SettingsNext]_settingsVars
  BY DEF SettingsSpec
<1> QED BY <1>1, <1>2, <1>3, CommandStarts, CommandStep, CommandRests, PTL
================================================================================
