------------------------------- MODULE BrowserPool -------------------------------
(***************************************************************************)
(* BrowserWorkerPool and its leases: a lease takes a slot of its channel,  *)
(* then a worker from the queue of free ones, then opens a page; a worker  *)
(* that failed or is worn out is restarted before it goes back; a failed   *)
(* operation is tried again in a new lease; close may come at any time.    *)
(***************************************************************************)
EXTENDS Naturals, Sequences, FiniteSets, SequencesExt

CONSTANTS
  Browsers,          \* the workers
  Leases,            \* the operations that want one
  ChannelOf,         \* the channel of each
  ChannelLimit,      \* worker_budgets
  RecycleAfter,      \* recycle_after_scopes
  OperationAttempts  \* operation_attempts

NoBrowser == "no browser"

ASSUME BrowserAssumption ==
  /\ IsFiniteSet(Browsers) /\ IsFiniteSet(Leases) /\ NoBrowser \notin Browsers
  /\ RecycleAfter \in Nat \ {0} /\ OperationAttempts \in Nat \ {0}
  /\ \A l \in Leases : ChannelLimit[ChannelOf[l]] \in Nat \ {0}

VARIABLES
  poolAt,     \* off, open, closing, closed
  free,       \* _available
  browserUp,  \* workers with a context
  scopesDone, \* scopes_completed
  leaseAt,    \* where an operation is
  leased,     \* the worker of a lease
  attempts

browserVars == <<poolAt, free, browserUp, scopesDone, leaseAt, leased, attempts>>

(* Mutation: a lease that raises keeps its channel's slot.                  *)
KeepsSlot == {l \in Leases : \/ leaseAt[l] \notin {"idle", "channel", "done"}
                             \/ leaseAt[l] = "channel" /\ attempts[l] > 1}

HasSlot == {l \in Leases : leaseAt[l] \in {"worker", "page", "use", "restart", "renew"}}
Closing == poolAt \in {"closing", "closed"}

BrowserTypeOK ==
  /\ poolAt \in {"off", "open", "closing", "closed"}
  /\ free \in Seq(Browsers) /\ Len(free) <= Cardinality(Browsers)
  /\ browserUp \subseteq Browsers /\ scopesDone \in [Browsers -> 0 .. RecycleAfter]
  /\ leaseAt \in [Leases -> {"idle", "channel", "worker", "page", "use", "restart", "renew", "done", "raised"}]
  /\ leased \in [Leases -> Browsers \cup {NoBrowser}]
  /\ attempts \in [Leases -> 0 .. OperationAttempts]

BrowserInit ==
  /\ poolAt = "off" /\ free = <<>> /\ browserUp = {} /\ scopesDone = [b \in Browsers |-> 0]
  /\ leaseAt = [l \in Leases |-> "idle"] /\ leased = [l \in Leases |-> NoBrowser]
  /\ attempts = [l \in Leases |-> 0]

(* start is all or nothing.                                                 *)
StartPool ==
  /\ poolAt = "off" /\ poolAt' = "open"
  /\ free' \in SetToSeqs(Browsers) /\ browserUp' = Browsers
  /\ UNCHANGED <<scopesDone, leaseAt, leased, attempts>>

LeaseMoves(l, from, to) == leaseAt[l] = from /\ leaseAt' = [leaseAt EXCEPT ![l] = to]

BeginOperation(l) ==
  /\ poolAt # "off" /\ LeaseMoves(l, "idle", "channel")
  /\ attempts' = [attempts EXCEPT ![l] = 1]
  /\ UNCHANGED <<poolAt, free, browserUp, scopesDone, leased>>

AcquireChannel(l) ==
  /\ LeaseMoves(l, "channel", "worker")
  /\ Cardinality({k \in HasSlot : ChannelOf[k] = ChannelOf[l]}) < ChannelLimit[ChannelOf[l]]
  /\ UNCHANGED <<poolAt, free, browserUp, scopesDone, leased, attempts>>

(* It has looked at _closing before it waits for a worker, so one that       *)
(* waits already is not told.                                               *)
PoolIsClosing(l) ==
  /\ Closing /\ LeaseMoves(l, "worker", "raised")
  /\ UNCHANGED <<poolAt, free, browserUp, scopesDone, leased, attempts>>

AcquireWorker(l) ==
  /\ LeaseMoves(l, "worker", "page") /\ free # <<>>
  /\ leased' = [leased EXCEPT ![l] = Head(free)] /\ free' = Tail(free)
  /\ UNCHANGED <<poolAt, browserUp, scopesDone, attempts>>

OpenPage(l) ==
  /\ LeaseMoves(l, "page", "use") /\ leased[l] \in browserUp
  /\ UNCHANGED <<poolAt, free, browserUp, scopesDone, leased, attempts>>

------------------------------------------------------------------------------
(* Release                                                                  *)

GiveBack(b) == free' = IF Closing THEN free ELSE Append(free, b)

(* After a failure run tries again, unless the error is of another kind.    *)
AfterFailure(l, retryable) ==
  IF retryable /\ attempts[l] < OperationAttempts
  THEN leaseAt' = [leaseAt EXCEPT ![l] = "channel"] /\ attempts' = [attempts EXCEPT ![l] = @ + 1]
  ELSE leaseAt' = [leaseAt EXCEPT ![l] = "raised"] /\ UNCHANGED attempts

Worn(b) == scopesDone[b] + 1 >= RecycleAfter

(* The operation succeeded and the worker is still good.                    *)
ReleaseGood(l) ==
  /\ leaseAt[l] = "use" /\ (~Worn(leased[l]) \/ Closing)
  /\ leaseAt' = [leaseAt EXCEPT ![l] = "done"]
  /\ scopesDone' = [scopesDone EXCEPT ![leased[l]] = IF Worn(leased[l]) THEN @ ELSE @ + 1]
  /\ GiveBack(leased[l]) /\ leased' = [leased EXCEPT ![l] = NoBrowser]
  /\ UNCHANGED <<poolAt, browserUp, attempts>>

(* A cancelled lease gives its worker back as it is.                        *)
LeaseCancelled(l) ==
  /\ leaseAt[l] \in {"page", "use"}
  /\ leaseAt' = [leaseAt EXCEPT ![l] = "raised"]
  /\ GiveBack(leased[l]) /\ leased' = [leased EXCEPT ![l] = NoBrowser]
  /\ UNCHANGED <<poolAt, browserUp, scopesDone, attempts>>

WaitCancelled(l) ==
  /\ leaseAt[l] \in {"channel", "worker"}
  /\ leaseAt' = [leaseAt EXCEPT ![l] = "raised"]
  /\ UNCHANGED <<poolAt, free, browserUp, scopesDone, leased, attempts>>

FailsClosing(l, retryable) ==
  /\ leaseAt[l] \in {"page", "use"} /\ Closing
  /\ AfterFailure(l, retryable) /\ leased' = [leased EXCEPT ![l] = NoBrowser]
  /\ UNCHANGED <<poolAt, free, browserUp, scopesDone>>

(* It failed, or is worn out, or its page does not close: the context is     *)
(* closed first.                                                            *)
BeginRestart(l) ==
  /\ ~Closing
  /\ \/ LeaseMoves(l, "page", "restart") \/ LeaseMoves(l, "use", "restart")
     \/ LeaseMoves(l, "use", "renew")
  /\ browserUp' = browserUp \ {leased[l]}
  /\ UNCHANGED <<poolAt, free, scopesDone, leased, attempts>>

Restarts(l, retryable) ==
  IF leaseAt[l] = "restart" THEN AfterFailure(l, retryable)
  ELSE leaseAt' = [leaseAt EXCEPT ![l] = "done"] /\ UNCHANGED attempts

EndRestart(l, retryable) ==
  /\ leaseAt[l] \in {"restart", "renew"}
  /\ browserUp' = browserUp \cup (IF Closing THEN {} ELSE {leased[l]})
  /\ scopesDone' = [scopesDone EXCEPT ![leased[l]] = 0]
  /\ GiveBack(leased[l]) /\ leased' = [leased EXCEPT ![l] = NoBrowser]
  /\ Restarts(l, retryable)
  /\ UNCHANGED poolAt

(* Mutation: the worker goes back all the same.                             *)
GivenBackDead(b) == free' = Append(free, b)

NotGivenBack(b) == UNCHANGED free

(* The restart raises out of the release: the worker is gone, the channel's  *)
(* slot is not.                                                             *)
RestartRaises(l, retryable) ==
  /\ leaseAt[l] \in {"restart", "renew"}
  /\ NotGivenBack(leased[l]) /\ leased' = [leased EXCEPT ![l] = NoBrowser]
  /\ AfterFailure(l, retryable)
  /\ UNCHANGED <<poolAt, browserUp, scopesDone>>

------------------------------------------------------------------------------
BeginClose ==
  /\ poolAt = "open" /\ poolAt' = "closing"
  /\ UNCHANGED <<free, browserUp, scopesDone, leaseAt, leased, attempts>>

EndClose ==
  /\ poolAt = "closing" /\ poolAt' = "closed"
  /\ browserUp' = {} /\ free' = <<>>
  /\ UNCHANGED <<scopesDone, leaseAt, leased, attempts>>

LeaseGoesOn(l) ==
  \/ AcquireChannel(l) \/ AcquireWorker(l) \/ OpenPage(l) \/ ReleaseGood(l) \/ BeginRestart(l)
  \/ PoolIsClosing(l)
  \/ \E retryable \in BOOLEAN :
       FailsClosing(l, retryable) \/ RestartRaises(l, retryable) \/ EndRestart(l, retryable)

BrowserNext ==
  \/ StartPool \/ BeginClose \/ EndClose
  \/ \E l \in Leases : BeginOperation(l) \/ LeaseGoesOn(l) \/ LeaseCancelled(l) \/ WaitCancelled(l)

(* Every task that can go on does, a semaphore and a queue in turn.         *)
BrowserFairness == \A l \in Leases : SF_browserVars(LeaseGoesOn(l))

BrowserSpec == BrowserInit /\ [][BrowserNext]_browserVars /\ BrowserFairness

------------------------------------------------------------------------------
InPool(b) == b \in ToSet(free) \/ \E l \in Leases : leased[l] = b

(* Until the pool closes a worker is free or with one lease, and a free one  *)
(* has a context: a lease never gets a browser that has been closed, or one  *)
(* that another lease is using.                                             *)
WorkersAreSound ==
  poolAt = "open" =>
    /\ \A b \in ToSet(free) : b \in browserUp
    /\ \A b \in Browsers :
         Cardinality({n \in DOMAIN free : free[n] = b}) + Cardinality({l \in Leases : leased[l] = b}) <= 1

(* An operation ends, however often leases fail, are cancelled or wear out   *)
(* their worker, as long as the pool stays open with a worker that has been  *)
(* restarted whenever it had to be.                                         *)
EveryOperationEnds ==
  \A l \in Leases :
    leaseAt[l] = "channel" ~> \/ leaseAt[l] \in {"done", "raised"}
                              \/ Closing \/ \A b \in Browsers : ~InPool(b)

=============================================================================
