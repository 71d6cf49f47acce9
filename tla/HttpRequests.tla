------------------------------ MODULE HttpRequests ------------------------------
(***************************************************************************)
(* HttpTransport: requests share a semaphore, an adaptive rate limiter and *)
(* a pool of proxies.  An attempt picks a proxy, waits, calls, and tells   *)
(* limiter and pool how it went; between two attempts it backs off, with   *)
(* its slot.  Others change limiter and pool while it waits.               *)
(***************************************************************************)
EXTENDS Naturals, FiniteSets, FiniteSetsExt

CONSTANTS
  Requests,
  MaxConcurrency,
  RequestAttempts,
  Proxies,          \* in the order of the pool, 1 ..
  Cooldown,         \* failure_cooldown_seconds, in ticks
  ThrottleDelay, MaxDelay, FailureThreshold

ASSUME HttpAssumption ==
  /\ IsFiniteSet(Requests) /\ MaxConcurrency \in Nat \ {0} /\ RequestAttempts \in Nat \ {0}
  /\ IsFiniteSet(Proxies) /\ Proxies = 1 .. Cardinality(Proxies) /\ Cooldown \in Nat
  /\ ThrottleDelay \in Nat /\ MaxDelay \in Nat /\ FailureThreshold \in Nat \ {0}

VARIABLES
  requestAt, tried, proxyOf,
  sendIn,        \* what is left of the delay before the request, in ticks
  cooling,       \* the same of each proxy's cooldown
  nextProxy,     \* _index
  failures,      \* consecutive_failures of the endpoint
  delay,         \* current_delay_seconds
  circuitOpen    \* what is left until circuit_open_until

httpVars == <<requestAt, tried, proxyOf, sendIn, cooling, nextProxy, failures, delay, circuitOpen>>
proxyVars == <<cooling, nextProxy>>
rateVars == <<failures, delay, circuitOpen>>

Direct == 0   \* no proxy
InSlot == {"slot", "delay", "sent", "backoff"}

(* Mutation: a request that raises keeps its slot.                          *)
SlotsKept == {r \in Requests : requestAt[r] \in InSlot \cup {"raised"}}

Slots == {r \in Requests : requestAt[r] \in InSlot}

HttpTypeOK ==
  /\ requestAt \in [Requests -> InSlot \cup {"new", "waits", "returned", "refused", "raised"}]
  /\ tried \in [Requests -> 0 .. RequestAttempts] /\ proxyOf \in [Requests -> Proxies \cup {Direct}]
  /\ sendIn \in [Requests -> 0 .. 2 * MaxDelay]
  /\ cooling \in [Proxies -> 0 .. Cooldown] /\ nextProxy \in Proxies \cup {1}
  /\ failures \in 0 .. FailureThreshold /\ delay \in 0 .. MaxDelay /\ circuitOpen \in 0 .. MaxDelay

HttpInit ==
  /\ requestAt = [r \in Requests |-> "new"] /\ tried = [r \in Requests |-> 0]
  /\ proxyOf = [r \in Requests |-> Direct] /\ sendIn = [r \in Requests |-> 0]
  /\ cooling = [p \in Proxies |-> 0] /\ nextProxy = 1
  /\ failures = 0 /\ delay = 0 /\ circuitOpen = 0

RequestMoves(r, from, to) == requestAt[r] = from /\ requestAt' = [requestAt EXCEPT ![r] = to]

Request(r) ==
  /\ RequestMoves(r, "new", "waits")
  /\ UNCHANGED <<tried, proxyOf, sendIn, proxyVars, rateVars>>

TakeSlot(r) ==
  /\ RequestMoves(r, "waits", "slot") /\ Cardinality(Slots) < MaxConcurrency
  /\ tried' = [tried EXCEPT ![r] = 1]
  /\ UNCHANGED <<proxyOf, sendIn, proxyVars, rateVars>>

------------------------------------------------------------------------------
Rested == {p \in Proxies : cooling[p] = 0}
After(p) == (p % Cardinality(Proxies)) + 1

(* The proxies from the index to p, p not among them.                        *)
Passed(p) ==
  IF p >= nextProxy THEN nextProxy .. (p - 1)
  ELSE (Proxies \ (1 .. (nextProxy - 1))) \cup (1 .. (p - 1))

(* Round robin: the first rested proxy from the index on.                   *)
SelectProxy(p) ==
  IF Rested = {} THEN p = Direct /\ UNCHANGED nextProxy
  ELSE p \in Rested /\ Passed(p) \cap Rested = {} /\ nextProxy' = After(p)

DelayBefore == circuitOpen + delay

BeginAttempt(r) ==
  /\ RequestMoves(r, "slot", "delay")
  /\ \E p \in Proxies \cup {Direct} : SelectProxy(p) /\ proxyOf' = [proxyOf EXCEPT ![r] = p]
  /\ sendIn' = [sendIn EXCEPT ![r] = DelayBefore]
  /\ UNCHANGED <<tried, cooling, rateVars>>

Send(r) ==
  /\ RequestMoves(r, "delay", "sent") /\ sendIn[r] = 0
  /\ UNCHANGED <<tried, proxyOf, sendIn, proxyVars, rateVars>>

------------------------------------------------------------------------------
(* Mutation: doubled without a cap.                                         *)
DoubledDelay == Max({ThrottleDelay, 2 * delay})

NextDelay == Min({MaxDelay, Max({ThrottleDelay, 2 * delay})})

RecordFailure ==
  /\ failures' = IF failures < FailureThreshold THEN failures + 1 ELSE failures
  /\ delay' = NextDelay
  /\ circuitOpen' = IF failures + 1 >= FailureThreshold THEN NextDelay ELSE circuitOpen

RecordSuccess == failures' = 0 /\ delay' = 0 /\ circuitOpen' = 0

ReportProxy(p, ok) ==
  /\ cooling' = IF p = Direct THEN cooling ELSE [cooling EXCEPT ![p] = IF ok THEN 0 ELSE Cooldown]
  /\ UNCHANGED nextProxy

Answer(r, to) == RequestMoves(r, "sent", to) /\ UNCHANGED <<proxyOf, sendIn, tried>>

LastAttempt(r) == tried[r] >= RequestAttempts

Succeeds(r) == Answer(r, "returned") /\ RecordSuccess /\ ReportProxy(proxyOf[r], TRUE)

(* 403 and the like: the caller gets the answer at once.                    *)
Refused(r, forbidden) ==
  /\ Answer(r, "refused")
  /\ IF forbidden THEN RecordFailure ELSE UNCHANGED rateVars
  /\ ReportProxy(proxyOf[r], FALSE)

(* An exception, or a status to retry: the last one is the caller's.        *)
Fails(r) ==
  /\ Answer(r, IF LastAttempt(r) THEN "raised" ELSE "backoff")
  /\ RecordFailure /\ ReportProxy(proxyOf[r], FALSE)

BackoffOver(r) ==
  /\ RequestMoves(r, "backoff", "slot")
  /\ tried' = [tried EXCEPT ![r] = @ + 1]
  /\ UNCHANGED <<proxyOf, sendIn, proxyVars, rateVars>>

Less(n) == IF n > 0 THEN n - 1 ELSE 0

Tick ==
  /\ sendIn' = [r \in Requests |-> Less(sendIn[r])]
  /\ cooling' = [p \in Proxies |-> Less(cooling[p])]
  /\ circuitOpen' = Less(circuitOpen)
  /\ UNCHANGED <<requestAt, tried, proxyOf, nextProxy, failures, delay>>

RequestGoesOn(r) ==
  \/ TakeSlot(r) \/ BeginAttempt(r) \/ Send(r)
  \/ Succeeds(r) \/ Fails(r) \/ BackoffOver(r)
  \/ \E forbidden \in BOOLEAN : Refused(r, forbidden)

HttpNext == Tick \/ \E r \in Requests : Request(r) \/ RequestGoesOn(r)

(* Time passes, a call ends, and the semaphore serves its waiters.          *)
HttpFairness == WF_httpVars(Tick) /\ WF_httpVars(\E r \in Requests : RequestGoesOn(r))

HttpSpec == HttpInit /\ [][HttpNext]_httpVars /\ HttpFairness

------------------------------------------------------------------------------
(* A request is answered, or has failed in each of its attempts.            *)
Answered(r) ==
  \/ requestAt[r] \in {"returned", "refused"}
  \/ requestAt[r] = "raised" /\ tried[r] = RequestAttempts

(* Every request is answered, and none gives up before its last attempt,     *)
(* however the requests take turns, fail, wait for the limiter the others    *)
(* have slowed down and for the semaphore.                                  *)
RequestsAnswered == \A r \in Requests : requestAt[r] = "waits" ~> Answered(r)

=============================================================================
