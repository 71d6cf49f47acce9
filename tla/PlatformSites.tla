------------------------------ MODULE PlatformSites ------------------------------
(***************************************************************************)
(* One process that runs several sites: each is recovered, looked at and   *)
(* crawled in a task of its own, at most site_workers at a time.  The      *)
(* stages of all sites share three semaphores.  A crawl's worker takes one *)
(* slot, a recovery two and the work after a dataset three, one after the  *)
(* other while it holds those before.                                      *)
(***************************************************************************)
EXTENDS Naturals, Sequences, FiniteSets

CONSTANTS
  Sites,
  SiteWorkers,   \* site_workers
  StageLimit,    \* the slots of each stage
  RecoveryOnly,
  SiteDatasets,  \* bound: datasets of a site
  MaxStageWork   \* bound: batches a site's crawl takes through a stage

Stages == {"writer", "upload", "catalog"}

ASSUME PlatformAssumption ==
  /\ IsFiniteSet(Sites) /\ SiteWorkers \in Nat \ {0}
  /\ StageLimit \in [Stages -> Nat \ {0}]
  /\ RecoveryOnly \in BOOLEAN /\ SiteDatasets \in Nat \ {0} /\ MaxStageWork \in Nat

VARIABLES
  siteAt,      \* where the task of a site is
  siteResult,  \* its PlatformSiteStatus, "NONE" before
  siteDone,    \* the datasets it has finished
  siteWork,    \* the stage work its dataset has left
  wants,       \* the slots an owner has yet to acquire, in order
  holds,       \* the slots it has
  stopped      \* shutdown_controller.stop_requested

platformVars == <<siteAt, siteResult, siteDone, siteWork, wants, holds, stopped>>
siteVars == <<siteAt, siteResult, siteDone, siteWork>>

(* What takes slots for a site: its recovery, a worker of its crawl for      *)
(* each stage, its maintenance.                                             *)
Roles == {"recovery", "maintenance"} \cup Stages
SlotOwners == Sites \X Roles
MaintenanceSlots == <<"writer", "upload", "catalog">>

(* Mutation: a recovery takes them the other way round.                     *)
RecoverySlotsTurned == <<"catalog", "upload">>

RecoverySlots == <<"upload", "catalog">>

Active(st) == {o \in SlotOwners : st \in holds[o]}
Idle(o) == wants[o] = <<>> /\ holds[o] = {}
Running == {s \in Sites : siteAt[s] \notin {"off", "queued", "done"}}

PlatformTypeOK ==
  /\ siteAt \in [Sites -> {"off", "queued", "start", "recovery", "preflight", "crawl", "maintenance", "done"}]
  /\ siteResult \in [Sites -> {"NONE", "COMPLETE", "BLOCKED", "FAILED", "INTERRUPTED", "SKIPPED"}]
  /\ siteDone \in [Sites -> 0 .. SiteDatasets] /\ siteWork \in [Sites -> 0 .. MaxStageWork]
  /\ wants \in [SlotOwners -> Seq(Stages)] /\ holds \in [SlotOwners -> SUBSET Stages]
  /\ \A st \in Stages : Cardinality(Active(st)) <= StageLimit[st]
  /\ stopped \in BOOLEAN

PlatformInit ==
  /\ siteAt = [s \in Sites |-> "off"] /\ siteResult = [s \in Sites |-> "NONE"]
  /\ siteDone = [s \in Sites |-> 0] /\ siteWork = [s \in Sites |-> MaxStageWork]
  /\ wants = [o \in SlotOwners |-> <<>>] /\ holds = [o \in SlotOwners |-> {}]
  /\ stopped = FALSE

StartPlatform ==
  /\ \A s \in Sites : siteAt[s] = "off"
  /\ siteAt' = [s \in Sites |-> "queued"]
  /\ UNCHANGED <<siteResult, siteDone, siteWork, wants, holds, stopped>>

RequestStop ==
  /\ \E s \in Sites : siteAt[s] # "off"
  /\ ~stopped /\ stopped' = TRUE
  /\ UNCHANGED <<siteVars, wants, holds>>

------------------------------------------------------------------------------
(* Slots                                                                    *)

AcquireSlot(o) ==
  /\ wants[o] # <<>>
  /\ Cardinality(Active(Head(wants[o]))) < StageLimit[Head(wants[o])]
  /\ holds' = [holds EXCEPT ![o] = @ \cup {Head(wants[o])}]
  /\ wants' = [wants EXCEPT ![o] = Tail(@)]
  /\ UNCHANGED <<siteVars, stopped>>

Asks(o, slots) == wants' = [wants EXCEPT ![o] = slots] /\ UNCHANGED holds
Inside(o) == wants[o] = <<>> /\ holds[o] # {}
Releases(o) == holds' = [holds EXCEPT ![o] = {}] /\ UNCHANGED wants

------------------------------------------------------------------------------
(* A site's task                                                            *)

Moves(s, to) == siteAt' = [siteAt EXCEPT ![s] = to] /\ UNCHANGED <<siteResult, siteDone, siteWork>>
Answers(s, status) ==
  /\ siteAt' = [siteAt EXCEPT ![s] = "done"]
  /\ siteResult' = [siteResult EXCEPT ![s] = status]
  /\ UNCHANGED <<siteDone, siteWork>>

EnterSite(s) ==
  /\ siteAt[s] = "queued" /\ Cardinality(Running) < SiteWorkers
  /\ IF stopped THEN Answers(s, "SKIPPED") ELSE Moves(s, "start")
  /\ UNCHANGED <<wants, holds, stopped>>

BeginRecovery(s) ==
  /\ siteAt[s] = "start" /\ Moves(s, "recovery")
  /\ Asks(<<s, "recovery">>, RecoverySlots)
  /\ UNCHANGED stopped

(* can_continue or not; with recovery_only that is the answer.              *)
RecoveryEnds(s, canContinue) ==
  /\ siteAt[s] = "recovery" /\ Inside(<<s, "recovery">>)
  /\ Releases(<<s, "recovery">>)
  /\ IF ~canContinue THEN Answers(s, "FAILED")
     ELSE IF RecoveryOnly THEN Answers(s, "COMPLETE")
     ELSE Moves(s, "preflight")
  /\ UNCHANGED stopped

(* What probe_kabutan_access, the preflight of production, may find.        *)
Accesses == {"WAF_BLOCKED", "AVAILABLE", "UNEXPECTED"}

Preflight(s, access) ==
  /\ siteAt[s] = "preflight"
  /\ CASE access = "WAF_BLOCKED" -> Answers(s, "BLOCKED")
       [] access = "AVAILABLE"   -> Moves(s, "crawl")
       [] OTHER                  -> Answers(s, "FAILED")
  /\ UNCHANGED <<wants, holds, stopped>>

StageWork(s, st) ==
  /\ siteAt[s] = "crawl" /\ Idle(<<s, st>>)
  /\ siteWork[s] > 0 /\ siteWork' = [siteWork EXCEPT ![s] = @ - 1]
  /\ Asks(<<s, st>>, <<st>>)
  /\ UNCHANGED <<siteAt, siteResult, siteDone, stopped>>

StageWorkEnds(s, st) ==
  /\ siteAt[s] = "crawl" /\ Inside(<<s, st>>) /\ Releases(<<s, st>>)
  /\ UNCHANGED <<siteVars, stopped>>

(* The dataset is drained; after a stop the run is over.                    *)
DatasetEnds(s) ==
  /\ siteAt[s] = "crawl"
  /\ \A st \in Stages : Idle(<<s, st>>)
  /\ IF stopped THEN Answers(s, "INTERRUPTED") /\ UNCHANGED <<wants, holds>>
     ELSE Moves(s, "maintenance") /\ Asks(<<s, "maintenance">>, MaintenanceSlots)
  /\ UNCHANGED stopped

MaintenanceEnds(s) ==
  /\ siteAt[s] = "maintenance" /\ Inside(<<s, "maintenance">>)
  /\ Releases(<<s, "maintenance">>)
  /\ siteDone' = [siteDone EXCEPT ![s] = @ + 1]
  /\ siteWork' = [siteWork EXCEPT ![s] = MaxStageWork]
  /\ LET last == siteDone[s] + 1 = SiteDatasets IN
       /\ siteAt' = [siteAt EXCEPT ![s] = IF last \/ stopped THEN "done" ELSE "crawl"]
       /\ siteResult' = [siteResult EXCEPT ![s] =
            IF stopped /\ ~last THEN "INTERRUPTED" ELSE IF last THEN "COMPLETE" ELSE @]
  /\ UNCHANGED stopped

(* Anything may raise; the slots are given back on the way out.  A human     *)
(* verification met in the crawl blocks the site, without a failure.        *)
SiteRaises(s, waf) ==
  /\ s \in Running
  /\ Answers(s, IF waf THEN "BLOCKED" ELSE IF stopped THEN "INTERRUPTED" ELSE "FAILED")
  /\ wants' = [o \in SlotOwners |-> IF o[1] = s THEN <<>> ELSE wants[o]]
  /\ holds' = [o \in SlotOwners |-> IF o[1] = s THEN {} ELSE holds[o]]
  /\ UNCHANGED stopped

SiteGoesOn(s) ==
  \/ EnterSite(s) \/ BeginRecovery(s)
  \/ \E c \in BOOLEAN : RecoveryEnds(s, c)
  \/ \E a \in Accesses : Preflight(s, a)
  \/ DatasetEnds(s) \/ MaintenanceEnds(s)

(* Some task that can go on does, and threads end: a run makes finitely many *)
(* steps, so that is all it takes unless every task waits for another.      *)
PlatformGoesOn ==
  \/ \E s \in Sites : SiteGoesOn(s) \/ \E st \in Stages : StageWorkEnds(s, st)
  \/ \E o \in SlotOwners : AcquireSlot(o)

PlatformNext ==
  \/ StartPlatform \/ RequestStop
  \/ PlatformGoesOn
  \/ \E s \in Sites : \E w \in BOOLEAN : SiteRaises(s, w)
  \/ \E s \in Sites, st \in Stages : StageWork(s, st)

PlatformFairness == WF_platformVars(PlatformGoesOn)

PlatformSpec == PlatformInit /\ [][PlatformNext]_platformVars /\ PlatformFairness

------------------------------------------------------------------------------
Finished == \A s \in Sites : siteAt[s] = "done"

PlatformSuccess ==
  /\ \A s \in Sites : siteResult[s] \notin {"FAILED", "INTERRUPTED"}
  /\ ~stopped

(* A run that reports success has left no site out: each was completed, or  *)
(* is blocked until a human verifies; and only a stop skips or interrupts a *)
(* site, never the failure of another one.                                  *)
PlatformHonest ==
  /\ Finished /\ PlatformSuccess => \A s \in Sites : siteResult[s] \in {"COMPLETE", "BLOCKED"}
  /\ \A s \in Sites : siteResult[s] \in {"SKIPPED", "INTERRUPTED"} => stopped

(* Every site answers, whatever the others do with the slots: nested slots  *)
(* are taken in one order everywhere and come back after every failure.     *)
(* And the report is honest then.                                           *)
EverySiteAnswers == (\E s \in Sites : siteAt[s] # "off") ~> (Finished /\ PlatformHonest)

=============================================================================
