----------------------------- MODULE BatchLifecycle -----------------------------
(***************************************************************************)
(* The durable life of the batches of a crawl over many process lifetimes. *)
(* A batch is written to a local file and a record index, described by a   *)
(* recovery manifest, uploaded, verified, cataloged, committed to SeenStore*)
(* and deleted locally (StoragePipeline.prepare_batch,                     *)
(* upload_prepared_batch, catalog_uploaded_batch).  A process first        *)
(* recovers the manifests earlier ones left (RecoveryOrchestrator.run,     *)
(* RecoveryManager.recover_one), then plans which scopes to crawl          *)
(* (ResumePlanner) and crawls them.  It may crash between any two steps.   *)
(*                                                                         *)
(* A step is one effect outside the process: a file, a manifest save, a    *)
(* remote transfer, a database commit.  at says which effect comes next    *)
(* for a batch, whether a pipeline worker or recover_one carries it out:   *)
(* from the verification on both run the same calls in the same order.     *)
(* Buffers, queues and workers are ConcurrentRuntime's; here the crawl of  *)
(* a scope is the records it has handed over.                              *)
(***************************************************************************)
EXTENDS Naturals, FiniteSets

CONSTANTS
  Scopes,
  Records,
  ScopeRecords,   \* the records each scope's crawl yields
  BatchIds,       \* bound: batches created over all processes
  Checked,        \* verify_size; FALSE with --trust-rsync-success
  MaxRetries,     \* RetryPolicy.max_retries
  BlockOnFailed,  \* recovery_block_on_failed
  Faults,         \* what may go wrong
  Complete,
  None

FaultKinds == {"crash", "stop", "transient", "permanent", "short", "save"}

ASSUME LifecycleAssumption ==
  /\ ScopeRecords \in [Scopes -> SUBSET Records]
  /\ Complete \notin Records
  /\ Checked \in BOOLEAN /\ BlockOnFailed \in BOOLEAN
  /\ MaxRetries \in Nat
  /\ Faults \subseteq FaultKinds

VARIABLES
  process,    \* no process, startup recovery, or the runtime
  stopping,   \* the runtime takes no more work: a signal or a failure
  todo,       \* pending manifests startup recovery has not looked at
  failures,   \* recover_one has failed in this startup
  planned,    \* the scopes ResumePlan tells the runtime to crawl
  crawled,    \* records of each scope this run has handed to the pipeline
  at,         \* the next effect of each batch
  recs,       \* its records
  owners,     \* its scope_tokens
  manifest,   \* its RecoveryManifest
  localFile,  \* batches with a local Parquet file
  indexFile,  \* batches with a record index beside it
  remote,     \* the remote file of each batch
  catalog,    \* its data_files row
  seen,       \* what SeenStore holds
  complete    \* scopes with a durably complete checkpoint

procVars == <<process, stopping, todo, failures>>
runVars == <<planned, crawled, recs, owners, complete>>
fileVars == <<localFile, indexFile, remote>>
vars == <<procVars, runVars, at, manifest, fileVars, catalog, seen>>

Stages == {"local", "uploaded", "verified", "catalog_registered", "seen_committed",
           "checkpoint_committed", "cleanable", "deleted", "failed"}

(* none: there is no manifest file.  failedFrom and retryable say something *)
(* of failed manifests only.                                                *)
Manifests == [stage : Stages \cup {"none"}, failedFrom : Stages \cup {None},
              retries : Nat, retryable : BOOLEAN]
NoManifest == [stage |-> "none", failedFrom |-> None, retries |-> 0, retryable |-> FALSE]

Preparing == {"parquet", "index", "manifest"}
Delivering == {"upload", "transfer", "uploaded", "verify", "verified", "register", "mark",
               "cataloged", "seen", "marker", "unlink", "unlinkIndex", "close"}
Active == Preparing \cup Delivering
Places == Active \cup {"idle", "done", "failed"}

(* Between two thread calls a batch only waits in a queue.                  *)
Resting == {"idle", "done", "failed", "parquet", "upload", "register"}

Idle == [b \in BatchIds |-> "idle"]

Init ==
  /\ process = "down" /\ stopping = FALSE /\ todo = {} /\ failures = FALSE
  /\ planned = {} /\ crawled = [s \in Scopes |-> {}] /\ at = Idle
  /\ recs = [b \in BatchIds |-> {}] /\ owners = [b \in BatchIds |-> {}]
  /\ manifest = [b \in BatchIds |-> NoManifest]
  /\ localFile = {} /\ indexFile = {} /\ remote = [b \in BatchIds |-> "absent"]
  /\ catalog = [b \in BatchIds |-> "absent"]
  /\ seen = {} /\ complete = {}

-----------------------------------------------------------------------------
(* Manifests.                                                              *)

Advanced(b, stage) == [manifest EXCEPT ![b].stage = stage]

Advance(b, stage, next) ==
  /\ manifest' = Advanced(b, stage)
  /\ at' = [at EXCEPT ![b] = next]
  /\ UNCHANGED <<procVars, runVars, fileVars, catalog, seen>>

Forced(b, stage) ==
  [manifest EXCEPT ![b] =
     [stage |-> stage, failedFrom |-> None, retries |-> @.retries, retryable |-> FALSE]]

(* Mutation: one failure too many.                                         *)
ClassifyLate(kind, retries) == kind = "transient" /\ retries <= MaxRetries
(* The policy is asked with the count after this failure.                   *)
Classify(kind, retries) == kind = "transient" /\ retries < MaxRetries

(* Mutation: forget how far the batch was.                                 *)
FailedFromStart(b, kind) ==
  [manifest EXCEPT ![b] =
     [stage |-> "failed", failedFrom |-> "local", retries |-> @.retries + 1,
      retryable |-> Classify(kind, @.retries + 1)]]

MarkedFailed(b, kind) ==
  [manifest EXCEPT ![b] =
     [stage |-> "failed",
      failedFrom |-> IF @.stage = "failed" THEN @.failedFrom ELSE @.stage,
      retries |-> @.retries + 1,
      retryable |-> Classify(kind, @.retries + 1)]]

(* Mutation: leave what only has to be cleaned.                            *)
PendingUnclean == {b \in BatchIds : manifest[b].stage \notin {"none", "cleanable", "deleted"}}
Pending == {b \in BatchIds : manifest[b].stage \notin {"none", "deleted"}}
Failed(b) == manifest[b].stage = "failed"
Terminal(b) == Failed(b) /\ ~manifest[b].retryable

(* An exception in a pipeline worker stops the run and leaves the manifest  *)
(* at its stage; recover_one marks the manifest.                            *)
Raise(b, kind) ==
  IF process = "crawling"
  THEN /\ at' = [at EXCEPT ![b] = "failed"]
       /\ stopping' = TRUE
       /\ UNCHANGED <<failures, manifest>>
  ELSE /\ at' = [at EXCEPT ![b] = "idle"]
       /\ failures' = TRUE
       /\ manifest' = MarkedFailed(b, kind)
       /\ UNCHANGED stopping

-----------------------------------------------------------------------------
(* The effects of a batch, in their order.                                 *)

(* Mutation: no index beside the file.                                     *)
WriteParquetOnly(b) ==
  /\ at[b] = "parquet"
  /\ localFile' = localFile \cup {b}
  /\ at' = [at EXCEPT ![b] = "manifest"]
  /\ UNCHANGED <<procVars, runVars, manifest, indexFile, remote, catalog, seen>>

WriteParquet(b) ==
  /\ at[b] = "parquet"
  /\ localFile' = localFile \cup {b}
  /\ at' = [at EXCEPT ![b] = "index"]
  /\ UNCHANGED <<procVars, runVars, manifest, indexFile, remote, catalog, seen>>

WriteIndex(b) ==
  /\ at[b] = "index"
  /\ indexFile' = indexFile \cup {b}
  /\ at' = [at EXCEPT ![b] = "manifest"]
  /\ UNCHANGED <<procVars, runVars, manifest, localFile, remote, catalog, seen>>

CreateManifest(b) == at[b] = "manifest" /\ Advance(b, "local", "upload")

(* rsync --partial leaves the part it has sent when it is interrupted; it   *)
(* does not touch a remote file that is already the same.                   *)
StartUpload(b) ==
  /\ at[b] = "upload"
  /\ \/ /\ b \in localFile
        /\ remote' = [remote EXCEPT ![b] = IF @ = "whole" THEN "whole" ELSE "partial"]
        /\ at' = [at EXCEPT ![b] = "transfer"]
        /\ UNCHANGED <<stopping, failures, manifest>>
     \/ /\ b \notin localFile
        /\ Raise(b, "permanent")
        /\ UNCHANGED remote
  /\ UNCHANGED <<process, todo, runVars, localFile, indexFile, catalog, seen>>

(* Mutation: no verification.                                              *)
AcceptAny(file) == TRUE
Accepted(file) == Checked => file = "whole"

EndUpload(b) ==
  /\ at[b] = "transfer"
  /\ \E file \in {"whole"} \cup (IF "short" \in Faults THEN {remote[b]} ELSE {}) :
       /\ remote' = [remote EXCEPT ![b] = file]
       /\ \/ /\ Accepted(file)
             /\ at' = [at EXCEPT ![b] = "uploaded"]
             /\ UNCHANGED <<stopping, failures, manifest>>
          \/ ~Accepted(file) /\ Raise(b, "permanent")
  /\ UNCHANGED <<process, todo, runVars, localFile, indexFile, catalog, seen>>

RecordUploaded(b) == at[b] = "uploaded" /\ Advance(b, "uploaded", "verified")

(* Recovery looks at the remote file of an uploaded manifest again.         *)
VerifyExisting(b) ==
  /\ at[b] = "verify"
  /\ \/ /\ Checked /\ remote[b] = "whole"
        /\ at' = [at EXCEPT ![b] = "verified"]
        /\ UNCHANGED <<stopping, failures, manifest>>
     \/ /\ ~(Checked /\ remote[b] = "whole")
        /\ Raise(b, "permanent")
  /\ UNCHANGED <<process, todo, runVars, fileVars, catalog, seen>>

RecordVerified(b) == at[b] = "verified" /\ Advance(b, "verified", "register")

(* On a conflict the upsert keeps the status the row has.                   *)
Register(b) ==
  /\ at[b] = "register"
  /\ catalog' = [catalog EXCEPT ![b] = IF @ = "absent" THEN "local" ELSE @]
  /\ at' = [at EXCEPT ![b] = "mark"]
  /\ UNCHANGED <<procVars, runVars, manifest, fileVars, seen>>

MarkUploaded(b) ==
  /\ at[b] = "mark"
  /\ catalog' = [catalog EXCEPT ![b] = IF @ = "absent" THEN "absent" ELSE "uploaded"]
  /\ at' = [at EXCEPT ![b] = "cataloged"]
  /\ UNCHANGED <<procVars, runVars, manifest, fileVars, seen>>

RecordCataloged(b) == at[b] = "cataloged" /\ Advance(b, "catalog_registered", "seen")

(* The pipeline still has the records; recovery reads them in the index.    *)
CommitSeen(b) ==
  /\ at[b] = "seen"
  /\ \/ /\ process = "crawling" \/ b \in indexFile
        /\ seen' = seen \cup recs[b]
        /\ at' = [at EXCEPT ![b] = "marker"]
        /\ UNCHANGED <<stopping, failures, manifest>>
     \/ /\ process = "recovering" /\ b \notin indexFile
        /\ Raise(b, "permanent")
        /\ UNCHANGED seen
  /\ UNCHANGED <<process, todo, runVars, fileVars, catalog>>

StageAfter(stage) ==
  CASE stage = "catalog_registered" -> "seen_committed"
    [] stage = "seen_committed" -> "checkpoint_committed"
    [] OTHER -> "cleanable"

(* Three saves in a row, with nothing between them.                         *)
RecordMarker(b) ==
  /\ at[b] = "marker"
  /\ LET stage == StageAfter(manifest[b].stage)
     IN  Advance(b, stage, IF stage = "cleanable" THEN "unlink" ELSE "marker")

Unlink(b) ==
  /\ at[b] = "unlink"
  /\ localFile' = localFile \ {b}
  /\ at' = [at EXCEPT ![b] = "unlinkIndex"]
  /\ UNCHANGED <<procVars, runVars, manifest, indexFile, remote, catalog, seen>>

UnlinkIndex(b) ==
  /\ at[b] = "unlinkIndex"
  /\ indexFile' = indexFile \ {b}
  /\ at' = [at EXCEPT ![b] = "close"]
  /\ UNCHANGED <<procVars, runVars, manifest, localFile, remote, catalog, seen>>

Close(b) ==
  at[b] = "close" /\ Advance(b, "deleted", IF process = "crawling" THEN "done" ELSE "idle")

(* Any call may raise: a timeout the policy knows, or anything else.        *)
CallRaises(b, kind) ==
  /\ kind \in Faults /\ at[b] \in Active
  /\ Raise(b, kind)
  /\ UNCHANGED <<process, todo, runVars, fileVars, catalog, seen>>

(* mark_failed itself may raise, and recover_one swallows that.             *)
FailureNotSaved(b) ==
  /\ "save" \in Faults /\ process = "recovering" /\ at[b] \in Active
  /\ at' = [at EXCEPT ![b] = "idle"] /\ failures' = TRUE
  /\ UNCHANGED <<process, stopping, todo, runVars, manifest, fileVars, catalog, seen>>

-----------------------------------------------------------------------------
(* Startup recovery.                                                       *)

Start ==
  /\ process = "down"
  /\ process' = "recovering" /\ todo' = Pending
  /\ UNCHANGED <<stopping, failures, runVars, at, manifest, fileVars, catalog, seen>>

(* Mutation: a cataloged batch taken for a seen one.                       *)
ResumeSkippingSeen(stage) ==
  CASE stage = "local" -> "upload"
    [] stage = "uploaded" -> "verify"
    [] stage = "verified" -> "register"
    [] stage = "cleanable" -> "unlink"
    [] OTHER -> "marker"
ResumePlace(stage) ==
  CASE stage = "local" -> "upload"
    [] stage = "uploaded" -> "verify"
    [] stage = "verified" -> "register"
    [] stage = "catalog_registered" -> "seen"
    [] stage = "cleanable" -> "unlink"
    [] OTHER -> "marker"

Recovering == process = "recovering" /\ at = Idle

SkipTerminal(b) ==
  /\ Recovering /\ b \in todo /\ Terminal(b)
  /\ todo' = todo \ {b}
  /\ UNCHANGED <<process, stopping, failures, runVars, at, manifest, fileVars, catalog, seen>>

RecoverOne(b) ==
  /\ Recovering /\ b \in todo /\ ~Terminal(b)
  /\ todo' = todo \ {b}
  /\ LET stage == IF Failed(b) THEN manifest[b].failedFrom ELSE manifest[b].stage
     IN  /\ manifest' = IF Failed(b) THEN Forced(b, stage) ELSE manifest
         /\ at' = [at EXCEPT ![b] = ResumePlace(stage)]
  /\ UNCHANGED <<process, stopping, failures, runVars, fileVars, catalog, seen>>

-----------------------------------------------------------------------------
(* The plan and the run.                                                   *)

(* Mutation: deleted manifests still count.                                *)
AllManifestsOf(s) == {b \in BatchIds : manifest[b].stage # "none" /\ s \in owners[b]}
ManifestsOf(s) == {b \in Pending : s \in owners[b]}

Status(s) ==
  IF \E b \in ManifestsOf(s) : Terminal(b) THEN "FAILED_TERMINAL"
  ELSE IF \E b \in ManifestsOf(s) : Failed(b) THEN "FAILED_RETRYABLE"
  ELSE IF ManifestsOf(s) # {} THEN "RECOVERY_PENDING"
  ELSE IF s \in complete THEN "DURABLE_COMPLETE"
  ELSE "INCOMPLETE"

(* Mutation: crawl whatever is not complete.                               *)
CrawlAnyway(s) == Status(s) # "DURABLE_COMPLETE"
ShouldCrawl(s) == Status(s) \in {"INCOMPLETE", "FAILED_RETRYABLE"}

(* What a process forgets when it ends.                                     *)
Ends ==
  /\ process' = "down" /\ stopping' = FALSE /\ todo' = {} /\ failures' = FALSE
  /\ planned' = {} /\ crawled' = [s \in Scopes |-> {}] /\ at' = Idle
  /\ UNCHANGED <<recs, owners, complete, manifest, fileVars, catalog, seen>>

StartupBlocked == Recovering /\ todo = {} /\ BlockOnFailed /\ failures /\ Ends

StartCrawl ==
  /\ Recovering /\ todo = {} /\ ~(BlockOnFailed /\ failures)
  /\ process' = "crawling"
  /\ planned' = {s \in Scopes : ShouldCrawl(s)}
  /\ UNCHANGED <<stopping, todo, failures, crawled, recs, owners, complete, at, manifest,
                 fileVars, catalog, seen>>

Crawling == process = "crawling" /\ ~stopping

(* Records SeenStore does not know become a batch.                          *)
TakeBatch(b) ==
  /\ Crawling /\ recs[b] = {}
  /\ \E rows \in SUBSET {x \in Scopes \X Records :
                           x[1] \in planned /\ x[2] \in ScopeRecords[x[1]] \ crawled[x[1]]
                             /\ x[2] \notin seen} :
       /\ rows # {}
       /\ recs' = [recs EXCEPT ![b] = {x[2] : x \in rows}]
       /\ owners' = [owners EXCEPT ![b] = {x[1] : x \in rows}]
       /\ crawled' = [s \in Scopes |-> crawled[s] \cup {x[2] : x \in {y \in rows : y[1] = s}}]
  /\ at' = [at EXCEPT ![b] = "parquet"]
  /\ UNCHANGED <<procVars, planned, complete, manifest, fileVars, catalog, seen>>

SkipUnchanged(s, r) ==
  /\ Crawling /\ s \in planned /\ r \in (ScopeRecords[s] \ crawled[s]) \cap seen
  /\ crawled' = [crawled EXCEPT ![s] = @ \cup {r}]
  /\ UNCHANGED <<procVars, planned, recs, owners, complete, at, manifest, fileVars, catalog,
                 seen>>

Unfinished(s) == {b \in BatchIds : s \in owners[b] /\ at[b] \notin {"idle", "done"}}

(* Mutation: save without waiting for batches.                             *)
SaveAfterCrawl(s) ==
  /\ process = "crawling" /\ s \in planned \ complete /\ crawled[s] = ScopeRecords[s]
  /\ complete' = complete \cup {s}
  /\ UNCHANGED <<procVars, planned, crawled, recs, owners, at, manifest, fileVars, catalog, seen>>

SaveCheckpoint(s) ==
  /\ process = "crawling" /\ s \in planned \ complete /\ crawled[s] = ScopeRecords[s]
  /\ Unfinished(s) = {}
  /\ complete' = complete \cup {s}
  /\ UNCHANGED <<procVars, planned, crawled, recs, owners, at, manifest, fileVars, catalog, seen>>

RequestShutdown ==
  /\ "stop" \in Faults /\ Crawling
  /\ stopping' = TRUE
  /\ UNCHANGED <<process, todo, failures, runVars, at, manifest, fileVars, catalog, seen>>

FinishRun ==
  /\ process = "crawling" /\ \A b \in BatchIds : at[b] \in Resting
  /\ \/ stopping
     \/ \A s \in planned : s \in complete /\ crawled[s] = ScopeRecords[s] /\ Unfinished(s) = {}
  /\ Ends

Crash == "crash" \in Faults /\ process # "down" /\ Ends

-----------------------------------------------------------------------------
Effect(b) ==
  \/ WriteParquet(b) \/ WriteIndex(b) \/ CreateManifest(b)
  \/ StartUpload(b) \/ EndUpload(b) \/ RecordUploaded(b)
  \/ VerifyExisting(b) \/ RecordVerified(b)
  \/ Register(b) \/ MarkUploaded(b) \/ RecordCataloged(b)
  \/ CommitSeen(b) \/ RecordMarker(b)
  \/ Unlink(b) \/ UnlinkIndex(b) \/ Close(b)

Recovery == StartupBlocked \/ StartCrawl \/ \E b \in BatchIds : SkipTerminal(b) \/ RecoverOne(b)

Run ==
  \/ FinishRun
  \/ \E b \in BatchIds : TakeBatch(b)
  \/ \E s \in Scopes : SaveCheckpoint(s) \/ \E r \in Records : SkipUnchanged(s, r)

Interruption == Crash \/ RequestShutdown \/ \E b \in BatchIds : FailureNotSaved(b)

Next ==
  \/ Start \/ Recovery \/ Run \/ Interruption
  \/ \E b \in BatchIds : Effect(b) \/ \E kind \in {"transient", "permanent"} : CallRaises(b, kind)

Spec == Init /\ [][Next]_vars

(* The crawler is started again whenever it has ended; a process that runs  *)
(* goes on, and so does the thread that carries a batch.                    *)
Fairness ==
  /\ WF_vars(Start) /\ WF_vars(Recovery) /\ WF_vars(Run)
  /\ \A b \in BatchIds : WF_vars(Effect(b))

FairSpec == Spec /\ Fairness

-----------------------------------------------------------------------------
(* Properties.                                                             *)

TypeOK ==
  /\ process \in {"down", "recovering", "crawling"}
  /\ stopping \in BOOLEAN /\ failures \in BOOLEAN
  /\ todo \subseteq BatchIds /\ planned \subseteq Scopes /\ complete \subseteq Scopes
  /\ crawled \in [Scopes -> SUBSET Records] /\ seen \subseteq Records
  /\ at \in [BatchIds -> Places]
  /\ recs \in [BatchIds -> SUBSET Records] /\ owners \in [BatchIds -> SUBSET Scopes]
  /\ manifest \in [BatchIds -> Manifests]
  /\ localFile \subseteq BatchIds /\ indexFile \subseteq BatchIds
  /\ remote \in [BatchIds -> {"absent", "partial", "whole"}]
  /\ catalog \in [BatchIds -> {"absent", "local", "uploaded"}]

Delivered(b) == remote[b] = "whole" /\ catalog[b] = "uploaded"
Stored == {r \in seen : \E b \in BatchIds : r \in recs[b] /\ Delivered(b)}

(* What SeenStore knows is in a whole remote file the catalog calls         *)
(* uploaded: a record skipped as unchanged is never a lost one.             *)
SeenIsStored == seen \subseteq Stored

(* A batch described by a manifest can always be read somewhere: locally,   *)
(* with its index as long as recovery may need it, or delivered and seen.   *)
NeverLost ==
  \A b \in BatchIds : manifest[b].stage # "none" =>
    \/ b \in localFile /\ b \in indexFile
    \/ Delivered(b) /\ recs[b] \subseteq seen

(* A manifest that says deleted leaves nothing behind and lost nothing.     *)
DeletedIsClean ==
  \A b \in BatchIds : manifest[b].stage = "deleted" =>
    b \notin localFile \cup indexFile /\ Delivered(b) /\ recs[b] \subseteq seen

(* The crawl is the abstract one: over all processes, durable records stay  *)
(* durable, and a scope's checkpoint becomes complete only when all its     *)
(* records are durable.                                                     *)
Promise == INSTANCE DurableCrawl WITH
  durable <- Stored,
  checkpoint <- [s \in Scopes |-> IF s \in complete THEN ScopeRecords[s] \cup {Complete} ELSE {}]
KeepsPromise == Promise!Spec

(* No record is in two cataloged files, however often the crawl is          *)
(* interrupted: an unfinished batch is recovered, not crawled again.  (For  *)
(* scopes without common records and a start that failed recovery blocks.)  *)
StoredOnce ==
  \A b, c \in BatchIds :
    b # c /\ catalog[b] # "absent" /\ catalog[c] # "absent" => recs[b] \cap recs[c] = {}

Reached(b) == IF Failed(b) THEN manifest[b].failedFrom ELSE manifest[b].stage

StageOrder(stage) ==
  CASE stage = "none" -> 0 [] stage = "local" -> 1 [] stage = "uploaded" -> 2
    [] stage = "verified" -> 3 [] stage = "catalog_registered" -> 4
    [] stage = "seen_committed" -> 5 [] stage = "checkpoint_committed" -> 6
    [] stage = "cleanable" -> 7 [] stage = "deleted" -> 8

(* Neither a failure, a crash nor a recovery takes a manifest back to work  *)
(* that was done, and the count of its failures is never forgotten.         *)
NeverBackward ==
  [][\A b \in BatchIds : /\ StageOrder(Reached(b)) <= StageOrder(Reached(b)')
                         /\ manifest[b].retries <= manifest'[b].retries]_manifest

(* A manifest that recovery will try again has failed less than max_retries *)
(* times, and what has failed that often was given up.                      *)
RetryBudget ==
  \A b \in BatchIds : Failed(b) /\ manifest[b].retryable => manifest[b].retries < MaxRetries

(* An interruption by itself is no failure: recovery finishes the batch.    *)
InterruptionNeverFails == \A b \in BatchIds : ~Failed(b)

(* From some time on no process is interrupted (a crash where the process   *)
(* would have ended anyway is none).                                        *)
Calm == <>[][Interruption => FinishRun \/ StartupBlocked]_vars

(* When interruptions stop, every manifest is deleted or given up in the    *)
(* end: recovery goes through all stages, whatever failed before.           *)
EveryManifestSettles ==
  Calm => \A b \in BatchIds : []<>(manifest[b].stage \in {"none", "deleted"} \/ Terminal(b))

(* When interruptions stop, every scope becomes complete, unless a batch of *)
(* it was given up or the model has no batch left to crawl it again.        *)
EveryScopeSettles ==
  Calm => \A s \in Scopes :
            <>(\/ s \in complete
               \/ Status(s) = "FAILED_TERMINAL"
               \/ \A b \in BatchIds : recs[b] # {})

-----------------------------------------------------------------------------
(* Why nothing is lost: the inductive invariant.                            *)

(* An accepted upload is a whole file.                                      *)
UploadsAreSound == Checked \/ "short" \notin Faults

FromSeen == {"seen_committed", "checkpoint_committed", "cleanable", "deleted"}
FromCataloged == {"catalog_registered"} \cup FromSeen
FromUploaded == {"uploaded", "verified"} \cup FromCataloged
InWork == Stages \ {"deleted", "failed"}
WithFiles == InWork \ {"cleanable"}

(* What the stage of a manifest, or the one it failed from, guarantees.     *)
StageInv(b) ==
  /\ Failed(b) => manifest[b].failedFrom \in InWork
  /\ Reached(b) \in WithFiles => b \in localFile /\ b \in indexFile
  /\ Reached(b) = "deleted" => b \notin localFile /\ b \notin indexFile
  /\ Reached(b) \in FromUploaded /\ UploadsAreSound => remote[b] = "whole"
  /\ Reached(b) \in FromCataloged => catalog[b] = "uploaded"
  /\ Reached(b) \in FromSeen => recs[b] \subseteq seen

(* What has been done before the next effect of a batch.                    *)
PlaceInv(b) ==
  LET stage == manifest[b].stage IN
  /\ recs[b] = {} => at[b] = "idle" /\ stage = "none"
  /\ at[b] \in Preparing => stage = "none"
  /\ at[b] \in {"index", "manifest"} => b \in localFile
  /\ at[b] = "manifest" => b \in indexFile
  /\ at[b] \in {"upload", "transfer", "uploaded"} => stage = "local"
  /\ at[b] = "uploaded" /\ UploadsAreSound => remote[b] = "whole"
  /\ at[b] \in {"verify", "verified"} => stage = "uploaded"
  /\ at[b] \in {"register", "mark", "cataloged"} => stage = "verified"
  /\ at[b] = "mark" => catalog[b] # "absent"
  /\ at[b] = "cataloged" => catalog[b] = "uploaded"
  /\ at[b] = "seen" => stage = "catalog_registered"
  /\ at[b] = "marker" =>
       /\ stage \in {"catalog_registered", "seen_committed", "checkpoint_committed"}
       /\ recs[b] \subseteq seen
  /\ at[b] \in {"unlink", "unlinkIndex", "close"} => stage = "cleanable"
  /\ at[b] \in {"unlinkIndex", "close"} => b \notin localFile
  /\ at[b] = "close" => b \notin indexFile
  /\ at[b] = "done" => stage = "deleted"

(* Which batches a process works on, and which it still has to recover.     *)
ProcessInv ==
  /\ process = "down" => at = Idle
  /\ process # "recovering" => todo = {}
  /\ process = "recovering" =>
       \A b \in BatchIds :
         /\ at[b] \in Delivering \cup {"idle"}
         /\ b \in todo => at[b] = "idle" /\ manifest[b].stage \in InWork \cup {"failed"}
  /\ process # "crawling" => \A s \in Scopes : crawled[s] = {}

(* A record of the crawl is seen or in a batch of its scope in this run.    *)
CrawlInv ==
  /\ \A s \in Scopes : \A r \in crawled[s] :
       \/ r \in seen
       \/ \E b \in BatchIds : s \in owners[b] /\ r \in recs[b] /\ at[b] # "idle"
  /\ \A s \in complete : ScopeRecords[s] \subseteq seen

LInv ==
  /\ TypeOK
  /\ \A b \in BatchIds : StageInv(b) /\ PlaceInv(b)
  /\ ProcessInv
  /\ CrawlInv
  /\ UploadsAreSound => SeenIsStored

-----------------------------------------------------------------------------
(* Why nothing is stored twice: the inductive invariant.                   *)

OnceSetting ==
  /\ BlockOnFailed
  /\ \A s, t \in Scopes : s # t => ScopeRecords[s] \cap ScopeRecords[t] = {}

(* A batch that may still be stored, or was.                               *)
Live(b) == at[b] # "idle" \/ manifest[b].stage # "none"

OnceInv ==
  /\ \A b \in BatchIds : catalog[b] # "absent" => manifest[b].stage # "none"
  /\ \A b \in BatchIds : \A r \in recs[b] : \E s \in owners[b] : r \in ScopeRecords[s]
  /\ \A b, c \in BatchIds : b # c /\ Live(b) /\ Live(c) => recs[b] \cap recs[c] = {}
  /\ process = "crawling" =>
       \A b \in BatchIds :
         IF at[b] # "idle"
         THEN \A s \in owners[b] : recs[b] \cap ScopeRecords[s] \subseteq crawled[s]
         ELSE b \in Pending => owners[b] \cap planned = {}
  /\ process = "recovering" /\ ~failures =>
       \A b \in Pending : at[b] # "idle" \/ b \in todo \/ Terminal(b)

=============================================================================
