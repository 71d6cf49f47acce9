-------------------------- MODULE BatchLifecycleProofs --------------------------
(***************************************************************************)
(* Proofs about BatchLifecycle: for any scopes, records, retry limit, kinds*)
(* of faults and number of batches, the invariant LInv holds in all        *)
(* processes of a crawl, and with it what is seen, deleted or complete is  *)
(* delivered; no record is stored twice, and an interruption fails nothing.*)
(***************************************************************************)
EXTENDS BatchLifecycle, TLAPS

(* All the step does concerns the batch b.                                 *)
OnlyTouches(b) ==
  \A c \in BatchIds \ {b} :
    /\ at'[c] = at[c] /\ manifest'[c] = manifest[c] /\ recs'[c] = recs[c]
    /\ remote'[c] = remote[c] /\ catalog'[c] = catalog[c]
    /\ c \in localFile' <=> c \in localFile
    /\ c \in indexFile' <=> c \in indexFile

(* What is delivered of a batch stays delivered.                           *)
KeepsDelivery(b) ==
  /\ remote[b] = "whole" => remote'[b] = "whole"
  /\ catalog[b] = "uploaded" => catalog'[b] = "uploaded"

-----------------------------------------------------------------------------
(* A step that does not touch a batch keeps what LInv says of it.          *)
LEMMA Untouched ==
  ASSUME NEW b \in BatchIds, StageInv(b), PlaceInv(b),
         at'[b] = at[b], manifest'[b] = manifest[b], recs'[b] = recs[b],
         remote'[b] = remote[b], catalog'[b] = catalog[b],
         b \in localFile' <=> b \in localFile, b \in indexFile' <=> b \in indexFile,
         seen \subseteq seen'
  PROVE  StageInv(b)' /\ PlaceInv(b)'
<1>1. StageInv(b)'
  BY DEF StageInv, Reached, Failed
<1>2. PlaceInv(b)'
  BY DEF PlaceInv
<1>3. QED BY <1>1, <1>2

(* A process that works on a batch is neither down nor yet to recover it.  *)
LEMMA Busy ==
  ASSUME LInv, NEW b \in BatchIds, at[b] # "idle"
  PROVE  /\ process \in {"recovering", "crawling"}
         /\ b \notin todo
         /\ process = "recovering" => at[b] \in Delivering
BY DEF LInv, TypeOK, ProcessInv, Idle

(* What is left to show of a step of one batch: its own part of LInv.      *)
LEMMA BatchStep ==
  ASSUME LInv, TypeOK', NEW b \in BatchIds,
         process \in {"recovering", "crawling"},
         OnlyTouches(b), KeepsDelivery(b),
         UNCHANGED <<process, runVars>>,
         todo' \subseteq todo, b \notin todo',
         seen \subseteq seen',
         \A r \in seen' \ seen : r \in recs[b] /\ (UploadsAreSound => Delivered(b)'),
         StageInv(b)', PlaceInv(b)',
         process = "crawling" => at'[b] # "idle",
         process = "recovering" => at'[b] \in Delivering \cup {"idle"}
  PROVE  LInv'
<1>1. ASSUME NEW c \in BatchIds PROVE StageInv(c)' /\ PlaceInv(c)'
  <2>1. CASE c = b
    BY <2>1
  <2>2. CASE c # b
    BY <2>2, Untouched DEF OnlyTouches, LInv
  <2>3. QED BY <2>1, <2>2
<1>2. ProcessInv'
  <2>1. ProcessInv /\ process' = process /\ crawled' = crawled
    BY DEF LInv, runVars
  <2>2. ASSUME process = "recovering", NEW c \in BatchIds
        PROVE  /\ at'[c] \in Delivering \cup {"idle"}
               /\ c \in todo' => at'[c] = "idle" /\ manifest'[c].stage \in InWork \cup {"failed"}
    <3>1. CASE c = b
      BY <2>2, <3>1
    <3>2. CASE c # b
      BY <2>1, <2>2, <3>2 DEF ProcessInv, OnlyTouches
    <3>3. QED BY <3>1, <3>2
  <2>3. QED BY <2>1, <2>2 DEF ProcessInv
<1>3. CrawlInv'
  <2>1. ASSUME NEW s \in Scopes, NEW r \in crawled'[s]
        PROVE  \/ r \in seen'
               \/ \E c \in BatchIds : s \in owners'[c] /\ r \in recs'[c] /\ at'[c] # "idle"
    <3>1. process = "crawling" /\ r \in crawled[s]
      BY <2>1 DEF LInv, ProcessInv, runVars
    <3>2. CASE r \in seen
      BY <3>2
    <3>3. CASE \E c \in BatchIds : s \in owners[c] /\ r \in recs[c] /\ at[c] # "idle"
      <4>1. PICK c \in BatchIds : s \in owners[c] /\ r \in recs[c] /\ at[c] # "idle"
        BY <3>3
      <4>2. at'[c] # "idle"
        BY <3>1, <4>1 DEF OnlyTouches
      <4>3. QED BY <4>1, <4>2 DEF runVars
    <3>4. QED BY <3>1, <3>2, <3>3 DEF LInv, CrawlInv
  <2>2. \A s \in complete' : ScopeRecords[s] \subseteq seen'
    BY DEF LInv, CrawlInv, runVars
  <2>3. QED BY <2>1, <2>2 DEF CrawlInv
<1>4. UploadsAreSound => SeenIsStored'
  <2> SUFFICES ASSUME UploadsAreSound, NEW r \in seen'
               PROVE  \E c \in BatchIds : r \in recs'[c] /\ Delivered(c)'
    BY DEF SeenIsStored, Stored
  <2>1. CASE r \in seen
    <3>1. PICK c \in BatchIds : r \in recs[c] /\ Delivered(c)
      BY <2>1 DEF LInv, SeenIsStored, Stored
    <3>2. Delivered(c)'
      BY <3>1 DEF Delivered, OnlyTouches, KeepsDelivery
    <3>3. QED BY <3>1, <3>2 DEF runVars
  <2>2. CASE r \notin seen
    BY <2>2 DEF runVars
  <2>3. QED BY <2>1, <2>2
<1>5. QED BY <1>1, <1>2, <1>3, <1>4 DEF LInv

(* The same for the next effect of a batch some process works on.          *)
LEMMA EffectStep ==
  ASSUME LInv, TypeOK', NEW b \in BatchIds, at[b] # "idle",
         OnlyTouches(b), KeepsDelivery(b),
         UNCHANGED <<process, todo, runVars>>,
         seen \subseteq seen',
         \A r \in seen' \ seen : r \in recs[b] /\ (UploadsAreSound => Delivered(b)'),
         StageInv(b)', PlaceInv(b)',
         process = "crawling" => at'[b] # "idle",
         process = "recovering" => at'[b] \in Delivering \cup {"idle"}
  PROVE  LInv'
<1>1. process \in {"recovering", "crawling"} /\ b \notin todo
  BY Busy
<1>2. QED BY <1>1, BatchStep

-----------------------------------------------------------------------------
(* A manifest save changes the stage of one batch and its next effect.     *)
LEMMA AdvanceFacts ==
  ASSUME LInv, NEW b \in BatchIds, NEW stage \in Stages, NEW next \in Places,
         Advance(b, stage, next)
  PROVE  /\ TypeOK' /\ OnlyTouches(b) /\ KeepsDelivery(b)
         /\ at'[b] = next /\ manifest'[b] = [manifest[b] EXCEPT !.stage = stage]
         /\ UNCHANGED <<procVars, runVars, fileVars, catalog, seen>>
<1> USE DEF Advance, Advanced, procVars, runVars, fileVars
<1>1. TypeOK
  BY DEF LInv
<1>2. manifest' \in [BatchIds -> Manifests] /\ at' \in [BatchIds -> Places]
  BY <1>1 DEF TypeOK, Manifests
<1>3. TypeOK'
  BY <1>1, <1>2 DEF TypeOK
<1>4. OnlyTouches(b) /\ KeepsDelivery(b)
  BY <1>1 DEF TypeOK, OnlyTouches, KeepsDelivery
<1>5. at'[b] = next /\ manifest'[b] = [manifest[b] EXCEPT !.stage = stage]
  BY <1>1 DEF TypeOK, Manifests
<1>6. QED BY <1>3, <1>4, <1>5

(* A save that keeps the guarantees of the batch keeps LInv.               *)
LEMMA AdvanceStep ==
  ASSUME LInv, NEW b \in BatchIds, at[b] # "idle",
         NEW stage \in Stages, NEW next \in Places, Advance(b, stage, next),
         StageInv(b)', PlaceInv(b)',
         process = "crawling" => next # "idle",
         process = "recovering" => next \in Delivering \cup {"idle"}
  PROVE  LInv'
<1>1. /\ TypeOK' /\ OnlyTouches(b) /\ KeepsDelivery(b) /\ at'[b] = next
      /\ UNCHANGED <<process, todo, runVars>> /\ seen' = seen
  BY AdvanceFacts DEF procVars
<1>2. QED BY <1>1, EffectStep

(* The manifest is created when file and index are there. *)
LEMMA CreateManifestStep ==
  ASSUME LInv, NEW b \in BatchIds, CreateManifest(b)
  PROVE  LInv'
<1> DEFINE next == "upload"
<1>1. Advance(b, "local", next) /\ "local" \in Stages /\ next \in Places
  BY DEF CreateManifest, Stages, Places, Active, Preparing, Delivering
<1>2. /\ at'[b] = next /\ manifest'[b] = [manifest[b] EXCEPT !.stage = "local"]
      /\ UNCHANGED <<recs, localFile, indexFile, remote, catalog, seen>>
  BY <1>1, AdvanceFacts DEF runVars, fileVars
<1>3. StageInv(b) /\ PlaceInv(b) /\ manifest[b] \in Manifests
  BY DEF LInv, TypeOK
<1>4. StageInv(b)'
  BY <1>2, <1>3 DEF CreateManifest, StageInv, PlaceInv, Reached, Failed, Manifests, InWork,
                    WithFiles, Stages, FromUploaded, FromCataloged, FromSeen
<1>5. PlaceInv(b)'
  BY <1>2, <1>3 DEF CreateManifest, PlaceInv, Manifests, Preparing
<1>6. at[b] # "idle" /\ (process = "recovering" => at[b] \in Delivering)
  BY Busy DEF CreateManifest
<1>7. QED BY <1>1, <1>4, <1>5, <1>6, AdvanceStep DEF CreateManifest, Preparing, Delivering

(* The save of uploaded follows an accepted upload. *)
LEMMA RecordUploadedStep ==
  ASSUME LInv, NEW b \in BatchIds, RecordUploaded(b)
  PROVE  LInv'
<1> DEFINE next == "verified"
<1>1. Advance(b, "uploaded", next) /\ "uploaded" \in Stages /\ next \in Places
  BY DEF RecordUploaded, Stages, Places, Active, Preparing, Delivering
<1>2. /\ at'[b] = next /\ manifest'[b] = [manifest[b] EXCEPT !.stage = "uploaded"]
      /\ UNCHANGED <<recs, localFile, indexFile, remote, catalog, seen>>
  BY <1>1, AdvanceFacts DEF runVars, fileVars
<1>3. StageInv(b) /\ PlaceInv(b) /\ manifest[b] \in Manifests
  BY DEF LInv, TypeOK
<1>4. StageInv(b)'
  BY <1>2, <1>3 DEF RecordUploaded, StageInv, PlaceInv, Reached, Failed, Manifests, InWork,
                    WithFiles, Stages, FromUploaded, FromCataloged, FromSeen
<1>5. PlaceInv(b)'
  BY <1>2, <1>3 DEF RecordUploaded, PlaceInv, Manifests, Preparing
<1>6. at[b] # "idle" /\ (process = "recovering" => at[b] \in Delivering)
  BY Busy DEF RecordUploaded
<1>7. QED BY <1>1, <1>4, <1>5, <1>6, AdvanceStep DEF RecordUploaded, Preparing, Delivering

(* The save of verified follows that of uploaded. *)
LEMMA RecordVerifiedStep ==
  ASSUME LInv, NEW b \in BatchIds, RecordVerified(b)
  PROVE  LInv'
<1> DEFINE next == "register"
<1>1. Advance(b, "verified", next) /\ "verified" \in Stages /\ next \in Places
  BY DEF RecordVerified, Stages, Places, Active, Preparing, Delivering
<1>2. /\ at'[b] = next /\ manifest'[b] = [manifest[b] EXCEPT !.stage = "verified"]
      /\ UNCHANGED <<recs, localFile, indexFile, remote, catalog, seen>>
  BY <1>1, AdvanceFacts DEF runVars, fileVars
<1>3. StageInv(b) /\ PlaceInv(b) /\ manifest[b] \in Manifests
  BY DEF LInv, TypeOK
<1>4. StageInv(b)'
  BY <1>2, <1>3 DEF RecordVerified, StageInv, PlaceInv, Reached, Failed, Manifests, InWork,
                    WithFiles, Stages, FromUploaded, FromCataloged, FromSeen
<1>5. PlaceInv(b)'
  BY <1>2, <1>3 DEF RecordVerified, PlaceInv, Manifests, Preparing
<1>6. at[b] # "idle" /\ (process = "recovering" => at[b] \in Delivering)
  BY Busy DEF RecordVerified
<1>7. QED BY <1>1, <1>4, <1>5, <1>6, AdvanceStep DEF RecordVerified, Preparing, Delivering

(* The save of catalog_registered follows the catalog's update. *)
LEMMA RecordCatalogedStep ==
  ASSUME LInv, NEW b \in BatchIds, RecordCataloged(b)
  PROVE  LInv'
<1> DEFINE next == "seen"
<1>1. Advance(b, "catalog_registered", next) /\ "catalog_registered" \in Stages /\ next \in Places
  BY DEF RecordCataloged, Stages, Places, Active, Preparing, Delivering
<1>2. /\ at'[b] = next /\ manifest'[b] = [manifest[b] EXCEPT !.stage = "catalog_registered"]
      /\ UNCHANGED <<recs, localFile, indexFile, remote, catalog, seen>>
  BY <1>1, AdvanceFacts DEF runVars, fileVars
<1>3. StageInv(b) /\ PlaceInv(b) /\ manifest[b] \in Manifests
  BY DEF LInv, TypeOK
<1>4. StageInv(b)'
  BY <1>2, <1>3 DEF RecordCataloged, StageInv, PlaceInv, Reached, Failed, Manifests, InWork,
                    WithFiles, Stages, FromUploaded, FromCataloged, FromSeen
<1>5. PlaceInv(b)'
  BY <1>2, <1>3 DEF RecordCataloged, PlaceInv, Manifests, Preparing
<1>6. at[b] # "idle" /\ (process = "recovering" => at[b] \in Delivering)
  BY Busy DEF RecordCataloged
<1>7. QED BY <1>1, <1>4, <1>5, <1>6, AdvanceStep DEF RecordCataloged, Preparing, Delivering

(* The manifest is closed when file and index are deleted. *)
LEMMA CloseStep ==
  ASSUME LInv, NEW b \in BatchIds, Close(b)
  PROVE  LInv'
<1> DEFINE next == IF process = "crawling" THEN "done" ELSE "idle"
<1>1. Advance(b, "deleted", next) /\ "deleted" \in Stages /\ next \in Places
  BY DEF Close, Stages, Places, Active, Preparing, Delivering
<1>2. /\ at'[b] = next /\ manifest'[b] = [manifest[b] EXCEPT !.stage = "deleted"]
      /\ UNCHANGED <<recs, localFile, indexFile, remote, catalog, seen>>
  BY <1>1, AdvanceFacts DEF runVars, fileVars
<1>3. StageInv(b) /\ PlaceInv(b) /\ manifest[b] \in Manifests
  BY DEF LInv, TypeOK
<1>4. StageInv(b)'
  BY <1>2, <1>3 DEF Close, StageInv, PlaceInv, Reached, Failed, Manifests, InWork,
                    WithFiles, Stages, FromUploaded, FromCataloged, FromSeen
<1>5. PlaceInv(b)'
  BY <1>2, <1>3 DEF Close, PlaceInv, Manifests, Preparing
<1>6. at[b] # "idle" /\ (process = "recovering" => at[b] \in Delivering)
  BY Busy DEF Close
<1>7. QED BY <1>1, <1>4, <1>5, <1>6, AdvanceStep DEF Close, Preparing, Delivering

(* The saves after the commit to SeenStore.                                *)
LEMMA RecordMarkerStep ==
  ASSUME LInv, NEW b \in BatchIds, RecordMarker(b)
  PROVE  LInv'
<1> DEFINE stage == StageAfter(manifest[b].stage)
           next == IF stage = "cleanable" THEN "unlink" ELSE "marker"
<1>0. StageInv(b) /\ PlaceInv(b) /\ manifest[b] \in Manifests
  BY DEF LInv, TypeOK
<1>1. Advance(b, stage, next) /\ stage \in Stages /\ next \in Places
  BY DEF RecordMarker, StageAfter, Stages, Places, Active, Delivering
<1>2. /\ at'[b] = next /\ manifest'[b] = [manifest[b] EXCEPT !.stage = stage]
      /\ UNCHANGED <<recs, localFile, indexFile, remote, catalog, seen>>
  BY <1>1, AdvanceFacts DEF runVars, fileVars
<1>3. /\ manifest[b].stage \in {"catalog_registered", "seen_committed", "checkpoint_committed"}
      /\ stage \in {"seen_committed", "checkpoint_committed", "cleanable"}
      /\ recs[b] \subseteq seen /\ recs[b] # {}
  BY <1>0 DEF RecordMarker, StageAfter, PlaceInv
<1> HIDE DEF stage
<1>4. StageInv(b)'
  BY <1>0, <1>2, <1>3 DEF StageInv, Reached, Failed, Manifests, InWork, WithFiles,
                    Stages, FromUploaded, FromCataloged, FromSeen
<1>5. PlaceInv(b)'
  BY <1>0, <1>2, <1>3 DEF PlaceInv, Manifests, Preparing
<1>6. at[b] # "idle"
  BY DEF RecordMarker
<1>7. QED BY <1>1, <1>4, <1>5, <1>6, AdvanceStep DEF Delivering

-----------------------------------------------------------------------------
(* A failed call takes its batch out of the process, and in recovery marks *)
(* the manifest as failed from the stage it had.                           *)
LEMMA RaiseStep ==
  ASSUME LInv, NEW b \in BatchIds, at[b] \in Active, NEW kind, Raise(b, kind),
         UNCHANGED <<process, todo, runVars, localFile, indexFile, catalog, seen>>,
         remote' \in [BatchIds -> {"absent", "partial", "whole"}],
         \A c \in BatchIds \ {b} : remote'[c] = remote[c],
         remote[b] = "whole" => remote'[b] = "whole"
  PROVE  LInv'
<1> USE DEF runVars
<1>0. /\ TypeOK /\ StageInv(b) /\ PlaceInv(b) /\ manifest[b] \in Manifests
      /\ at[b] # "idle"
  BY DEF LInv, TypeOK, Active, Preparing, Delivering
<1>1. CASE process = "crawling"
  <2>1. at' = [at EXCEPT ![b] = "failed"] /\ stopping' = TRUE /\ UNCHANGED <<failures, manifest>>
    BY <1>1 DEF Raise
  <2>2. TypeOK'
    BY <1>0, <2>1 DEF TypeOK, Places
  <2>3. OnlyTouches(b) /\ KeepsDelivery(b) /\ at'[b] = "failed"
    BY <1>0, <2>1 DEF OnlyTouches, KeepsDelivery, TypeOK
  <2>4. StageInv(b)'
    BY <1>0, <2>1 DEF StageInv, Reached, Failed
  <2>5. PlaceInv(b)'
    BY <1>0, <2>1, <2>3 DEF PlaceInv, Preparing, Active, Delivering
  <2>6. QED BY <1>0, <1>1, <2>2, <2>3, <2>4, <2>5, EffectStep
<1>2. CASE process = "recovering"
  <2>1. at' = [at EXCEPT ![b] = "idle"] /\ failures' = TRUE /\ manifest' = MarkedFailed(b, kind)
        /\ stopping' = stopping
    BY <1>2 DEF Raise
  <2>2. at[b] \in Delivering /\ manifest[b].stage \in InWork
    BY <1>0, <1>2, Busy DEF PlaceInv, Delivering, InWork, Stages
  <2>3. /\ manifest'[b] \in Manifests /\ manifest'[b].stage = "failed"
        /\ manifest'[b].failedFrom = manifest[b].stage
        /\ manifest' \in [BatchIds -> Manifests]
        /\ \A c \in BatchIds \ {b} : manifest'[c] = manifest[c]
    <3>1. PICK retryable \in BOOLEAN :
            manifest' = [manifest EXCEPT ![b] =
                           [stage |-> "failed", failedFrom |-> manifest[b].stage,
                            retries |-> manifest[b].retries + 1, retryable |-> retryable]]
      BY <1>0, <2>1, <2>2 DEF MarkedFailed, Classify, InWork
    <3>2. [stage |-> "failed", failedFrom |-> manifest[b].stage,
           retries |-> manifest[b].retries + 1, retryable |-> retryable] \in Manifests
      BY <1>0, <2>2 DEF Manifests, InWork, Stages
    <3>3. QED BY <1>0, <3>1, <3>2 DEF TypeOK
  <2>4. TypeOK'
    BY <1>0, <2>1, <2>3 DEF TypeOK, Places
  <2>5. OnlyTouches(b) /\ KeepsDelivery(b) /\ at'[b] = "idle"
    BY <1>0, <2>1, <2>3 DEF OnlyTouches, KeepsDelivery, TypeOK
  <2>6. Reached(b)' = Reached(b) /\ Failed(b)'
    BY <2>2, <2>3 DEF Reached, Failed, InWork
  <2>7. StageInv(b)'
    BY <1>0, <2>2, <2>3, <2>6 DEF StageInv
  <2>8. PlaceInv(b)'
    BY <1>0, <2>3, <2>5 DEF PlaceInv, Preparing
  <2>9. QED BY <1>0, <1>2, <2>4, <2>5, <2>7, <2>8, EffectStep
<1>3. QED BY <1>0, <1>1, <1>2, Busy

(* The local file is written before its index.                            *)
LEMMA WriteParquetStep ==
  ASSUME LInv, NEW b \in BatchIds, WriteParquet(b)
  PROVE  LInv'
<1> USE DEF WriteParquet, procVars, runVars, fileVars
<1>1. TypeOK /\ StageInv(b) /\ PlaceInv(b) /\ at[b] # "idle"
  BY DEF LInv
<1>2. TypeOK'
  BY <1>1 DEF TypeOK, Places, Active, Preparing, Delivering
<1>3. OnlyTouches(b) /\ KeepsDelivery(b) /\ at'[b] = "index"
  BY <1>1 DEF OnlyTouches, KeepsDelivery, TypeOK
<1>4. StageInv(b)'
  BY <1>1 DEF StageInv, PlaceInv, Preparing, Reached, Failed, InWork, WithFiles,
                Stages, FromUploaded, FromCataloged, FromSeen
<1>5. PlaceInv(b)'
  BY <1>1, <1>3 DEF TypeOK, PlaceInv, Preparing
<1>6. process = "recovering" => at[b] \in Delivering
  BY <1>1, Busy
<1>7. QED BY <1>1, <1>2, <1>3, <1>4, <1>5, <1>6, EffectStep DEF Delivering

(* The index is written before the manifest.                              *)
LEMMA WriteIndexStep ==
  ASSUME LInv, NEW b \in BatchIds, WriteIndex(b)
  PROVE  LInv'
<1> USE DEF WriteIndex, procVars, runVars, fileVars
<1>1. TypeOK /\ StageInv(b) /\ PlaceInv(b) /\ at[b] # "idle"
  BY DEF LInv
<1>2. TypeOK'
  BY <1>1 DEF TypeOK, Places, Active, Preparing, Delivering
<1>3. OnlyTouches(b) /\ KeepsDelivery(b) /\ at'[b] = "manifest"
  BY <1>1 DEF OnlyTouches, KeepsDelivery, TypeOK
<1>4. StageInv(b)'
  BY <1>1 DEF StageInv, PlaceInv, Preparing, Reached, Failed, InWork, WithFiles,
                Stages, FromUploaded, FromCataloged, FromSeen
<1>5. PlaceInv(b)'
  BY <1>1, <1>3 DEF TypeOK, PlaceInv, Preparing
<1>6. process = "recovering" => at[b] \in Delivering
  BY <1>1, Busy
<1>7. QED BY <1>1, <1>2, <1>3, <1>4, <1>5, <1>6, EffectStep DEF Delivering

(* The upsert of the row keeps a row that is there.                       *)
LEMMA RegisterStep ==
  ASSUME LInv, NEW b \in BatchIds, Register(b)
  PROVE  LInv'
<1> USE DEF Register, procVars, runVars, fileVars
<1>1. TypeOK /\ StageInv(b) /\ PlaceInv(b) /\ at[b] # "idle"
  BY DEF LInv
<1>2. TypeOK'
  BY <1>1 DEF TypeOK, Places, Active, Preparing, Delivering
<1>3. OnlyTouches(b) /\ KeepsDelivery(b) /\ at'[b] = "mark"
  BY <1>1 DEF OnlyTouches, KeepsDelivery, TypeOK
<1>4. StageInv(b)'
  BY <1>1 DEF StageInv, PlaceInv, Reached, Failed, InWork, WithFiles,
                Stages, FromUploaded, FromCataloged, FromSeen
<1>5. PlaceInv(b)'
  BY <1>1, <1>3 DEF TypeOK, PlaceInv, Preparing
<1>6. process = "recovering" => at[b] \in Delivering
  BY <1>1, Busy
<1>7. QED BY <1>1, <1>2, <1>3, <1>4, <1>5, <1>6, EffectStep DEF Delivering

(* There is a row to mark as uploaded.                                    *)
LEMMA MarkUploadedStep ==
  ASSUME LInv, NEW b \in BatchIds, MarkUploaded(b)
  PROVE  LInv'
<1> USE DEF MarkUploaded, procVars, runVars, fileVars
<1>1. TypeOK /\ StageInv(b) /\ PlaceInv(b) /\ at[b] # "idle"
  BY DEF LInv
<1>2. TypeOK'
  BY <1>1 DEF TypeOK, Places, Active, Preparing, Delivering
<1>3. OnlyTouches(b) /\ KeepsDelivery(b) /\ at'[b] = "cataloged"
  BY <1>1 DEF OnlyTouches, KeepsDelivery, TypeOK
<1>4. StageInv(b)'
  BY <1>1 DEF StageInv, PlaceInv, Reached, Failed, InWork, WithFiles,
                Stages, FromUploaded, FromCataloged, FromSeen
<1>5. PlaceInv(b)'
  BY <1>1, <1>3 DEF TypeOK, PlaceInv, Preparing
<1>6. process = "recovering" => at[b] \in Delivering
  BY <1>1, Busy
<1>7. QED BY <1>1, <1>2, <1>3, <1>4, <1>5, <1>6, EffectStep DEF Delivering

(* The local file of a seen batch is deleted.                             *)
LEMMA UnlinkStep ==
  ASSUME LInv, NEW b \in BatchIds, Unlink(b)
  PROVE  LInv'
<1> USE DEF Unlink, procVars, runVars, fileVars
<1>1. TypeOK /\ StageInv(b) /\ PlaceInv(b) /\ at[b] # "idle"
  BY DEF LInv
<1>2. TypeOK'
  BY <1>1 DEF TypeOK, Places, Active, Preparing, Delivering
<1>3. OnlyTouches(b) /\ KeepsDelivery(b) /\ at'[b] = "unlinkIndex"
  BY <1>1 DEF OnlyTouches, KeepsDelivery, TypeOK
<1>4. StageInv(b)'
  BY <1>1 DEF StageInv, PlaceInv, Reached, Failed, InWork, WithFiles,
                Stages, FromUploaded, FromCataloged, FromSeen
<1>5. PlaceInv(b)'
  BY <1>1, <1>3 DEF TypeOK, PlaceInv, Preparing
<1>6. process = "recovering" => at[b] \in Delivering
  BY <1>1, Busy
<1>7. QED BY <1>1, <1>2, <1>3, <1>4, <1>5, <1>6, EffectStep DEF Delivering

(* The index goes after the file.                                         *)
LEMMA UnlinkIndexStep ==
  ASSUME LInv, NEW b \in BatchIds, UnlinkIndex(b)
  PROVE  LInv'
<1> USE DEF UnlinkIndex, procVars, runVars, fileVars
<1>1. TypeOK /\ StageInv(b) /\ PlaceInv(b) /\ at[b] # "idle"
  BY DEF LInv
<1>2. TypeOK'
  BY <1>1 DEF TypeOK, Places, Active, Preparing, Delivering
<1>3. OnlyTouches(b) /\ KeepsDelivery(b) /\ at'[b] = "close"
  BY <1>1 DEF OnlyTouches, KeepsDelivery, TypeOK
<1>4. StageInv(b)'
  BY <1>1 DEF StageInv, PlaceInv, Reached, Failed, InWork, WithFiles,
                Stages, FromUploaded, FromCataloged, FromSeen
<1>5. PlaceInv(b)'
  BY <1>1, <1>3 DEF TypeOK, PlaceInv, Preparing
<1>6. process = "recovering" => at[b] \in Delivering
  BY <1>1, Busy
<1>7. QED BY <1>1, <1>2, <1>3, <1>4, <1>5, <1>6, EffectStep DEF Delivering

(* An upload has a local file to send, or fails.                           *)
LEMMA StartUploadStep ==
  ASSUME LInv, NEW b \in BatchIds, StartUpload(b)
  PROVE  LInv'
<1> USE DEF runVars, fileVars
<1>1. /\ TypeOK /\ StageInv(b) /\ PlaceInv(b) /\ at[b] = "upload"
      /\ UNCHANGED <<process, todo, runVars, localFile, indexFile, catalog, seen>>
  BY DEF LInv, StartUpload
<1>2. CASE b \notin localFile
  <2>1. PICK kind : Raise(b, kind) /\ remote' = remote
    BY <1>2 DEF StartUpload
  <2>2. remote' \in [BatchIds -> {"absent", "partial", "whole"}]
    BY <1>1, <2>1 DEF TypeOK
  <2>3. QED BY <1>1, <2>1, <2>2, RaiseStep DEF Active, Delivering
<1>3. CASE b \in localFile
  <2>1. /\ remote' = [remote EXCEPT ![b] = IF remote[b] = "whole" THEN "whole" ELSE "partial"]
        /\ at' = [at EXCEPT ![b] = "transfer"]
        /\ UNCHANGED <<stopping, failures, manifest>>
    BY <1>3 DEF StartUpload
  <2>2. TypeOK'
    BY <1>1, <2>1 DEF TypeOK, Places, Active, Delivering
  <2>3. OnlyTouches(b) /\ KeepsDelivery(b) /\ at'[b] = "transfer"
    BY <1>1, <2>1 DEF OnlyTouches, KeepsDelivery, TypeOK
  <2>4. StageInv(b)'
    BY <1>1, <2>1, <2>3 DEF StageInv, Reached, Failed, KeepsDelivery
  <2>5. PlaceInv(b)'
    BY <1>1, <2>1, <2>3 DEF PlaceInv, Preparing
  <2>6. QED BY <1>1, <2>1, <2>2, <2>3, <2>4, <2>5, EffectStep DEF Delivering
<1>4. QED BY <1>2, <1>3

(* An upload that counts as done has sent the whole file.                  *)
LEMMA EndUploadStep ==
  ASSUME LInv, NEW b \in BatchIds, EndUpload(b)
  PROVE  LInv'
<1> USE DEF runVars, fileVars
<1>1. /\ TypeOK /\ StageInv(b) /\ PlaceInv(b) /\ at[b] = "transfer"
      /\ UNCHANGED <<process, todo, runVars, localFile, indexFile, catalog, seen>>
  BY DEF LInv, EndUpload
<1>2. PICK file \in {"whole"} \cup (IF "short" \in Faults THEN {remote[b]} ELSE {}) :
        /\ remote' = [remote EXCEPT ![b] = file]
        /\ \/ /\ Accepted(file)
              /\ at' = [at EXCEPT ![b] = "uploaded"]
              /\ UNCHANGED <<stopping, failures, manifest>>
           \/ ~Accepted(file) /\ Raise(b, "permanent")
  BY DEF EndUpload
<1>3. /\ file \in {"whole", remote[b]}
      /\ Accepted(file) /\ UploadsAreSound => file = "whole"
  BY <1>2 DEF Accepted, UploadsAreSound
<1>4. /\ remote' \in [BatchIds -> {"absent", "partial", "whole"}] /\ remote'[b] = file
      /\ \A c \in BatchIds \ {b} : remote'[c] = remote[c]
  BY <1>1, <1>2, <1>3 DEF TypeOK
<1>5. CASE ~Accepted(file)
  <2>1. Raise(b, "permanent")
    BY <1>2, <1>5
  <2>2. QED BY <1>1, <1>3, <1>4, <2>1, RaiseStep DEF Active, Delivering
<1>6. CASE Accepted(file)
  <2>1. at' = [at EXCEPT ![b] = "uploaded"] /\ UNCHANGED <<stopping, failures, manifest>>
    BY <1>2, <1>6
  <2>2. TypeOK'
    BY <1>1, <1>4, <2>1 DEF TypeOK, Places, Active, Delivering
  <2>3. OnlyTouches(b) /\ KeepsDelivery(b) /\ at'[b] = "uploaded"
    BY <1>1, <1>3, <1>4, <2>1 DEF OnlyTouches, KeepsDelivery, TypeOK
  <2>4. StageInv(b)'
    BY <1>1, <2>1, <2>3 DEF StageInv, Reached, Failed, KeepsDelivery
  <2>5. PlaceInv(b)'
    BY <1>1, <1>3, <1>4, <1>6, <2>1, <2>3 DEF PlaceInv, Preparing
  <2>6. QED BY <1>1, <2>1, <2>2, <2>3, <2>4, <2>5, EffectStep DEF Delivering
<1>7. QED BY <1>5, <1>6

(* Recovery goes on with an uploaded batch after a look at its remote file.*)
LEMMA VerifyExistingStep ==
  ASSUME LInv, NEW b \in BatchIds, VerifyExisting(b)
  PROVE  LInv'
<1> USE DEF runVars, fileVars
<1>1. /\ TypeOK /\ StageInv(b) /\ PlaceInv(b) /\ at[b] = "verify"
      /\ UNCHANGED <<process, todo, runVars, fileVars, catalog, seen>>
  BY DEF LInv, VerifyExisting
<1>2. CASE Raise(b, "permanent")
  <2>1. remote' \in [BatchIds -> {"absent", "partial", "whole"}]
    BY <1>1 DEF TypeOK
  <2>2. QED BY <1>1, <1>2, <2>1, RaiseStep DEF Active, Delivering
<1>3. CASE at' = [at EXCEPT ![b] = "verified"] /\ UNCHANGED <<stopping, failures, manifest>>
  <2>1. TypeOK'
    BY <1>1, <1>3 DEF TypeOK, Places, Active, Delivering
  <2>2. OnlyTouches(b) /\ KeepsDelivery(b) /\ at'[b] = "verified"
    BY <1>1, <1>3 DEF OnlyTouches, KeepsDelivery, TypeOK
  <2>3. StageInv(b)'
    BY <1>1, <1>3 DEF StageInv, Reached, Failed
  <2>4. PlaceInv(b)'
    BY <1>1, <1>3, <2>2 DEF PlaceInv, Preparing
  <2>5. QED BY <1>1, <1>3, <2>1, <2>2, <2>3, <2>4, EffectStep DEF Delivering
<1>4. QED BY <1>2, <1>3 DEF VerifyExisting

(* What is committed to SeenStore is delivered.                            *)
LEMMA CommitSeenStep ==
  ASSUME LInv, NEW b \in BatchIds, CommitSeen(b)
  PROVE  LInv'
<1> USE DEF runVars, fileVars
<1>1. /\ TypeOK /\ StageInv(b) /\ PlaceInv(b) /\ at[b] = "seen"
      /\ UNCHANGED <<process, todo, runVars, fileVars, catalog>>
  BY DEF LInv, CommitSeen
<1>2. CASE Raise(b, "permanent") /\ UNCHANGED seen
  <2>1. remote' \in [BatchIds -> {"absent", "partial", "whole"}]
    BY <1>1 DEF TypeOK
  <2>2. QED BY <1>1, <1>2, <2>1, RaiseStep DEF Active, Delivering
<1>3. CASE /\ seen' = seen \cup recs[b] /\ at' = [at EXCEPT ![b] = "marker"]
           /\ UNCHANGED <<stopping, failures, manifest>>
  <2>1. TypeOK'
    BY <1>1, <1>3 DEF TypeOK, Places, Active, Delivering
  <2>2. OnlyTouches(b) /\ KeepsDelivery(b) /\ at'[b] = "marker"
    BY <1>1, <1>3 DEF OnlyTouches, KeepsDelivery, TypeOK
  <2>3. StageInv(b)'
    BY <1>1, <1>3 DEF StageInv, Reached, Failed
  <2>4. PlaceInv(b)'
    BY <1>1, <1>3, <2>2 DEF PlaceInv, Preparing
  <2>5. manifest[b].stage = "catalog_registered"
    BY <1>1 DEF PlaceInv
  <2>6. UploadsAreSound => Delivered(b)'
    BY <1>1, <2>5 DEF StageInv, Reached, Failed, FromUploaded, FromCataloged, Delivered
  <2>7. QED BY <1>1, <1>3, <2>1, <2>2, <2>3, <2>4, <2>6, EffectStep DEF Delivering
<1>4. QED BY <1>2, <1>3 DEF CommitSeen

(* A call that raises leaves the files as they are.                        *)
LEMMA CallRaisesStep ==
  ASSUME LInv, NEW b \in BatchIds, NEW kind, CallRaises(b, kind)
  PROVE  LInv'
<1>1. remote' \in [BatchIds -> {"absent", "partial", "whole"}]
  BY DEF CallRaises, LInv, TypeOK, fileVars
<1>2. QED BY <1>1, RaiseStep DEF CallRaises, runVars, fileVars

(* A failure that is not saved leaves the manifest where it was.           *)
LEMMA FailureNotSavedStep ==
  ASSUME LInv, NEW b \in BatchIds, FailureNotSaved(b)
  PROVE  LInv'
<1> USE DEF FailureNotSaved, runVars, fileVars
<1>1. TypeOK /\ StageInv(b) /\ PlaceInv(b) /\ at[b] # "idle"
  BY DEF LInv, Active, Preparing, Delivering
<1>2. TypeOK'
  BY <1>1 DEF TypeOK, Places
<1>3. OnlyTouches(b) /\ KeepsDelivery(b) /\ at'[b] = "idle"
  BY <1>1 DEF OnlyTouches, KeepsDelivery, TypeOK
<1>4. StageInv(b)'
  BY <1>1 DEF StageInv, Reached, Failed
<1>5. PlaceInv(b)'
  BY <1>1, <1>3 DEF PlaceInv, Preparing
<1>6. QED BY <1>1, <1>2, <1>3, <1>4, <1>5, EffectStep

-----------------------------------------------------------------------------
(* A step of the process that touches no batch.                            *)
LEMMA ProcessStep ==
  ASSUME LInv, TypeOK', ProcessInv', CrawlInv',
         UNCHANGED <<at, manifest, recs, fileVars, catalog, seen>>
  PROVE  LInv'
<1> USE DEF fileVars
<1>1. ASSUME NEW b \in BatchIds PROVE StageInv(b)' /\ PlaceInv(b)'
  BY Untouched DEF LInv
<1>2. UploadsAreSound => SeenIsStored'
  BY DEF LInv, SeenIsStored, Stored, Delivered
<1>3. QED BY <1>1, <1>2 DEF LInv

(* Startup recovery begins with the pending manifests.                     *)
LEMMA StartStep ==
  ASSUME LInv, Start
  PROVE  LInv'
<1> USE DEF Start, runVars, fileVars
<1>1. TypeOK'
  BY DEF LInv, TypeOK, Pending
<1>2. ProcessInv'
  <2>1. ASSUME NEW b \in BatchIds
        PROVE  /\ at[b] = "idle"
               /\ b \in Pending => manifest[b].stage \in InWork \cup {"failed"}
    BY DEF LInv, TypeOK, ProcessInv, Idle, Pending, Manifests, InWork, Stages
  <2>2. QED BY <2>1 DEF LInv, ProcessInv
<1>3. CrawlInv'
  BY DEF LInv, CrawlInv
<1>4. QED BY <1>1, <1>2, <1>3, ProcessStep

(* Recovery passes a manifest that was given up.                           *)
LEMMA SkipTerminalStep ==
  ASSUME LInv, NEW b \in BatchIds, SkipTerminal(b)
  PROVE  LInv'
<1> USE DEF SkipTerminal, Recovering, runVars, fileVars
<1>1. TypeOK'
  BY DEF LInv, TypeOK
<1>2. ProcessInv'
  BY DEF LInv, ProcessInv
<1>3. CrawlInv'
  BY DEF LInv, CrawlInv
<1>4. QED BY <1>1, <1>2, <1>3, ProcessStep

(* Recovery takes a batch up at the stage it had, or had failed from.      *)
LEMMA RecoverOneStep ==
  ASSUME LInv, NEW b \in BatchIds, RecoverOne(b)
  PROVE  LInv'
<1> USE DEF runVars, fileVars
<1> DEFINE stage == Reached(b)
<1>1. /\ TypeOK /\ StageInv(b) /\ PlaceInv(b) /\ manifest[b] \in Manifests
      /\ process = "recovering" /\ b \in todo /\ todo' = todo \ {b}
      /\ UNCHANGED <<process, stopping, failures, runVars, fileVars, catalog, seen>>
  BY DEF LInv, TypeOK, RecoverOne, Recovering
<1>2. /\ manifest' = IF Failed(b) THEN Forced(b, stage) ELSE manifest
      /\ at' = [at EXCEPT ![b] = ResumePlace(stage)]
  BY DEF RecoverOne, Reached
<1>3. at[b] = "idle" /\ manifest[b].stage \in InWork \cup {"failed"}
  BY <1>1 DEF LInv, ProcessInv
<1>4. stage \in InWork /\ recs[b] # {}
  BY <1>1, <1>3 DEF Reached, Failed, StageInv, PlaceInv, InWork, Stages
<1>5. /\ manifest' \in [BatchIds -> Manifests] /\ manifest'[b].stage = stage
      /\ \A c \in BatchIds \ {b} : manifest'[c] = manifest[c]
  <2>1. CASE Failed(b)
    <3>1. manifest' = [manifest EXCEPT ![b] = [stage |-> stage, failedFrom |-> None,
                                               retries |-> manifest[b].retries,
                                               retryable |-> FALSE]]
      BY <1>1, <1>2, <2>1 DEF Forced, TypeOK, Manifests
    <3>2. [stage |-> stage, failedFrom |-> None, retries |-> manifest[b].retries,
           retryable |-> FALSE] \in Manifests
      BY <1>1, <1>4 DEF Manifests, InWork
    <3>3. QED BY <1>1, <3>1, <3>2 DEF TypeOK
  <2>2. CASE ~Failed(b)
    BY <1>1, <1>2, <2>2 DEF TypeOK, Reached
  <2>3. QED BY <2>1, <2>2
<1>6. ResumePlace(stage) \in Delivering
  BY DEF ResumePlace, Delivering
<1>7. TypeOK'
  BY <1>1, <1>2, <1>5, <1>6 DEF TypeOK, Places, Active
<1>8. OnlyTouches(b) /\ KeepsDelivery(b) /\ at'[b] = ResumePlace(stage)
  BY <1>1, <1>2, <1>5 DEF OnlyTouches, KeepsDelivery, TypeOK
<1>9. stage' = stage /\ ~Failed(b)'
  BY <1>4, <1>5 DEF Reached, Failed, InWork
<1>10. StageInv(b)'
  BY <1>1, <1>9 DEF StageInv
<1>11. PlaceInv(b)'
  <2>1. \/ stage = "local" /\ at'[b] = "upload"
        \/ stage = "uploaded" /\ at'[b] = "verify"
        \/ stage = "verified" /\ at'[b] = "register"
        \/ stage = "catalog_registered" /\ at'[b] = "seen"
        \/ stage = "cleanable" /\ at'[b] = "unlink"
        \/ /\ stage \in {"seen_committed", "checkpoint_committed"} /\ at'[b] = "marker"
           /\ recs[b] \subseteq seen
    BY <1>1, <1>4, <1>8 DEF ResumePlace, InWork, Stages, StageInv, FromSeen
  <2>2. manifest'[b].stage = stage /\ recs'[b] # {} /\ seen' = seen /\ recs' = recs
    BY <1>1, <1>4, <1>5
  <2> HIDE DEF stage
  <2>3. QED BY <2>1, <2>2 DEF PlaceInv, Preparing
<1>12. QED BY <1>1, <1>6, <1>7, <1>8, <1>10, <1>11, BatchStep

(* The runtime begins to crawl when all manifests were looked at.          *)
LEMMA StartCrawlStep ==
  ASSUME LInv, StartCrawl
  PROVE  LInv'
<1> USE DEF StartCrawl, Recovering, fileVars
<1>1. TypeOK'
  BY DEF LInv, TypeOK
<1>2. ProcessInv'
  BY DEF LInv, ProcessInv
<1>3. CrawlInv'
  BY DEF LInv, CrawlInv
<1>4. QED BY <1>1, <1>2, <1>3, ProcessStep

(* A record that SeenStore knows counts as crawled.                        *)
LEMMA SkipUnchangedStep ==
  ASSUME LInv, NEW s \in Scopes, NEW r \in Records, SkipUnchanged(s, r)
  PROVE  LInv'
<1> USE DEF SkipUnchanged, Crawling, procVars, fileVars
<1>1. TypeOK'
  BY DEF LInv, TypeOK
<1>2. ProcessInv'
  BY DEF LInv, ProcessInv
<1>3. CrawlInv'
  BY DEF LInv, TypeOK, CrawlInv
<1>4. QED BY <1>1, <1>2, <1>3, ProcessStep

(* A checkpoint is saved when the crawl's records are seen: each is in a   *)
(* finished batch of the scope, or was seen before.                        *)
LEMMA SaveCheckpointStep ==
  ASSUME LInv, NEW s \in Scopes, SaveCheckpoint(s)
  PROVE  LInv'
<1> USE DEF SaveCheckpoint, procVars, fileVars
<1>1. TypeOK'
  BY DEF LInv, TypeOK
<1>2. ProcessInv'
  BY DEF LInv, ProcessInv
<1>3. ASSUME NEW r \in ScopeRecords[s] PROVE r \in seen
  <2>1. CASE \E b \in BatchIds : s \in owners[b] /\ r \in recs[b] /\ at[b] # "idle"
    <3>1. PICK b \in BatchIds : s \in owners[b] /\ r \in recs[b] /\ at[b] # "idle"
      BY <2>1
    <3>2. at[b] = "done"
      BY <3>1 DEF Unfinished
    <3>3. manifest[b].stage = "deleted"
      BY <3>2 DEF LInv, PlaceInv
    <3>4. recs[b] \subseteq seen
      BY <3>3 DEF LInv, StageInv, Reached, Failed, FromSeen
    <3>5. QED BY <3>1, <3>4
  <2>2. QED BY <1>3, <2>1 DEF LInv, CrawlInv
<1>4. CrawlInv'
  BY <1>3 DEF LInv, CrawlInv
<1>5. QED BY <1>1, <1>2, <1>4, ProcessStep

(* A stop request changes nothing that is durable.                         *)
LEMMA RequestShutdownStep ==
  ASSUME LInv, RequestShutdown
  PROVE  LInv'
<1> USE DEF RequestShutdown, runVars, fileVars
<1>1. TypeOK'
  BY DEF LInv, TypeOK
<1>2. ProcessInv'
  BY DEF LInv, ProcessInv
<1>3. CrawlInv'
  BY DEF LInv, CrawlInv
<1>4. QED BY <1>1, <1>2, <1>3, ProcessStep

(* What is left when a process ends is what LInv says of idle batches.     *)
LEMMA EndsStep ==
  ASSUME LInv, Ends
  PROVE  LInv'
<1> USE DEF Ends, fileVars
<1>1. TypeOK'
  BY DEF LInv, TypeOK, Idle, Places
<1>2. ASSUME NEW b \in BatchIds PROVE StageInv(b)' /\ PlaceInv(b)'
  <2>1. StageInv(b) /\ PlaceInv(b) /\ at'[b] = "idle"
    BY DEF LInv, Idle
  <2>2. StageInv(b)'
    BY <2>1 DEF StageInv, Reached, Failed
  <2>3. PlaceInv(b)'
    BY <2>1 DEF PlaceInv, Preparing
  <2>4. QED BY <2>2, <2>3
<1>3. ProcessInv'
  BY DEF ProcessInv, Idle
<1>4. CrawlInv'
  BY DEF LInv, CrawlInv
<1>5. UploadsAreSound => SeenIsStored'
  BY DEF LInv, SeenIsStored, Stored, Delivered
<1>6. QED BY <1>1, <1>2, <1>3, <1>4, <1>5 DEF LInv

(* A new batch takes records the crawl has just yielded.                   *)
LEMMA TakeBatchStep ==
  ASSUME LInv, NEW b \in BatchIds, TakeBatch(b)
  PROVE  LInv'
<1> USE DEF procVars, fileVars
<1>1. /\ TypeOK /\ StageInv(b) /\ PlaceInv(b) /\ ProcessInv /\ CrawlInv
      /\ process = "crawling" /\ recs[b] = {}
      /\ at' = [at EXCEPT ![b] = "parquet"]
      /\ UNCHANGED <<procVars, planned, complete, manifest, fileVars, catalog, seen>>
  BY DEF LInv, TakeBatch, Crawling
<1>2. PICK rows \in SUBSET (Scopes \X Records) :
        /\ rows # {}
        /\ recs' = [recs EXCEPT ![b] = {x[2] : x \in rows}]
        /\ owners' = [owners EXCEPT ![b] = {x[1] : x \in rows}]
        /\ crawled' = [s \in Scopes |-> crawled[s] \cup {x[2] : x \in {y \in rows : y[1] = s}}]
  BY DEF TakeBatch
<1>3. /\ at'[b] = "parquet" /\ recs'[b] = {x[2] : x \in rows} /\ owners'[b] = {x[1] : x \in rows}
      /\ recs'[b] # {} /\ manifest[b].stage = "none" /\ at[b] = "idle"
      /\ \A c \in BatchIds \ {b} : at'[c] = at[c] /\ recs'[c] = recs[c] /\ owners'[c] = owners[c]
  BY <1>1, <1>2 DEF TypeOK, PlaceInv
<1>4. TypeOK'
  <2>1. /\ {x[2] : x \in rows} \subseteq Records /\ {x[1] : x \in rows} \subseteq Scopes
        /\ \A s \in Scopes : {x[2] : x \in {y \in rows : y[1] = s}} \subseteq Records
    BY <1>2
  <2>2. crawled' \in [Scopes -> SUBSET Records]
    BY <1>1, <1>2, <2>1 DEF TypeOK
  <2>3. recs' \in [BatchIds -> SUBSET Records] /\ owners' \in [BatchIds -> SUBSET Scopes]
    BY <1>1, <1>2, <2>1 DEF TypeOK
  <2>4. QED BY <1>1, <2>2, <2>3 DEF TypeOK, Places, Active, Preparing
<1>5. ASSUME NEW c \in BatchIds PROVE StageInv(c)' /\ PlaceInv(c)'
  <2>1. CASE c = b
    <3>1. StageInv(b)'
      BY <1>1, <1>3 DEF StageInv, Reached, Failed, InWork, WithFiles, Stages, FromUploaded,
                        FromCataloged, FromSeen
    <3>2. PlaceInv(b)'
      BY <1>1, <1>3 DEF PlaceInv
    <3>3. QED BY <2>1, <3>1, <3>2
  <2>2. CASE c # b
    BY <1>1, <1>3, <2>2, Untouched DEF LInv
  <2>3. QED BY <2>1, <2>2
<1>6. ProcessInv'
  BY <1>1 DEF ProcessInv
<1>7. CrawlInv'
  <2>1. ASSUME NEW s \in Scopes, NEW r \in crawled'[s]
        PROVE  \/ r \in seen'
               \/ \E c \in BatchIds : s \in owners'[c] /\ r \in recs'[c] /\ at'[c] # "idle"
    <3>1. CASE r \in crawled[s]
      BY <1>1, <1>3, <3>1 DEF CrawlInv
    <3>2. CASE r \notin crawled[s]
      <4>1. PICK x \in rows : x[1] = s /\ x[2] = r
        BY <1>2, <2>1, <3>2
      <4>2. s \in owners'[b] /\ r \in recs'[b] /\ at'[b] # "idle"
        BY <1>3, <4>1
      <4>3. QED BY <4>2
    <3>3. QED BY <3>1, <3>2
  <2>2. QED BY <1>1, <2>1 DEF CrawlInv
<1>8. UploadsAreSound => SeenIsStored'
  BY <1>1, <1>3 DEF LInv, SeenIsStored, Stored, Delivered
<1>9. QED BY <1>4, <1>5, <1>6, <1>7, <1>8 DEF LInv

-----------------------------------------------------------------------------
(* The invariant holds at first.                                           *)
LEMMA LifecycleInit == Init => LInv
<1> SUFFICES ASSUME Init PROVE LInv
  OBVIOUS
<1> USE DEF Init, Idle, NoManifest
<1>1. TypeOK
  BY DEF TypeOK, Manifests, Places, Stages
<1>2. ASSUME NEW b \in BatchIds PROVE StageInv(b) /\ PlaceInv(b)
  <2>1. StageInv(b)
    BY DEF StageInv, Reached, Failed, InWork, WithFiles, Stages, FromUploaded, FromCataloged,
           FromSeen
  <2>2. PlaceInv(b)
    BY DEF PlaceInv, Preparing
  <2>3. QED BY <2>1, <2>2
<1>3. ProcessInv /\ CrawlInv /\ SeenIsStored
  BY DEF ProcessInv, CrawlInv, SeenIsStored
<1>4. QED BY <1>1, <1>2, <1>3 DEF LInv

(* Every step of pipeline, recovery, runtime or interruption keeps LInv.   *)
THEOREM LifecycleStep == LInv /\ [Next]_vars => LInv'
<1> SUFFICES ASSUME LInv, [Next]_vars PROVE LInv'
  OBVIOUS
<1>1. ASSUME NEW b \in BatchIds, Effect(b) PROVE LInv'
  BY <1>1, WriteParquetStep, WriteIndexStep, CreateManifestStep, StartUploadStep, EndUploadStep,
     RecordUploadedStep, VerifyExistingStep, RecordVerifiedStep, RegisterStep, MarkUploadedStep,
     RecordCatalogedStep, CommitSeenStep, RecordMarkerStep, UnlinkStep, UnlinkIndexStep, CloseStep
     DEF Effect
<1>2. ASSUME NEW b \in BatchIds, NEW kind, CallRaises(b, kind) PROVE LInv'
  BY <1>2, CallRaisesStep
<1>3. CASE Start
  BY <1>3, StartStep
<1>4. CASE Recovery
  BY <1>4, EndsStep, StartCrawlStep, SkipTerminalStep, RecoverOneStep DEF Recovery, StartupBlocked
<1>5. CASE Run
  BY <1>5, EndsStep, TakeBatchStep, SaveCheckpointStep, SkipUnchangedStep DEF Run, FinishRun
<1>6. CASE Interruption
  BY <1>6, EndsStep, RequestShutdownStep, FailureNotSavedStep DEF Interruption, Crash
<1>7. CASE UNCHANGED vars
  <2>1. TypeOK' /\ ProcessInv' /\ CrawlInv'
    BY <1>7 DEF LInv, TypeOK, ProcessInv, CrawlInv, vars, procVars, runVars, fileVars
  <2>2. QED BY <1>7, <2>1, ProcessStep DEF vars, runVars
<1>8. QED BY <1>1, <1>2, <1>3, <1>4, <1>5, <1>6, <1>7 DEF Next

(* In every state of every crawl.                                          *)
THEOREM LifecycleInvariant == Spec => []LInv
BY LifecycleInit, LifecycleStep, PTL DEF Spec

(* The variables keep their types.                                         *)
THEOREM LifecycleTypes == Spec => []TypeOK
<1>1. LInv => TypeOK
  BY DEF LInv
<1>2. QED BY <1>1, LifecycleInvariant, PTL

(* If accepted uploads are whole, SeenStore knows only what is stored: what*)
(* StoragePipeline skips as unchanged is never lost.                       *)
THEOREM SeenSafety == UploadsAreSound => (Spec => []SeenIsStored)
<1> SUFFICES ASSUME UploadsAreSound PROVE Spec => []SeenIsStored
  OBVIOUS
<1>1. LInv => SeenIsStored
  BY DEF LInv
<1>2. QED BY <1>1, LifecycleInvariant, PTL

(* What the stage of a manifest says of the batch's copies.                *)
LEMMA CopiesOf ==
  ASSUME LInv, UploadsAreSound, NEW b \in BatchIds
  PROVE  /\ manifest[b].stage # "none" =>
              \/ b \in localFile /\ b \in indexFile
              \/ Delivered(b) /\ recs[b] \subseteq seen
         /\ manifest[b].stage = "deleted" =>
              b \notin localFile \cup indexFile /\ Delivered(b) /\ recs[b] \subseteq seen
<1>1. StageInv(b) /\ manifest[b].stage \in Stages \cup {"none"}
  BY DEF LInv, TypeOK, Manifests
<1>2. CASE Reached(b) \in WithFiles
  BY <1>1, <1>2 DEF StageInv, Reached, Failed, WithFiles, InWork, Stages
<1>3. CASE Reached(b) \in {"cleanable", "deleted"}
  BY <1>1, <1>3 DEF StageInv, Reached, Failed, Delivered, FromSeen, FromCataloged, FromUploaded,
                    InWork, Stages
<1>4. manifest[b].stage = "none" \/ Reached(b) \in WithFiles \cup {"cleanable", "deleted"}
  BY <1>1 DEF StageInv, Reached, Failed, WithFiles, InWork, Stages
<1>5. QED BY <1>2, <1>3, <1>4

(* No batch with a manifest is ever without a readable copy, whatever      *)
(* fails, crashes or is recovered.                                         *)
THEOREM NothingLost == UploadsAreSound => (Spec => []NeverLost)
<1> SUFFICES ASSUME UploadsAreSound PROVE Spec => []NeverLost
  OBVIOUS
<1>1. LInv => NeverLost
  BY CopiesOf DEF NeverLost
<1>2. QED BY <1>1, LifecycleInvariant, PTL

(* A deleted manifest has left nothing behind and lost nothing.            *)
THEOREM DeletionSafety == UploadsAreSound => (Spec => []DeletedIsClean)
<1> SUFFICES ASSUME UploadsAreSound PROVE Spec => []DeletedIsClean
  OBVIOUS
<1>1. LInv => DeletedIsClean
  BY CopiesOf DEF DeletedIsClean
<1>2. QED BY <1>1, LifecycleInvariant, PTL

-----------------------------------------------------------------------------
(* What a step may do to a manifest: nothing, a save of a later stage, a   *)
(* failure from the stage it had, or the return to the stage it failed from*)
Moves(b) ==
  \/ manifest'[b] = manifest[b]
  \/ /\ ~Failed(b) /\ manifest'[b].stage # "failed"
     /\ StageOrder(manifest[b].stage) <= StageOrder(manifest'[b].stage)
     /\ manifest'[b].retries = manifest[b].retries
  \/ /\ manifest[b].stage \in InWork
     /\ manifest'[b].stage = "failed" /\ manifest'[b].failedFrom = manifest[b].stage
     /\ manifest'[b].retries = manifest[b].retries + 1
     /\ manifest'[b].retryable => manifest'[b].retries < MaxRetries
  \/ /\ Failed(b) /\ manifest'[b].stage = manifest[b].failedFrom
     /\ manifest'[b].retries = manifest[b].retries /\ manifest[b].failedFrom \in InWork

(* A save moves the stage on.                                              *)
LEMMA AdvanceMoves ==
  ASSUME LInv, NEW b \in BatchIds, NEW stage \in Stages \ {"failed"}, NEW next \in Places,
         Advance(b, stage, next), ~Failed(b),
         StageOrder(manifest[b].stage) <= StageOrder(stage)
  PROVE  \A c \in BatchIds : Moves(c)
<1>1. OnlyTouches(b) /\ manifest'[b] = [manifest[b] EXCEPT !.stage = stage]
  BY AdvanceFacts
<1>2. manifest[b] \in Manifests
  BY DEF LInv, TypeOK
<1>3. manifest'[b].stage = stage /\ manifest'[b].retries = manifest[b].retries
  BY <1>1, <1>2 DEF Manifests
<1>4. QED BY <1>1, <1>3 DEF Moves, OnlyTouches

(* Saves of the lifecycle come in its order.                               *)
LEMMA SaveMoves ==
  ASSUME LInv, NEW b \in BatchIds,
         \/ CreateManifest(b) \/ RecordUploaded(b) \/ RecordVerified(b) \/ RecordCataloged(b)
         \/ RecordMarker(b) \/ Close(b)
  PROVE  \A c \in BatchIds : Moves(c)
<1> USE DEF Stages, Places, Active, Delivering
<1>1. PlaceInv(b)
  BY DEF LInv
<1>2. CASE CreateManifest(b)
  <2>1. Advance(b, "local", "upload") /\ manifest[b].stage = "none"
    BY <1>1, <1>2 DEF CreateManifest, PlaceInv, Preparing
  <2>2. ~Failed(b) /\ StageOrder("none") <= StageOrder("local")
    BY <2>1 DEF Failed, StageOrder
  <2>3. QED BY <2>1, <2>2, AdvanceMoves
<1>3. CASE RecordUploaded(b)
  <2>1. Advance(b, "uploaded", "verified") /\ manifest[b].stage = "local"
    BY <1>1, <1>3 DEF RecordUploaded, PlaceInv
  <2>2. ~Failed(b) /\ StageOrder("local") <= StageOrder("uploaded")
    BY <2>1 DEF Failed, StageOrder
  <2>3. QED BY <2>1, <2>2, AdvanceMoves
<1>4. CASE RecordVerified(b)
  <2>1. Advance(b, "verified", "register") /\ manifest[b].stage = "uploaded"
    BY <1>1, <1>4 DEF RecordVerified, PlaceInv
  <2>2. ~Failed(b) /\ StageOrder("uploaded") <= StageOrder("verified")
    BY <2>1 DEF Failed, StageOrder
  <2>3. QED BY <2>1, <2>2, AdvanceMoves
<1>5. CASE RecordCataloged(b)
  <2>1. Advance(b, "catalog_registered", "seen") /\ manifest[b].stage = "verified"
    BY <1>1, <1>5 DEF RecordCataloged, PlaceInv
  <2>2. ~Failed(b) /\ StageOrder("verified") <= StageOrder("catalog_registered")
    BY <2>1 DEF Failed, StageOrder
  <2>3. QED BY <2>1, <2>2, AdvanceMoves
<1>6. CASE RecordMarker(b)
  <2> DEFINE stage == manifest[b].stage
             next == IF StageAfter(stage) = "cleanable" THEN "unlink" ELSE "marker"
  <2>1. /\ Advance(b, StageAfter(stage), next) /\ next \in Places
        /\ stage \in {"catalog_registered", "seen_committed", "checkpoint_committed"}
    BY <1>1, <1>6 DEF RecordMarker, PlaceInv
  <2>2. /\ ~Failed(b) /\ StageOrder(stage) <= StageOrder(StageAfter(stage))
        /\ StageAfter(stage) \in Stages \ {"failed"}
    BY <2>1 DEF Failed, StageOrder, StageAfter
  <2> HIDE DEF stage, next
  <2>3. QED BY <2>1, <2>2, AdvanceMoves DEF stage
<1>7. CASE Close(b)
  <2> DEFINE next == IF process = "crawling" THEN "done" ELSE "idle"
  <2>1. Advance(b, "deleted", next) /\ next \in Places /\ manifest[b].stage = "cleanable"
    BY <1>1, <1>7 DEF Close, PlaceInv
  <2>2. ~Failed(b) /\ StageOrder("cleanable") <= StageOrder("deleted")
    BY <2>1 DEF Failed, StageOrder
  <2> HIDE DEF next
  <2>3. QED BY <2>1, <2>2, AdvanceMoves
<1>8. QED BY <1>2, <1>3, <1>4, <1>5, <1>6, <1>7

(* A failure keeps the stage and counts.                                   *)
LEMMA RaiseMoves ==
  ASSUME LInv, NEW b \in BatchIds, at[b] \in Active, NEW kind, Raise(b, kind)
  PROVE  \A c \in BatchIds : Moves(c)
<1>0. /\ TypeOK /\ PlaceInv(b) /\ manifest[b] \in Manifests /\ at[b] # "idle"
  BY DEF LInv, TypeOK, Active, Preparing, Delivering
<1>1. CASE process = "crawling"
  BY <1>1 DEF Raise, Moves
<1>2. CASE process = "recovering"
  <2>1. manifest' = MarkedFailed(b, kind)
    BY <1>2 DEF Raise
  <2>2. manifest[b].stage \in InWork
    BY <1>0, <1>2, Busy DEF PlaceInv, Delivering, InWork, Stages
  <2>3. manifest' = [manifest EXCEPT ![b] =
                       [stage |-> "failed", failedFrom |-> manifest[b].stage,
                        retries |-> manifest[b].retries + 1,
                        retryable |-> Classify(kind, manifest[b].retries + 1)]]
    BY <2>1, <2>2 DEF MarkedFailed, InWork
  <2>4. /\ manifest'[b].stage = "failed" /\ manifest'[b].failedFrom = manifest[b].stage
        /\ manifest'[b].retries = manifest[b].retries + 1
        /\ manifest'[b].retryable => manifest'[b].retries < MaxRetries
        /\ \A c \in BatchIds \ {b} : manifest'[c] = manifest[c]
    BY <1>0, <2>3 DEF TypeOK, Classify
  <2>5. QED BY <2>2, <2>4 DEF Moves
<1>3. QED BY <1>0, <1>1, <1>2, Busy

(* Every step moves every manifest in one of these ways.                   *)
LEMMA ManifestMoves ==
  ASSUME LInv, [Next]_vars
  PROVE  \A b \in BatchIds : Moves(b)
<1>1. CASE manifest' = manifest
  BY <1>1 DEF Moves
<1>2. ASSUME NEW b \in BatchIds, NEW kind, at[b] \in Active, Raise(b, kind)
      PROVE  \A c \in BatchIds : Moves(c)
  BY <1>2, RaiseMoves
<1>3. ASSUME NEW b \in BatchIds, Effect(b)
      PROVE  \A c \in BatchIds : Moves(c)
  <2>1. CASE \/ WriteParquet(b) \/ WriteIndex(b) \/ Register(b) \/ MarkUploaded(b)
             \/ Unlink(b) \/ UnlinkIndex(b)
    BY <1>1, <2>1 DEF WriteParquet, WriteIndex, Register, MarkUploaded, Unlink, UnlinkIndex
  <2>2. CASE StartUpload(b)
    BY <1>1, <1>2, <2>2 DEF StartUpload, Active, Delivering
  <2>3. CASE EndUpload(b)
    BY <1>1, <1>2, <2>3 DEF EndUpload, Active, Delivering
  <2>4. CASE VerifyExisting(b)
    BY <1>1, <1>2, <2>4 DEF VerifyExisting, Active, Delivering
  <2>5. CASE CommitSeen(b)
    BY <1>1, <1>2, <2>5 DEF CommitSeen, Active, Delivering
  <2>6. QED BY <1>3, <2>1, <2>2, <2>3, <2>4, <2>5, SaveMoves DEF Effect
<1>4. ASSUME NEW b \in BatchIds, NEW kind, CallRaises(b, kind)
      PROVE  \A c \in BatchIds : Moves(c)
  BY <1>2, <1>4 DEF CallRaises
<1>5. CASE Recovery
  <2>1. ASSUME NEW b \in BatchIds, RecoverOne(b) PROVE \A c \in BatchIds : Moves(c)
    <3>1. CASE Failed(b)
      <4>1. /\ manifest[b].failedFrom \in InWork /\ manifest \in [BatchIds -> Manifests]
            /\ manifest' = Forced(b, manifest[b].failedFrom)
        BY <2>1, <3>1 DEF RecoverOne, LInv, StageInv, TypeOK
      <4>2. /\ manifest'[b].stage = manifest[b].failedFrom
            /\ manifest'[b].retries = manifest[b].retries
            /\ \A c \in BatchIds \ {b} : manifest'[c] = manifest[c]
        BY <4>1 DEF Forced, Manifests
      <4>3. QED BY <3>1, <4>1, <4>2 DEF Moves
    <3>2. CASE ~Failed(b)
      BY <1>1, <2>1, <3>2 DEF RecoverOne
    <3>3. QED BY <3>1, <3>2
  <2>2. QED BY <1>1, <1>5, <2>1 DEF Recovery, StartupBlocked, Ends, StartCrawl, SkipTerminal
<1>6. CASE Start \/ Run \/ Interruption \/ UNCHANGED vars
  BY <1>1, <1>6 DEF Start, Run, FinishRun, Ends, TakeBatch, SaveCheckpoint, SkipUnchanged,
                    Interruption, Crash, RequestShutdown, FailureNotSaved, vars
<1>7. QED BY <1>3, <1>4, <1>5, <1>6 DEF Next

(* Stages only grow, counting a failed manifest at the stage it failed     *)
(* from, and no failure is forgotten.                                      *)
THEOREM StagesOnlyGrow == Spec => NeverBackward
<1>1. ASSUME LInv, LInv', [Next]_vars, NEW b \in BatchIds
      PROVE  /\ StageOrder(Reached(b)) <= StageOrder(Reached(b)')
             /\ manifest[b].retries <= manifest'[b].retries
  <2>1. Moves(b) /\ manifest[b].retries \in Nat
    BY <1>1, ManifestMoves DEF LInv, TypeOK, Manifests
  <2>2. Reached(b) \in (Stages \ {"failed"}) \cup {"none"}
    <3>1. StageInv(b) /\ manifest[b].stage \in Stages \cup {"none"}
      BY <1>1 DEF LInv, TypeOK, Manifests
    <3>2. QED BY <3>1 DEF StageInv, Reached, Failed, InWork
  <2>3. StageOrder(Reached(b)) \in Nat
    BY <2>2 DEF StageOrder, Stages
  <2>4. CASE manifest'[b] = manifest[b]
    BY <2>1, <2>3, <2>4 DEF Reached, Failed
  <2>5. CASE manifest'[b] # manifest[b]
    BY <2>1, <2>3, <2>5 DEF Moves, Reached, Failed, InWork
  <2>6. QED BY <2>4, <2>5
<1>2. LInv /\ LInv' /\ [Next]_vars =>
        [\A b \in BatchIds : /\ StageOrder(Reached(b)) <= StageOrder(Reached(b)')
                             /\ manifest[b].retries <= manifest'[b].retries]_manifest
  BY <1>1
<1>3. QED BY <1>2, LifecycleInvariant, PTL DEF Spec, NeverBackward

(* The retry policy's limit holds over all processes.                      *)
THEOREM RetriesBounded == Spec => []RetryBudget
<1>1. Init => RetryBudget
  BY DEF Init, NoManifest, RetryBudget, Failed
<1>2. ASSUME LInv, RetryBudget, [Next]_vars PROVE RetryBudget'
  <2>1. SUFFICES ASSUME NEW b \in BatchIds, Failed(b)', manifest'[b].retryable
                 PROVE  manifest'[b].retries < MaxRetries
    BY DEF RetryBudget, Failed
  <2>2. Moves(b)
    BY <1>2, ManifestMoves
  <2>3. QED BY <1>2, <2>1, <2>2 DEF Moves, RetryBudget, Failed, InWork
<1>3. QED BY <1>1, <1>2, LifecycleInvariant, PTL DEF Spec

-----------------------------------------------------------------------------
(* The promise: the crawl over all its processes implements DurableCrawl.  *)

(* What the abstract crawl sees of a state.                                *)
Marks == [s \in Scopes |-> IF s \in complete THEN ScopeRecords[s] \cup {Complete} ELSE {}]

(* No step takes back a delivery, a seen record or a record of a batch.    *)
LEMMA NothingTakenBack ==
  ASSUME LInv, [Next]_vars
  PROVE  /\ seen \subseteq seen'
         /\ \A b \in BatchIds : KeepsDelivery(b) /\ recs[b] \subseteq recs'[b]
<1> DEFINE Goal == /\ seen \subseteq seen'
                   /\ \A b \in BatchIds : KeepsDelivery(b) /\ recs[b] \subseteq recs'[b]
<1>1. CASE UNCHANGED <<recs, remote, catalog, seen>>
  BY <1>1 DEF KeepsDelivery
<1>2. TypeOK
  BY DEF LInv
<1>3. ASSUME NEW b \in BatchIds, Effect(b) PROVE Goal
  <2>1. CASE \/ WriteParquet(b) \/ WriteIndex(b) \/ VerifyExisting(b) \/ Unlink(b) \/ UnlinkIndex(b)
    BY <1>1, <2>1 DEF WriteParquet, WriteIndex, VerifyExisting, Unlink, UnlinkIndex, runVars,
                      fileVars
  <2>2. CASE \/ CreateManifest(b) \/ RecordUploaded(b) \/ RecordVerified(b) \/ RecordCataloged(b)
             \/ RecordMarker(b) \/ Close(b)
    BY <1>1, <2>2 DEF CreateManifest, RecordUploaded, RecordVerified, RecordCataloged, RecordMarker,
                      Close, Advance, runVars, fileVars
  <2>3. CASE StartUpload(b)
    BY <1>2, <2>3 DEF StartUpload, KeepsDelivery, TypeOK, runVars
  <2>4. CASE EndUpload(b)
    <3>1. PICK file \in {"whole", remote[b]} : remote' = [remote EXCEPT ![b] = file]
      BY <2>4 DEF EndUpload
    <3>2. UNCHANGED <<recs, catalog, seen>>
      BY <2>4 DEF EndUpload, runVars
    <3>3. QED BY <1>2, <3>1, <3>2 DEF KeepsDelivery, TypeOK
  <2>5. CASE Register(b)
    BY <1>2, <2>5 DEF Register, KeepsDelivery, TypeOK, runVars, fileVars
  <2>6. CASE MarkUploaded(b)
    BY <1>2, <2>6 DEF MarkUploaded, KeepsDelivery, TypeOK, runVars, fileVars
  <2>7. CASE CommitSeen(b)
    BY <2>7 DEF CommitSeen, KeepsDelivery, runVars, fileVars
  <2>8. QED BY <1>3, <2>1, <2>2, <2>3, <2>4, <2>5, <2>6, <2>7 DEF Effect
<1>4. ASSUME NEW b \in BatchIds, NEW kind, CallRaises(b, kind) PROVE Goal
  BY <1>1, <1>4 DEF CallRaises, runVars, fileVars
<1>5. CASE Start \/ Recovery
  BY <1>1, <1>5 DEF Start, Recovery, StartupBlocked, Ends, StartCrawl, SkipTerminal, RecoverOne,
                    runVars, fileVars
<1>6. CASE Run
  <2>1. ASSUME NEW b \in BatchIds, TakeBatch(b) PROVE Goal
    <3>1. /\ recs[b] = {} /\ \A c \in BatchIds \ {b} : recs'[c] = recs[c]
          /\ UNCHANGED <<remote, catalog, seen>>
      BY <1>2, <2>1 DEF TakeBatch, TypeOK, fileVars
    <3>2. QED BY <3>1 DEF KeepsDelivery
  <2>2. QED BY <1>1, <1>6, <2>1 DEF Run, FinishRun, Ends, SaveCheckpoint, SkipUnchanged, fileVars
<1>7. CASE Interruption \/ UNCHANGED vars
  BY <1>1, <1>7 DEF Interruption, Crash, Ends, RequestShutdown, FailureNotSaved, vars, runVars,
                    fileVars
<1>8. QED BY <1>3, <1>4, <1>5, <1>6, <1>7 DEF Next

(* Checkpoints change only when one is saved.                              *)
LEMMA OnlySaves ==
  ASSUME LInv, [Next]_vars
  PROVE  complete' = complete \/ \E s \in Scopes : SaveCheckpoint(s)
<1>1. ASSUME NEW b \in BatchIds, Effect(b) PROVE complete' = complete
  BY <1>1 DEF Effect, WriteParquet, WriteIndex, CreateManifest, StartUpload, EndUpload,
              RecordUploaded, VerifyExisting, RecordVerified, Register, MarkUploaded,
              RecordCataloged, CommitSeen, RecordMarker, Unlink, UnlinkIndex, Close, Advance, runVars
<1>2. ASSUME NEW b \in BatchIds, NEW kind, CallRaises(b, kind) PROVE complete' = complete
  BY <1>2 DEF CallRaises, runVars
<1>3. CASE Start \/ Recovery
  BY <1>3 DEF Start, Recovery, StartupBlocked, Ends, StartCrawl, SkipTerminal, RecoverOne, runVars
<1>4. CASE Run
  BY <1>4 DEF Run, FinishRun, Ends, TakeBatch, SkipUnchanged
<1>5. CASE Interruption \/ UNCHANGED vars
  BY <1>5 DEF Interruption, Crash, Ends, RequestShutdown, FailureNotSaved, vars, runVars
<1>6. QED BY <1>1, <1>2, <1>3, <1>4, <1>5 DEF Next

(* What is stored stays so, and complete scopes are stored.                *)
LEMMA StoredGrows ==
  ASSUME LInv, UploadsAreSound, [Next]_vars
  PROVE  Stored \subseteq Stored'
BY NothingTakenBack DEF Stored, Delivered, KeepsDelivery

LEMMA CompleteIsStored ==
  ASSUME LInv, UploadsAreSound
  PROVE  Promise!Covered(Marks) /\ Stored \subseteq Records
<1>1. Stored \subseteq Records /\ seen \subseteq Stored
  BY DEF LInv, TypeOK, Stored, SeenIsStored
<1>2. \A s \in complete : ScopeRecords[s] \subseteq Stored
  BY <1>1 DEF LInv, CrawlInv
<1>3. QED BY <1>1, <1>2, LifecycleAssumption DEF Promise!Covered, Marks

(* Every step stores records, saves checkpoints, or is invisible.          *)
LEMMA PromiseStep ==
  ASSUME LInv, LInv', UploadsAreSound, [Next]_vars
  PROVE  [Promise!Next]_<<Stored, Marks>>
<1>1. Stored \subseteq Stored' /\ Stored' \subseteq Records /\ Promise!Covered(Marks)'
  <2>1. Stored' \subseteq Records /\ seen' \subseteq Stored'
    BY DEF LInv, TypeOK, Stored, SeenIsStored
  <2>2. \A s \in complete' : ScopeRecords[s] \subseteq Stored'
    BY <2>1 DEF LInv, CrawlInv
  <2>3. Promise!Covered(Marks)'
    BY <2>1, <2>2, LifecycleAssumption DEF Promise!Covered, Marks
  <2>4. QED BY <2>1, <2>3, StoredGrows
<1>2. CASE complete' = complete
  <2>1. Marks' = Marks
    BY <1>2 DEF Marks
  <2>2. QED BY <1>1, <2>1 DEF Promise!Next, Promise!Store, Marks
<1>3. ASSUME NEW s \in Scopes, SaveCheckpoint(s) PROVE Promise!Next
  <2>1. Stored' = Stored /\ complete' = complete \cup {s}
    BY <1>3 DEF SaveCheckpoint, Stored, Delivered, fileVars
  <2>2. \A t \in Scopes : Marks[t] \subseteq Marks'[t]
    BY <2>1 DEF Marks
  <2>3. Promise!Covered(Marks')
    BY <1>1, <2>1 DEF Promise!Covered, Marks
  <2>4. QED BY <2>1, <2>2, <2>3 DEF Promise!Next, Promise!Save, Marks
<1>4. QED BY <1>2, <1>3, OnlySaves

(* The crawl keeps its promise: records become durable and stay so, and a  *)
(* saved checkpoint covers durable records only, whatever process crashed, *)
(* failed or recovered in between.                                         *)
THEOREM CrawlKeepsPromise == UploadsAreSound => (Spec => KeepsPromise)
<1> SUFFICES ASSUME UploadsAreSound PROVE Spec => KeepsPromise
  OBVIOUS
<1>1. Init => Promise!Init
  <2> SUFFICES ASSUME Init PROVE Promise!Init
    OBVIOUS
  <2>1. LInv
    BY LifecycleInit
  <2>2. QED BY <2>1, CompleteIsStored DEF Promise!Init, Marks
<1>2. LInv /\ LInv' /\ [Next]_vars => [Promise!Next]_<<Stored, Marks>>
  BY PromiseStep
<1>3. QED BY <1>1, <1>2, LifecycleInvariant, PTL DEF Spec, KeepsPromise, Promise!Spec, Marks

-----------------------------------------------------------------------------
(* No record is stored twice by a crawl whose scopes have no records in    *)
(* common and that does not start after a failed recovery: OnceInv is      *)
(* inductive beside LInv.                                                  *)


(* A step of one batch that some process works on keeps OnceInv.           *)
LEMMA OnceEffect ==
  ASSUME LInv, LInv', OnceInv, NEW b \in BatchIds, at[b] # "idle",
         OnlyTouches(b), UNCHANGED <<process, todo, runVars>>,
         manifest'[b].stage = "none" => manifest[b].stage = "none",
         catalog'[b] # "absent" => catalog[b] # "absent" \/ manifest'[b].stage # "none",
         failures => failures',
         process = "crawling" => at'[b] # "idle",
         process = "recovering" /\ at'[b] = "idle" => failures' \/ manifest'[b].stage = "deleted"
  PROVE  OnceInv'
<1> USE DEF runVars
<1>1. ASSUME NEW c \in BatchIds PROVE Live(c)' => Live(c)
  BY DEF Live, OnlyTouches
<1>2. ASSUME NEW c \in BatchIds PROVE catalog'[c] # "absent" => manifest'[c].stage # "none"
  BY DEF OnceInv, OnlyTouches
<1>3. \A c, d \in BatchIds : c # d /\ Live(c)' /\ Live(d)' => recs'[c] \cap recs'[d] = {}
  BY <1>1 DEF OnceInv
<1>4. ASSUME process' = "crawling", NEW c \in BatchIds
      PROVE  IF at'[c] # "idle"
             THEN \A s \in owners'[c] : recs'[c] \cap ScopeRecords[s] \subseteq crawled'[s]
             ELSE c \in Pending' => owners'[c] \cap planned' = {}
  BY <1>4 DEF OnceInv, OnlyTouches, Pending
<1>5. ASSUME process' = "recovering", ~failures', NEW c \in Pending'
      PROVE  at'[c] # "idle" \/ c \in todo' \/ Terminal(c)'
  <2>1. process = "recovering" /\ ~failures /\ c \in BatchIds
    BY <1>5 DEF Pending
  <2>2. CASE c = b
    BY <1>5, <2>1, <2>2 DEF Pending
  <2>3. CASE c # b
    BY <1>5, <2>1, <2>3 DEF OnceInv, OnlyTouches, Pending, Terminal, Failed
  <2>4. QED BY <2>2, <2>3
<1>6. QED BY <1>2, <1>3, <1>4, <1>5 DEF OnceInv

(* A call that raises does so in one of the two ways of Raise.             *)
LEMMA OnceRaise ==
  ASSUME LInv, LInv', OnceInv, NEW b \in BatchIds, at[b] \in Active, NEW kind, Raise(b, kind),
         UNCHANGED <<process, todo, runVars, localFile, indexFile, catalog, seen>>,
         \A c \in BatchIds \ {b} : remote'[c] = remote[c]
  PROVE  OnceInv'
<1>1. at[b] # "idle" /\ TypeOK
  BY DEF LInv, Active, Preparing, Delivering
<1>2. CASE process = "crawling"
  <2>1. OnlyTouches(b) /\ at'[b] = "failed" /\ manifest' = manifest /\ failures' = failures
    BY <1>1, <1>2 DEF Raise, OnlyTouches, TypeOK, runVars
  <2>2. QED BY <1>1, <1>2, <2>1, OnceEffect
<1>3. CASE process = "recovering"
  <2>1. /\ OnlyTouches(b) /\ at'[b] = "idle" /\ failures' = TRUE
        /\ manifest'[b].stage = "failed"
    BY <1>1, <1>3 DEF Raise, MarkedFailed, OnlyTouches, TypeOK, runVars
  <2>2. QED BY <1>1, <1>3, <2>1, OnceEffect
<1>4. QED BY <1>1, <1>2, <1>3, Busy

(* A save keeps OnceInv: it is at the stage that is saved or done.         *)
LEMMA OnceSave ==
  ASSUME LInv, LInv', OnceInv, NEW b \in BatchIds, at[b] # "idle",
         NEW stage \in Stages, NEW next \in Places, Advance(b, stage, next),
         next = "idle" => process = "recovering" /\ stage = "deleted"
  PROVE  OnceInv'
<1>1. /\ OnlyTouches(b) /\ at'[b] = next /\ manifest'[b] = [manifest[b] EXCEPT !.stage = stage]
      /\ UNCHANGED <<procVars, runVars, catalog>>
  BY AdvanceFacts
<1>2. manifest'[b].stage = stage /\ stage # "none"
  BY <1>1 DEF LInv, TypeOK, Manifests, Stages
<1>3. QED BY <1>1, <1>2, OnceEffect DEF procVars

(* The effects of a batch keep OnceInv.                                    *)
LEMMA OnceEffects ==
  ASSUME LInv, LInv', OnceInv, NEW b \in BatchIds, Effect(b)
  PROVE  OnceInv'
<1>1. TypeOK /\ PlaceInv(b)
  BY DEF LInv
<1>2. CASE WriteParquet(b) \/ WriteIndex(b) \/ Unlink(b) \/ UnlinkIndex(b)
  <2>1. OnlyTouches(b) /\ at[b] # "idle" /\ at'[b] # "idle"
    BY <1>1, <1>2 DEF WriteParquet, WriteIndex, Unlink, UnlinkIndex, OnlyTouches, TypeOK, runVars
  <2>2. UNCHANGED <<procVars, runVars, manifest, catalog>>
    BY <1>2 DEF WriteParquet, WriteIndex, Unlink, UnlinkIndex
  <2>3. QED BY <2>1, <2>2, OnceEffect DEF procVars
<1>3. CASE CreateManifest(b)
  BY <1>3, OnceSave DEF CreateManifest, Stages, Places, Active, Delivering
<1>4. CASE RecordUploaded(b)
  BY <1>4, OnceSave DEF RecordUploaded, Stages, Places, Active, Delivering
<1>5. CASE RecordVerified(b)
  BY <1>5, OnceSave DEF RecordVerified, Stages, Places, Active, Delivering
<1>6. CASE RecordCataloged(b)
  BY <1>6, OnceSave DEF RecordCataloged, Stages, Places, Active, Delivering
<1>7. CASE RecordMarker(b)
  <2> DEFINE stage == StageAfter(manifest[b].stage)
             next == IF stage = "cleanable" THEN "unlink" ELSE "marker"
  <2>1. /\ Advance(b, stage, next) /\ stage \in Stages /\ next \in Places /\ next # "idle"
        /\ at[b] # "idle"
    BY <1>7 DEF RecordMarker, StageAfter, Stages, Places, Active, Delivering
  <2> HIDE DEF stage, next
  <2>2. QED BY <2>1, OnceSave
<1>8. CASE Close(b)
  <2> DEFINE next == IF process = "crawling" THEN "done" ELSE "idle"
  <2>1. /\ Advance(b, "deleted", next) /\ next \in Places /\ at[b] # "idle"
        /\ next = "idle" => process = "recovering"
    BY <1>8, Busy DEF Close, Places
  <2> HIDE DEF next
  <2>2. QED BY <2>1, OnceSave DEF Stages
<1>9. CASE StartUpload(b)
  <2>1. /\ at[b] = "upload"
        /\ UNCHANGED <<process, todo, runVars, localFile, indexFile, catalog, seen>>
    BY <1>9 DEF StartUpload
  <2>2. CASE b \in localFile
    <3>1. OnlyTouches(b) /\ at'[b] = "transfer" /\ UNCHANGED <<failures, manifest>>
      BY <1>1, <1>9, <2>2 DEF StartUpload, OnlyTouches, TypeOK, runVars
    <3>2. QED BY <2>1, <3>1, OnceEffect
  <2>3. CASE b \notin localFile
    <3>1. Raise(b, "permanent") /\ remote' = remote
      BY <1>9, <2>3 DEF StartUpload
    <3>2. QED BY <2>1, <3>1, OnceRaise DEF Active, Delivering
  <2>4. QED BY <2>2, <2>3
<1>10. CASE EndUpload(b)
  <2>1. /\ at[b] = "transfer"
        /\ UNCHANGED <<process, todo, runVars, localFile, indexFile, catalog, seen>>
        /\ \A c \in BatchIds \ {b} : remote'[c] = remote[c]
    BY <1>1, <1>10 DEF EndUpload, TypeOK
  <2>2. CASE Raise(b, "permanent")
    BY <2>1, <2>2, OnceRaise DEF Active, Delivering
  <2>3. CASE at' = [at EXCEPT ![b] = "uploaded"] /\ UNCHANGED <<failures, manifest>>
    <3>1. OnlyTouches(b) /\ at'[b] = "uploaded"
      BY <1>1, <2>1, <2>3 DEF OnlyTouches, TypeOK, runVars
    <3>2. QED BY <2>1, <2>3, <3>1, OnceEffect
  <2>4. QED BY <1>10, <2>2, <2>3 DEF EndUpload
<1>11. CASE VerifyExisting(b)
  <2>1. at[b] = "verify" /\ UNCHANGED <<process, todo, runVars, fileVars, catalog, seen>>
    BY <1>11 DEF VerifyExisting
  <2>2. CASE Raise(b, "permanent")
    BY <2>1, <2>2, OnceRaise DEF Active, Delivering, fileVars
  <2>3. CASE at' = [at EXCEPT ![b] = "verified"] /\ UNCHANGED <<failures, manifest>>
    <3>1. OnlyTouches(b) /\ at'[b] = "verified"
      BY <1>1, <2>1, <2>3 DEF OnlyTouches, TypeOK, runVars, fileVars
    <3>2. QED BY <2>1, <2>3, <3>1, OnceEffect
  <2>4. QED BY <1>11, <2>2, <2>3 DEF VerifyExisting
<1>12. CASE Register(b) \/ MarkUploaded(b)
  <2>1. /\ OnlyTouches(b) /\ at[b] # "idle" /\ at'[b] # "idle"
        /\ UNCHANGED <<procVars, runVars, manifest>>
    BY <1>1, <1>12 DEF Register, MarkUploaded, OnlyTouches, TypeOK, runVars, fileVars
  <2>2. manifest[b].stage # "none"
    BY <1>1, <1>12 DEF Register, MarkUploaded, PlaceInv
  <2>3. QED BY <2>1, <2>2, OnceEffect DEF procVars
<1>13. CASE CommitSeen(b)
  <2>1. at[b] = "seen" /\ UNCHANGED <<process, todo, runVars, fileVars, catalog>>
    BY <1>13 DEF CommitSeen
  <2>2. CASE Raise(b, "permanent") /\ UNCHANGED seen
    BY <2>1, <2>2, OnceRaise DEF Active, Delivering, fileVars
  <2>3. CASE at' = [at EXCEPT ![b] = "marker"] /\ UNCHANGED <<failures, manifest>>
    <3>1. OnlyTouches(b) /\ at'[b] = "marker"
      BY <1>1, <2>1, <2>3 DEF OnlyTouches, TypeOK, runVars, fileVars
    <3>2. QED BY <2>1, <2>3, <3>1, OnceEffect
  <2>4. QED BY <1>13, <2>2, <2>3 DEF CommitSeen
<1>14. QED BY <1>2, <1>3, <1>4, <1>5, <1>6, <1>7, <1>8, <1>9, <1>10, <1>11, <1>12, <1>13 DEF Effect

-----------------------------------------------------------------------------
(* The end of a process makes unfinished batches without a manifest dead.  *)
LEMMA OnceEnds ==
  ASSUME LInv, OnceInv, Ends
  PROVE  OnceInv'
<1>1. ASSUME NEW c \in BatchIds PROVE Live(c)' => Live(c)
  BY DEF Live, Ends, Idle
<1>2. QED BY <1>1 DEF OnceInv, Ends

(* A step of the process that touches no batch.                            *)
LEMMA OnceProcess ==
  ASSUME OnceInv, UNCHANGED <<at, manifest, recs, owners, catalog>>,
         process' = "crawling" =>
           /\ process = "crawling" /\ planned' = planned
           /\ \A s \in Scopes : crawled[s] \subseteq crawled'[s],
         process' = "recovering" =>
           /\ process = "recovering" /\ (failures => failures')
           /\ \A c \in todo \ todo' : Terminal(c),
         owners \in [BatchIds -> SUBSET Scopes]
  PROVE  OnceInv'
<1>1. /\ \A b \in BatchIds : (catalog'[b] # "absent" => manifest'[b].stage # "none")
      /\ \A b \in BatchIds : \A r \in recs'[b] : \E s \in owners'[b] : r \in ScopeRecords[s]
      /\ \A b, c \in BatchIds : b # c /\ Live(b)' /\ Live(c)' => recs'[b] \cap recs'[c] = {}
  BY DEF OnceInv, Live
<1>2. ASSUME process' = "crawling", NEW b \in BatchIds
      PROVE  IF at'[b] # "idle"
             THEN \A s \in owners'[b] : recs'[b] \cap ScopeRecords[s] \subseteq crawled'[s]
             ELSE b \in Pending' => owners'[b] \cap planned' = {}
  BY <1>2 DEF OnceInv, Pending
<1>3. ASSUME process' = "recovering", ~failures', NEW b \in Pending'
      PROVE  at'[b] # "idle" \/ b \in todo' \/ Terminal(b)'
  BY <1>3 DEF OnceInv, Pending, Terminal, Failed
<1>4. QED BY <1>1, <1>2, <1>3 DEF OnceInv

(* Recovery begins with every pending manifest still to do.                *)
LEMMA OnceStart ==
  ASSUME OnceInv, Start
  PROVE  OnceInv'
BY DEF OnceInv, Start, Live, Pending, runVars

(* A batch taken up by recovery has a manifest already.                    *)
LEMMA OnceRecoverOne ==
  ASSUME LInv, LInv', OnceInv, NEW b \in BatchIds, RecoverOne(b)
  PROVE  OnceInv'
<1> USE DEF runVars
<1>1. /\ TypeOK /\ process = "recovering" /\ b \in todo /\ todo' = todo \ {b}
      /\ UNCHANGED <<process, failures, runVars, catalog>>
      /\ manifest[b].stage \in InWork \cup {"failed"}
  BY DEF LInv, ProcessInv, RecoverOne, Recovering
<1>2. at'[b] # "idle"
  BY <1>1 DEF RecoverOne, ResumePlace, TypeOK
<1>3. \A c \in BatchIds \ {b} : at'[c] = at[c] /\ manifest'[c] = manifest[c]
  BY <1>1 DEF RecoverOne, Forced, TypeOK
<1>4. manifest'[b].stage # "none"
  BY <1>1, <1>2 DEF LInv, PlaceInv, OnceInv, Live, ProcessInv, Delivering, InWork, Stages
<1>5. ASSUME NEW c \in BatchIds PROVE Live(c)' => Live(c)
  BY <1>1, <1>3 DEF Live, InWork, Stages
<1>6. \A c \in BatchIds : catalog'[c] # "absent" => manifest'[c].stage # "none"
  BY <1>1, <1>3, <1>4 DEF OnceInv
<1>7. ASSUME ~failures', NEW c \in Pending'
      PROVE  at'[c] # "idle" \/ c \in todo' \/ Terminal(c)'
  BY <1>1, <1>2, <1>3, <1>7 DEF OnceInv, Pending, Terminal, Failed
<1>8. QED BY <1>1, <1>5, <1>6, <1>7 DEF OnceInv

(* Without failures, what is pending when the crawl starts was given up,   *)
(* so no scope of it is planned.                                           *)
LEMMA OnceStartCrawl ==
  ASSUME LInv, OnceInv, OnceSetting, StartCrawl
  PROVE  OnceInv'
<1>1. /\ process = "recovering" /\ ~failures /\ at = Idle /\ todo = {}
      /\ planned' = {s \in Scopes : ShouldCrawl(s)} /\ process' = "crawling"
      /\ UNCHANGED <<at, manifest, recs, owners, catalog>>
  BY DEF StartCrawl, Recovering, OnceSetting
<1>2. ASSUME NEW b \in Pending, NEW s \in owners[b], s \in planned' PROVE FALSE
  <2>1. b \in BatchIds /\ Terminal(b) /\ b \in ManifestsOf(s)
    BY <1>1 DEF OnceInv, Idle, Pending, ManifestsOf
  <2>2. Status(s) = "FAILED_TERMINAL"
    BY <2>1 DEF Status
  <2>3. QED BY <1>1, <1>2, <2>2 DEF ShouldCrawl
<1>3. ASSUME NEW b \in BatchIds PROVE at[b] = "idle" /\ Live(b)' = Live(b)
  BY <1>1 DEF Live, Idle
<1>4. QED BY <1>1, <1>2, <1>3 DEF OnceInv, Pending

(* The records of a new batch are in no other live one: each is unseen, of *)
(* a planned scope, and not crawled yet.                                   *)
LEMMA OnceTakeBatch ==
  ASSUME LInv, OnceInv, OnceSetting, NEW b \in BatchIds, TakeBatch(b)
  PROVE  OnceInv'
<1>1. /\ TypeOK /\ process = "crawling" /\ recs[b] = {} /\ at[b] = "idle"
      /\ manifest[b].stage = "none" /\ at' = [at EXCEPT ![b] = "parquet"]
      /\ UNCHANGED <<process, planned, manifest, catalog, seen>>
  BY DEF LInv, PlaceInv, TakeBatch, Crawling, procVars
<1>2. PICK rows \in SUBSET {x \in Scopes \X Records :
                              x[1] \in planned /\ x[2] \in ScopeRecords[x[1]] \ crawled[x[1]]
                                /\ x[2] \notin seen} :
        /\ recs' = [recs EXCEPT ![b] = {x[2] : x \in rows}]
        /\ owners' = [owners EXCEPT ![b] = {x[1] : x \in rows}]
        /\ crawled' = [s \in Scopes |-> crawled[s] \cup {x[2] : x \in {y \in rows : y[1] = s}}]
  BY DEF TakeBatch
<1>3. /\ at'[b] = "parquet" /\ recs'[b] = {x[2] : x \in rows} /\ owners'[b] = {x[1] : x \in rows}
      /\ \A c \in BatchIds \ {b} : at'[c] = at[c] /\ recs'[c] = recs[c] /\ owners'[c] = owners[c]
      /\ \A s \in Scopes : crawled[s] \subseteq crawled'[s]
  BY <1>1, <1>2 DEF TypeOK
<1>4. ASSUME NEW c \in BatchIds \ {b}, Live(c), NEW x \in rows PROVE x[2] \notin recs[c]
  <2> SUFFICES ASSUME x[2] \in recs[c] PROVE FALSE
    OBVIOUS
  <2>1. /\ x[1] \in planned /\ x[1] \in Scopes /\ x[2] \in ScopeRecords[x[1]]
        /\ x[2] \notin crawled[x[1]] /\ x[2] \notin seen
    BY <1>2
  <2>2. x[1] \in owners[c]
    <3>1. PICK s \in owners[c] : x[2] \in ScopeRecords[s]
      BY DEF OnceInv
    <3>2. s \in Scopes
      BY <1>1 DEF TypeOK
    <3>3. s = x[1]
      BY <2>1, <3>1, <3>2 DEF OnceSetting
    <3>4. QED BY <3>1, <3>3
  <2>3. IF at[c] # "idle"
        THEN \A s \in owners[c] : recs[c] \cap ScopeRecords[s] \subseteq crawled[s]
        ELSE c \in Pending => owners[c] \cap planned = {}
    BY <1>1 DEF OnceInv
  <2>4. at[c] = "idle" /\ c \notin Pending
    BY <2>1, <2>2, <2>3
  <2>5. manifest[c].stage = "deleted"
    BY <1>4, <2>4 DEF Live, Pending
  <2>6. StageInv(c)
    BY DEF LInv
  <2>7. recs[c] \subseteq seen
    BY <2>5, <2>6 DEF StageInv, Reached, Failed, FromSeen
  <2>8. QED BY <2>1, <2>7
<1>5. ASSUME NEW c \in BatchIds, NEW d \in BatchIds, c # d, Live(c)', Live(d)'
      PROVE  recs'[c] \cap recs'[d] = {}
  <2>1. \A e \in BatchIds \ {b} : Live(e)' => Live(e)
    BY <1>1, <1>3 DEF Live
  <2>2. CASE c # b /\ d # b
    BY <1>3, <1>5, <2>1, <2>2 DEF OnceInv
  <2>3. CASE c = b
    BY <1>3, <1>4, <1>5, <2>1, <2>3
  <2>4. CASE d = b
    BY <1>3, <1>4, <1>5, <2>1, <2>4
  <2>5. QED BY <2>2, <2>3, <2>4
<1>6. ASSUME NEW c \in BatchIds, NEW r \in recs'[c]
      PROVE  \E s \in owners'[c] : r \in ScopeRecords[s]
  <2>1. CASE c = b
    BY <1>2, <1>3, <1>6, <2>1
  <2>2. CASE c # b
    BY <1>3, <1>6, <2>2 DEF OnceInv
  <2>3. QED BY <2>1, <2>2
<1>7. ASSUME NEW c \in BatchIds
      PROVE  IF at'[c] # "idle"
             THEN \A s \in owners'[c] : recs'[c] \cap ScopeRecords[s] \subseteq crawled'[s]
             ELSE c \in Pending' => owners'[c] \cap planned' = {}
  <2>1. CASE c = b
    <3>1. ASSUME NEW s \in owners'[b], NEW r \in recs'[b] \cap ScopeRecords[s]
          PROVE  r \in crawled'[s]
      <4>1. PICK x \in rows : x[2] = r
        BY <1>3, <3>1
      <4>2. /\ s \in Scopes /\ x[1] \in Scopes /\ r \in ScopeRecords[x[1]]
        BY <1>2, <1>3, <3>1, <4>1
      <4>3. x[1] = s
        BY <3>1, <4>2 DEF OnceSetting
      <4>4. QED BY <1>2, <4>1, <4>2, <4>3
    <3>2. QED BY <1>3, <2>1, <3>1
  <2>2. CASE c # b
    <3>1. owners[c] \subseteq Scopes
      BY <1>1 DEF TypeOK
    <3>2. /\ at'[c] = at[c] /\ recs'[c] = recs[c] /\ owners'[c] = owners[c]
          /\ planned' = planned /\ (c \in Pending' => c \in Pending)
      BY <1>1, <1>3, <2>2 DEF Pending
    <3>3. IF at[c] # "idle"
          THEN \A s \in owners[c] : recs[c] \cap ScopeRecords[s] \subseteq crawled[s]
          ELSE c \in Pending => owners[c] \cap planned = {}
      BY <1>1 DEF OnceInv
    <3>4. QED BY <1>3, <3>1, <3>2, <3>3
  <2>3. QED BY <2>1, <2>2
<1>8. \A c \in BatchIds : catalog'[c] # "absent" => manifest'[c].stage # "none"
  BY <1>1 DEF OnceInv
<1>9. process' = "crawling"
  BY <1>1
<1>10. QED BY <1>5, <1>6, <1>7, <1>8, <1>9 DEF OnceInv

(* Every step keeps OnceInv.                                               *)
THEOREM OnceStep == OnceSetting /\ LInv /\ LInv' /\ OnceInv /\ [Next]_vars => OnceInv'
<1> SUFFICES ASSUME OnceSetting, LInv, LInv', OnceInv, [Next]_vars PROVE OnceInv'
  OBVIOUS
<1>0. TypeOK /\ owners \in [BatchIds -> SUBSET Scopes]
  BY DEF LInv, TypeOK
<1>1. ASSUME NEW b \in BatchIds, Effect(b) PROVE OnceInv'
  BY <1>1, OnceEffects
<1>2. ASSUME NEW b \in BatchIds, NEW kind, CallRaises(b, kind) PROVE OnceInv'
  BY <1>2, OnceRaise DEF CallRaises, fileVars
<1>3. CASE Start
  BY <1>3, OnceStart
<1>4. CASE Recovery
  <2>1. ASSUME NEW b \in BatchIds, SkipTerminal(b) PROVE OnceInv'
    BY <1>0, <2>1, OnceProcess DEF SkipTerminal, Recovering, runVars
  <2>2. QED BY <1>4, <2>1, OnceEnds, OnceStartCrawl, OnceRecoverOne DEF Recovery, StartupBlocked
<1>5. CASE Run
  <2>1. ASSUME NEW s \in Scopes, SaveCheckpoint(s) PROVE OnceInv'
    BY <1>0, <2>1, OnceProcess DEF SaveCheckpoint, procVars
  <2>2. ASSUME NEW s \in Scopes, NEW r \in Records, SkipUnchanged(s, r) PROVE OnceInv'
    <3>1. \A t \in Scopes : crawled[t] \subseteq crawled'[t]
      BY <1>0, <2>2 DEF SkipUnchanged, TypeOK
    <3>2. QED BY <1>0, <2>2, <3>1, OnceProcess DEF SkipUnchanged, Crawling, procVars
  <2>3. QED BY <1>5, <2>1, <2>2, OnceEnds, OnceTakeBatch DEF Run, FinishRun
<1>6. CASE Interruption
  <2>1. CASE RequestShutdown
    BY <1>0, <2>1, OnceProcess DEF RequestShutdown, Crawling, runVars
  <2>2. ASSUME NEW b \in BatchIds, FailureNotSaved(b) PROVE OnceInv'
    <3>1. /\ OnlyTouches(b) /\ at[b] # "idle" /\ process = "recovering" /\ failures' = TRUE
          /\ UNCHANGED <<process, todo, runVars, manifest, catalog>>
      BY <1>0, <2>2 DEF FailureNotSaved, OnlyTouches, TypeOK, Active, Preparing, Delivering,
                        runVars, fileVars
    <3>2. QED BY <3>1, OnceEffect
  <2>3. QED BY <1>6, <2>1, <2>2, OnceEnds DEF Interruption, Crash
<1>7. CASE UNCHANGED vars
  BY <1>0, <1>7, OnceProcess DEF vars, procVars, runVars
<1>8. QED BY <1>1, <1>2, <1>3, <1>4, <1>5, <1>6, <1>7 DEF Next

(* The invariant behind it, in every process of every crawl: batches that    *)
(* are alive share no record, and a scope whose batch waits for recovery is *)
(* not crawled.                                                             *)
THEOREM OnceInvariant == OnceSetting => (Spec => []OnceInv)
<1> SUFFICES ASSUME OnceSetting PROVE Spec => []OnceInv
  OBVIOUS
<1>1. Init => OnceInv
  BY DEF Init, Idle, NoManifest, OnceInv, Live
<1>2. LInv /\ LInv' /\ OnceInv /\ [Next]_vars => OnceInv'
  BY OnceStep
<1>3. QED BY <1>1, <1>2, LifecycleInvariant, PTL DEF Spec

(* Scopes without common records are stored without duplicates, however    *)
(* often the crawl is interrupted and started again.                       *)
THEOREM NoDuplicates == OnceSetting => (Spec => []StoredOnce)
<1> SUFFICES ASSUME OnceSetting PROVE Spec => []StoredOnce
  OBVIOUS
<1>1. OnceInv => StoredOnce
  BY DEF OnceInv, StoredOnce, Live
<1>2. QED BY <1>1, OnceInvariant, PTL

-----------------------------------------------------------------------------
(* Crashes and shutdown requests alone: nothing raises, in any process.    *)

InterruptedOnly == Checked /\ Faults \subseteq {"crash", "stop"}

(* A save of a stage of the lifecycle fails no manifest.                   *)
LEMMA SaveFailsNothing ==
  ASSUME LInv, InterruptionNeverFails, NEW b \in BatchIds,
         NEW stage \in Stages \ {"failed"}, NEW next, Advance(b, stage, next)
  PROVE  InterruptionNeverFails'
<1>1. manifest \in [BatchIds -> Manifests] /\ manifest' = [manifest EXCEPT ![b].stage = stage]
  BY DEF LInv, TypeOK, Advance, Advanced
<1>2. \A c \in BatchIds : manifest'[c].stage = IF c = b THEN stage ELSE manifest[c].stage
  BY <1>1 DEF Manifests
<1>3. QED BY <1>2 DEF InterruptionNeverFails, Failed

(* What a batch needs for its next effect is there, also after any number  *)
(* of processes that ended between two effects.                            *)
LEMMA EffectFailsNothing ==
  ASSUME InterruptedOnly, LInv, InterruptionNeverFails, NEW b \in BatchIds, Effect(b)
  PROVE  InterruptionNeverFails'
<1>1. PlaceInv(b) /\ StageInv(b) /\ ~Failed(b) /\ UploadsAreSound
  BY DEF LInv, InterruptionNeverFails, InterruptedOnly, UploadsAreSound
<1>2. Reached(b) = manifest[b].stage
  BY <1>1 DEF Reached
<1>3. ASSUME manifest' = manifest PROVE InterruptionNeverFails'
  BY <1>3 DEF InterruptionNeverFails, Failed
<1>4. CASE StartUpload(b)
  <2>1. b \in localFile
    BY <1>1, <1>2, <1>4 DEF StartUpload, PlaceInv, StageInv, WithFiles, InWork, Stages
  <2>2. QED BY <1>3, <1>4, <2>1 DEF StartUpload
<1>5. CASE EndUpload(b)
  <2>1. "short" \notin Faults
    BY DEF InterruptedOnly
  <2>2. manifest' = manifest
    BY <1>5, <2>1 DEF EndUpload, Accepted
  <2>3. QED BY <1>3, <2>2
<1>6. CASE VerifyExisting(b)
  <2>1. Checked /\ remote[b] = "whole"
    BY <1>1, <1>2, <1>6 DEF VerifyExisting, PlaceInv, StageInv, FromUploaded, InterruptedOnly
  <2>2. QED BY <1>3, <1>6, <2>1 DEF VerifyExisting
<1>7. CASE CommitSeen(b)
  <2>1. b \in indexFile
    BY <1>1, <1>2, <1>7 DEF CommitSeen, PlaceInv, StageInv, WithFiles, InWork, Stages
  <2>2. QED BY <1>3, <1>7, <2>1 DEF CommitSeen
<1>8. CASE \/ WriteParquet(b) \/ WriteIndex(b) \/ Register(b) \/ MarkUploaded(b)
           \/ Unlink(b) \/ UnlinkIndex(b)
  BY <1>3, <1>8 DEF WriteParquet, WriteIndex, Register, MarkUploaded, Unlink, UnlinkIndex
<1>9. CASE \/ CreateManifest(b) \/ RecordUploaded(b) \/ RecordVerified(b) \/ RecordCataloged(b)
           \/ Close(b)
  <2>1. \E stage \in Stages \ {"failed"} : \E next : Advance(b, stage, next)
    BY <1>9 DEF CreateManifest, RecordUploaded, RecordVerified, RecordCataloged, Close, Stages
  <2>2. QED BY <2>1, SaveFailsNothing
<1>10. CASE RecordMarker(b)
  <2>1. \E next : Advance(b, StageAfter(manifest[b].stage), next)
    BY <1>10 DEF RecordMarker
  <2>2. StageAfter(manifest[b].stage) \in Stages \ {"failed"}
    BY <1>1, <1>10 DEF RecordMarker, PlaceInv, StageAfter, Stages
  <2>3. QED BY <2>1, <2>2, SaveFailsNothing
<1>11. QED BY <1>4, <1>5, <1>6, <1>7, <1>8, <1>9, <1>10 DEF Effect

(* A crawl that is only interrupted, by crashes and shutdown requests      *)
(* between any two effects, fails no batch: recovery always finds the      *)
(* files the stage of a manifest promises.                                 *)
THEOREM InterruptionsFailNothing == InterruptedOnly => (Spec => []InterruptionNeverFails)
<1> SUFFICES ASSUME InterruptedOnly PROVE Spec => []InterruptionNeverFails
  OBVIOUS
<1>1. Init => InterruptionNeverFails
  BY DEF Init, NoManifest, InterruptionNeverFails, Failed
<1>2. ASSUME LInv, InterruptionNeverFails, [Next]_vars PROVE InterruptionNeverFails'
  <2>1. ASSUME manifest' = manifest PROVE InterruptionNeverFails'
    BY <1>2, <2>1 DEF InterruptionNeverFails, Failed
  <2>2. ASSUME NEW b \in BatchIds, Effect(b) PROVE InterruptionNeverFails'
    BY <1>2, <2>2, EffectFailsNothing
  <2>3. ASSUME NEW b \in BatchIds, NEW kind \in {"transient", "permanent"}, CallRaises(b, kind)
        PROVE  FALSE
    BY <2>3 DEF CallRaises, InterruptedOnly
  <2>4. CASE Recovery
    BY <1>2, <2>1, <2>4 DEF Recovery, StartupBlocked, Ends, StartCrawl, SkipTerminal, RecoverOne,
                            InterruptionNeverFails
  <2>5. CASE Start \/ Run \/ Interruption \/ UNCHANGED vars
    BY <2>1, <2>5 DEF Start, Run, FinishRun, Ends, TakeBatch, SaveCheckpoint, SkipUnchanged,
                      Interruption, Crash, RequestShutdown, FailureNotSaved, vars
  <2>6. QED BY <1>2, <2>2, <2>3, <2>4, <2>5 DEF Next
<1>3. QED BY <1>1, <1>2, LifecycleInvariant, PTL DEF Spec

=============================================================================
