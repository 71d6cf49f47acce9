------------------------------ MODULE SeenVersions ------------------------------
(***************************************************************************)
(* Versions of a document from the site to SeenStore: pages are read, the  *)
(* version read is compared with the stored one when it is buffered, and   *)
(* batches are committed in any order, each overwriting what is stored.    *)
(* Batches outlive the process: recovery commits them as well.             *)
(***************************************************************************)
EXTENDS Naturals, FiniteSets

CONSTANTS
  Documents,
  MaxContent,   \* bound: versions of a document
  MaxBatched    \* bound: batches with a version, at a time

ASSUME VersionsAssumption ==
  IsFiniteSet(Documents) /\ MaxContent \in Nat \ {0} /\ MaxBatched \in Nat \ {0}

VARIABLES
  showing,   \* the version a site shows
  readItems, \* versions read and not yet buffered
  batched,   \* how many batches hold a version
  hash       \* SeenStore, 0 for a record it does not know

versionVars == <<showing, readItems, batched, hash>>

DocVersions == Documents \X (1 .. MaxContent)

VersionsTypeOK ==
  /\ showing \in [Documents -> 0 .. MaxContent] /\ hash \in [Documents -> 0 .. MaxContent]
  /\ readItems \subseteq DocVersions
  /\ batched \in [DocVersions -> 0 .. MaxBatched]

VersionsInit ==
  /\ showing = [d \in Documents |-> 0] /\ hash = [d \in Documents |-> 0]
  /\ readItems = {} /\ batched = [r \in DocVersions |-> 0]

(* The site adds the document or changes it.                                *)
Publish(d) ==
  /\ showing[d] < MaxContent
  /\ showing' = [showing EXCEPT ![d] = @ + 1]
  /\ UNCHANGED <<readItems, batched, hash>>

(* A crawl finds the document.                                              *)
ReadPage(d) ==
  /\ showing[d] # 0
  /\ readItems' = readItems \cup {<<d, showing[d]>>}
  /\ UNCHANGED <<showing, batched, hash>>

(* Mutation: what is known is not looked at again.                          *)
IsNew(r) == hash[r[1]] = 0

(* inspect: new or updated.                                                 *)
Differs(r) == hash[r[1]] # r[2]

BufferVersion(r) ==
  /\ r \in readItems /\ readItems' = readItems \ {r}
  /\ IF Differs(r)
     THEN batched[r] < MaxBatched /\ batched' = [batched EXCEPT ![r] = @ + 1]
     ELSE UNCHANGED batched
  /\ UNCHANGED <<showing, hash>>

(* The process dies with what it had read.                                  *)
ReadsLost == readItems # {} /\ readItems' = {} /\ UNCHANGED <<showing, batched, hash>>

(* commit_many                                                              *)
CommitVersion(r) ==
  /\ batched[r] > 0
  /\ batched' = [batched EXCEPT ![r] = @ - 1]
  /\ hash' = [hash EXCEPT ![r[1]] = r[2]]
  /\ UNCHANGED <<showing, readItems>>

VersionsNext ==
  \/ ReadsLost
  \/ \E d \in Documents : Publish(d) \/ ReadPage(d)
  \/ \E r \in DocVersions : BufferVersion(r) \/ CommitVersion(r)

(* Crawls come back to every document, and what one has read it buffers,    *)
(* unless it is killed each time; a batch is committed in the end.          *)
VersionsFairness ==
  /\ \A d \in Documents : WF_versionVars(ReadPage(d))
  /\ \A r \in DocVersions : SF_versionVars(BufferVersion(r)) /\ WF_versionVars(CommitVersion(r))

VersionsSpec == VersionsInit /\ [][VersionsNext]_versionVars /\ VersionsFairness

(* When a site no longer changes a document, SeenStore comes to hold its     *)
(* last version and nothing is stored again, although an older batch may    *)
(* be committed after a newer one and the same version may be in several.   *)
SeenSettles ==
  <>[](/\ \A d \in Documents : hash[d] = showing[d]
       /\ \A r \in DocVersions : batched[r] = 0)

=============================================================================
