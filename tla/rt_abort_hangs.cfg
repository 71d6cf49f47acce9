\* An upload failure while main puts sentinels: the second stop request is never seen.
CONSTANTS
  S = S  T = T  r1 = r1  r2 = r2  r3 = r3  r4 = r4  r5 = r5
  Scopes = {S, T}
  Records = {r1, r2}
  ScopeRecords <- OneEach
  PartitionOf <- OnePartition
  PriorRecords = {}
  BatchIds = {1, 2}
  Crawlers = {c1}
  WriterCount = 1
  Uploaders = {u1}
  Catalogers = {k1}
  RecordQueueSize = 1
  UploadQueueSize = 1
  CatalogQueueSize = 1
  FlushScopeOnDone = TRUE
  CoalesceCount = 1
  Faults = {"upload"}
  MaxStops = 2
  Complete = Complete
  None = None
SPECIFICATION FairSpec
PROPERTY AbortEnds
CHECK_DEADLOCK FALSE
