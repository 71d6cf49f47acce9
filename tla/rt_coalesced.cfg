\* Coalesced flushes, two writers, no failures: everything is durable at the end.
CONSTANTS
  S = S  T = T  r1 = r1  r2 = r2  r3 = r3  r4 = r4  r5 = r5
  Scopes = {S, T}
  Records = {r1, r2}
  ScopeRecords <- OneEach
  PartitionOf <- OnePartition
  PriorRecords = {r1}
  BatchIds = {1, 2}
  Crawlers = {c1, c2}
  WriterCount = 2
  Uploaders = {u1}
  Catalogers = {k1}
  RecordQueueSize = 1
  UploadQueueSize = 1
  CatalogQueueSize = 1
  FlushScopeOnDone = FALSE
  CoalesceCount = 2
  Faults = {}
  MaxStops = 1
  Complete = Complete
  None = None
SPECIFICATION FairSpec
INVARIANT DrainedIsDurable
PROPERTIES EveryScopeCloses RunEnds
CHECK_DEADLOCK FALSE
