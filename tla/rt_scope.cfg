\* One writer, a flush for every finished scope, every kind of failure.
CONSTANTS
  S = S  T = T  r1 = r1  r2 = r2  r3 = r3  r4 = r4  r5 = r5
  Scopes = {S, T}
  Records = {r1, r2, r3}
  ScopeRecords <- SharedRecords
  PartitionOf <- SharedPartitions
  PriorRecords = {r1}
  BatchIds = {1, 2, 3}
  Crawlers = {c1}
  WriterCount = 1
  Uploaders = {u1}
  Catalogers = {k1}
  RecordQueueSize = 1
  UploadQueueSize = 1
  CatalogQueueSize = 1
  FlushScopeOnDone = TRUE
  CoalesceCount = 1
  Faults = {"discover", "crawl", "writer", "hook", "upload", "catalog"}
  MaxStops = 2
  Complete = Complete
  None = None
SPECIFICATION Spec
INVARIANT PendingAccounting
PROPERTY KeepsPromise
CHECK_DEADLOCK FALSE
