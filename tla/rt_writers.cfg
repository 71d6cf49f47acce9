\* Two writers, two crawlers and a shared partition, no failures, zero or one stop request.
CONSTANTS
  S = S  T = T  r1 = r1  r2 = r2  r3 = r3  r4 = r4  r5 = r5
  Scopes = {S, T}
  Records = {r1, r2, r3}
  ScopeRecords <- SharedRecords
  PartitionOf <- SharedPartitions
  PriorRecords = {r1}
  BatchIds = {1, 2, 3}
  Crawlers = {c1, c2}
  WriterCount = 2
  Uploaders = {u1}
  Catalogers = {k1}
  RecordQueueSize = 1
  UploadQueueSize = 1
  CatalogQueueSize = 1
  FlushScopeOnDone = TRUE
  CoalesceCount = 1
  Faults = {}
  MaxStops = 1
  Complete = Complete
  None = None
SPECIFICATION Spec
INVARIANTS CheckpointAfterDurable CompleteCoversCrawl
CHECK_DEADLOCK FALSE
