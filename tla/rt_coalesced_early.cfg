\* Coalesced flushes: a checkpoint saved before its records are durable.
CONSTANTS
  S = S  T = T  r1 = r1  r2 = r2  r3 = r3  r4 = r4  r5 = r5
  Scopes = {S, T}
  Records = {r1, r2, r3, r4, r5}
  ScopeRecords <- FiveRecords
  PartitionOf <- FivePartitions
  PriorRecords = {}
  BatchIds = {1, 2, 3, 4, 5}
  Crawlers = {c1, c2}
  WriterCount = 1
  Uploaders = {u1}
  Catalogers = {k1}
  RecordQueueSize = 1
  UploadQueueSize = 1
  CatalogQueueSize = 1
  FlushScopeOnDone = FALSE
  CoalesceCount = 1
  Faults = {}
  MaxStops = 0
  Complete = Complete
  None = None
SPECIFICATION PromptSpec
INVARIANT CheckpointAfterDurable
CHECK_DEADLOCK FALSE
