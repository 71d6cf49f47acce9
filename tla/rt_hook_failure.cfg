\* Two writers, a record hook that raises: the other writer closes a scope whose batch was dropped.
CONSTANTS
  S = S  T = T  r1 = r1  r2 = r2  r3 = r3  r4 = r4  r5 = r5
  Scopes = {S, T}
  Records = {r1, r2, r3, r4, r5}
  ScopeRecords <- FiveRecords
  PartitionOf <- FivePartitions
  PriorRecords = {}
  BatchIds = {1, 2, 3, 4}
  Crawlers = {c1}
  WriterCount = 2
  Uploaders = {u1}
  Catalogers = {k1}
  RecordQueueSize = 3
  UploadQueueSize = 1
  CatalogQueueSize = 1
  FlushScopeOnDone = TRUE
  CoalesceCount = 1
  Faults = {"hook"}
  MaxStops = 0
  Complete = Complete
  None = None
SPECIFICATION PromptSpec
INVARIANT CheckpointAfterDurable
CHECK_DEADLOCK FALSE
