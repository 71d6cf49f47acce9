\* One scope, enough batches to crawl it again, every fault, a start after failed recovery.
CONSTANTS
  S = S  T = T  r1 = r1  r2 = r2
  Scopes = {S}
  Records = {r1, r2}
  ScopeRecords <- OneScope
  BatchIds = {1, 2, 3}
  Checked = TRUE
  MaxRetries = 1
  BlockOnFailed = FALSE
  Faults = {"crash", "stop", "transient", "permanent", "short", "save"}
  Complete = Complete
  None = None
SPECIFICATION FairSpec
PROPERTIES EveryManifestSettles EveryScopeSettles
