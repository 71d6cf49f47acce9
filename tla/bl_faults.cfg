\* Every kind of failure, up to two of each batch in recovery.
CONSTANTS
  S = S  T = T  r1 = r1  r2 = r2
  Scopes = {S, T}
  Records = {r1, r2}
  ScopeRecords <- OneEach
  BatchIds = {1, 2}
  Checked = TRUE
  MaxRetries = 2
  BlockOnFailed = TRUE
  Faults = {"crash", "stop", "transient", "permanent", "short", "save"}
  Complete = Complete
  None = None
SPECIFICATION Spec
INVARIANTS SeenIsStored NeverLost StoredOnce RetryBudget
PROPERTIES KeepsPromise NeverBackward
