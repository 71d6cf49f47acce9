\* Crashes and shutdown requests between any two steps, two scopes with a common record.
CONSTANTS
  S = S  T = T  r1 = r1  r2 = r2
  Scopes = {S, T}
  Records = {r1, r2}
  ScopeRecords <- Shared
  BatchIds = {1, 2, 3}
  Checked = TRUE
  MaxRetries = 1
  BlockOnFailed = TRUE
  Faults = {"crash", "stop"}
  Complete = Complete
  None = None
SPECIFICATION Spec
INVARIANT InterruptionNeverFails
