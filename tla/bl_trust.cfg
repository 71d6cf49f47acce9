\* A crash between two saves when rsync is trusted.
CONSTANTS
  S = S  T = T  r1 = r1  r2 = r2
  Scopes = {S, T}
  Records = {r1, r2}
  ScopeRecords <- OneEach
  BatchIds = {1, 2}
  Checked = FALSE
  MaxRetries = 3
  BlockOnFailed = TRUE
  Faults = {"crash"}
  Complete = Complete
  None = None
SPECIFICATION Spec
INVARIANT InterruptionNeverFails
