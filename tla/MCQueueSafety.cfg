CONSTANTS
  Tenants = {1, 2}
  Workspaces = {1}
  JobIds = {1, 2}
  Keys = {1}
  Workers = {w1, w2}
  AttemptLimits = {2}
  LeaseDuration = 1
  BaseRetrySeconds = 1
  MaxRetrySeconds = 2
  MaxHeartbeats = 1
  None = None
SYMMETRY WorkerSymmetry
SPECIFICATION Spec
INVARIANTS
  TypeOK
  AttemptsBounded
  IdempotencyExact
  StaleRunRefused
  NoTenantOvertakenTwice
PROPERTIES
  SettledForever
  LiveLeaseUndisturbed
CHECK_DEADLOCK FALSE
