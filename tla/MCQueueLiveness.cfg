CONSTANTS
  Tenants = {1}
  Workspaces = {1}
  JobIds = {1, 2}
  Keys = {1, 2}
  Workers = {w1, w2}
  AttemptLimits = {2}
  LeaseDuration = 1
  BaseRetrySeconds = 1
  MaxRetrySeconds = 1
  MaxHeartbeats = 0
  None = None
SPECIFICATION FairSpec
PROPERTIES
  EveryJobSettles
CHECK_DEADLOCK FALSE
