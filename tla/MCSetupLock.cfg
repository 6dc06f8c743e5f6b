CONSTANTS
  Processes = {p1, p2}
  Requests <- DevelopmentOnly
  MaxSessions = 2
  MaxCrashes = 0
  MaxFaults = 0
SPECIFICATION Spec
INVARIANTS
  OneApplyRun
CHECK_DEADLOCK FALSE
