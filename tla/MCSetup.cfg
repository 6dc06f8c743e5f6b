CONSTANTS
  Processes = {p1}
  Requests <- AllProfiles
  MaxSessions = 2
  MaxCrashes = 1
  MaxFaults = 2
SPECIFICATION Spec
INVARIANTS
  CompensatedFromTheEnd
PROPERTIES
  JournalAccounts
  VerifiedNotRepeated
CHECK_DEADLOCK FALSE
