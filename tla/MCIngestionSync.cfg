CONSTANTS
  c1 = c1
  c2 = c2
  Connections = {c1, c2}
  ItemIds = {1, 2}
  ItemsOf <- SharedItems
  Commands <- SyncCommands
  Ingesters = {w1, w2}
  MaxChanges <- OneEach
  Faults = FALSE
  Adapter <- MemoryAndGitHub
SPECIFICATION FairSpec
PROPERTIES
  EventuallyInSync
