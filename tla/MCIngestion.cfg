CONSTANTS
  c1 = c1
  c2 = c2
  Connections = {c1, c2}
  ItemIds = {1, 2}
  ItemsOf <- SharedItems
  Commands <- MixedCommands
  Ingesters = {w1, w2}
  MaxChanges <- TwoThenNone
  Faults = TRUE
  Adapter <- BothMemory
SYMMETRY IngesterSymmetry
SPECIFICATION Spec
INVARIANTS
  CyclesChain
  FullCyclesConsistent
  TablesFollowCycles
  NoLockCycle
PROPERTIES
  CyclesAreAtomic
