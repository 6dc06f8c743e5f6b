CONSTANTS
  Items = {1, 2, 3, 4}
  Subtypes = {"hard"}
SPECIFICATION FairSpec
INVARIANTS
  GraphAnswersExact
PROPERTIES
  Terminates
CHECK_DEADLOCK FALSE
