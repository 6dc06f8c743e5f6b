SPECIFICATION Spec
CONSTANTS
    GateIds = {"g1", "g2"}
    RawBundles <- MCRawBundles
    EvidencePool <- MCEvidencePool
    MaxEvidence = 2
    MaxRevision = 2
    MaxNow = 2
    Malformed = Malformed
    Sources = {1, 2}
    Levels = {1, 6}
    Claims = {"authoritative", "provisional", "stale"}
    Values = {1, 2}
    MaxAge <- MCMaxAge
    MaxRevisions = 2
    MaxObservations = 2
    MaxClock = 3
    Items = {1, 2, 3}
    Missing = 9
    Pipeline <- MCPipeline
    MaxBlockers = 2
    MaxEdits = 2
PROPERTIES
  VerdictsMonotone
  SafetyProven
  ResolutionsJustified
  ReadinessChangesAffected
  FrontierWorkedOff
CHECK_DEADLOCK FALSE
