SPECIFICATION Spec
CONSTANTS
    Actors = {ann, bob}
    Terms = {1, 2}
    MaxLeaseVersion = 3
    MaxLeases = 2
    MaxDecisions = 3
    MaxSourceRevision = 2
    MaxProposals = 2
    MaxLeaseClock = 2
    Payloads = {"a", "b"}
    MaxEntries = 3
    Users = {"u1", "u2"}
    Scopes <- MCScopes
    GrantableRoles = {"builder", "tenant_administrator"}
    Operations = {"decision.create", "connection.configure", "connection.reconnect"}
    Nobody = "nobody"
    SessionTerm = 2
    Day = 2
    MaxRoleRevision = 2
    MaxGrants = 1
    MaxInvocations = 3
    MaxHours = 5
SYMMETRY Symmetry
INVARIANTS
  ExclusiveAlone
  ChangesChain
  VerifiedIsWritten
  BreakGlassLimited
PROPERTIES
  NeverBrokenSilently
  PermittedForAReason
CHECK_DEADLOCK FALSE
