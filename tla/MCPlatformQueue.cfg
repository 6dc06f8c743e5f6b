SPECIFICATION FairSpec
CONSTANTS
    Subjects = {"queue"}
    Order <- MCOrder
    Prerequisites <- MCPrerequisites
    Blocking = {"static"}
    Scoped = {"scoped"}
    RunnerEvidence = {"static"}
    Kinds = {"foundation", "standalone", "release"}
    MaxCommits = 2
    MaxEdits = 2
    Catalog = {1, 2, 3}
    Closures <- MCClosures
    MaxRevisions = 2
    MaxAttempts = 4
    Databases = {0}
    Threads = {"t", "u"}
    Actors = {"a", "b"}
    ApiItems = {"i"}
    Limit = 2
    Window = 2
    MaxRequests = 4
    MaxApiNow = 5
    Operators = {"a", "b"}
    Differences <- MCDifferences
    Presentation = {"render"}
    LeaseTicks = 2
    MaxSource = 3
    MaxVersion = 4
    MaxCutNow = 4
    Processes = {"p", "q"}
    PgWorkspaces = {"w"}
    JobIds = {"j"}
    Deliveries = {"d"}
    LeaseDuration = 1
    MaxPgNow = 3
    HasNodeId = TRUE
    Threshold = 2
    Margin = 1
    TokenLife = 3
    Cooldown = 2
    MaxIssue = 2
    MaxGitHubNow = 4
PROPERTY AbandonedRecovered
CHECK_DEADLOCK FALSE
