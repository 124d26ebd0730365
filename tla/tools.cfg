CONSTANTS
    c1 = c1  k = k  w1 = w1  u1 = u1
    Contents = {c1}
    Keys = {k}
    NoKey = NoKey
    NoReviewer = NoReviewer
    Agent = Agent
    Reviewers = {u1}
    Workers = {w1}
    Audited = {}
    MaxDocuments = 1
    MaxDatabaseErrors = 1
    MaxIterations = 10
    MaxRetries = 0
    ClaimsSerialized = TRUE
    MaxCrashes = 1
    ToolTimeout = TRUE
    MaxLostRecords = 2
SPECIFICATION ToolFairSpec
INVARIANTS ToolTypeOK TraceFollowsPipeline TraceAgreesWithTables
PROPERTIES EveryPollReturns
CHECK_DEADLOCK FALSE
