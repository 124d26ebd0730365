CONSTANTS
    c1 = c1  c2 = c2  k = k  k2 = k2  w1 = w1  w2 = w2  u1 = u1  u2 = u2
    Contents = {c1, c2}
    Keys = {k}
    NoKey = NoKey
    NoReviewer = NoReviewer
    Agent = Agent
    Reviewers = {}
    Workers = {w1, w2}
    Audited = {}
    MaxDocuments = 2
    MaxDatabaseErrors = 0
    MaxIterations = 10
    MaxRetries = 0
    ClaimsSerialized = TRUE
    MaxCrashes = 0
SPECIFICATION Spec
INVARIANTS NearDuplicateNotAutoProcessed
CHECK_DEADLOCK FALSE
