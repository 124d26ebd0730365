CONSTANTS
    c1 = c1  c2 = c2  k = k  k2 = k2  w1 = w1  w2 = w2  u1 = u1  u2 = u2
    Contents = {c1, c2}
    Keys = {k}
    NoKey = NoKey
    NoReviewer = NoReviewer
    Agent = Agent
    Reviewers = {u1}
    Workers = {w1}
    Audited = {"document.routed_to_review", "document.auto_processed", "agent_run.retrying", "agent_run.failed", "review.approved", "review.rejected", "review.corrected"}
    MaxDocuments = 2
    MaxDatabaseErrors = 0
    MaxIterations = 10
    MaxRetries = 1
    ClaimsSerialized = TRUE
    MaxCrashes = 0
SPECIFICATION FairSpec
INVARIANTS AtMostRetriesPlusOne NearDuplicateNotAutoProcessed OpenTaskIsReviewable AuditTrailComplete
PROPERTIES EventuallySettled
CHECK_DEADLOCK FALSE
