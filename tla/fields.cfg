CONSTANTS
    w1 = w1  u1 = u1  invoice = invoice  letter = letter
    Contents = {invoice, letter}
    Keys <- MCKeys
    NoKey = NoKey
    NoReviewer = NoReviewer
    Agent = Agent
    Reviewers = {u1}
    Workers = {w1}
    Audited = {}
    MaxDocuments = 1
    MaxDatabaseErrors = 1
    MaxIterations = 10
    MaxRetries = 1
    ClaimsSerialized = TRUE
    MaxCrashes = 1
    Schema <- MCSchema
    Threshold <- MCThreshold
    Texts <- MCTexts
    Numeric <- MCNumeric
    NumberText <- MCNumberText
    ItemsText <- MCItemsText
    Negative = {"-3"}
    NotFinite = {"NaN"}
    DateFormatted = {"2026-01-31"}
    MatchingLabels <- MCMatchingLabels
    TextOf <- MCTextOf
    ClassifyAnswers <- MCClassifyAnswers
    ExtractAnswers <- MCExtractAnswers
    ApiForms <- MCApiForms
    Edits <- MCEdits
    MaxEdits = 1
SPECIFICATION FieldsSpec
INVARIANTS AutoProcessedIsWellFormed AutoProcessedIsConfident KeyMatchesShownFields FirstAttemptShowsItsType PageOfSettledStays CorrectionTouchesEdited
PROPERTIES ImplementsLifecycle ImplementsFieldView
CHECK_DEADLOCK FALSE
