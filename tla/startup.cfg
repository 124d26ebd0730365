CONSTANTS
    api1 = api1  api2 = api2  worker1 = worker1  caller1 = caller1  caller2 = caller2  token1 = token1  token2 = token2
    Processes = {api1, api2, worker1}
    ApiProcesses = {api1, api2}
    ApiToken <- MCApiToken
    MigrationCount = 4
    SeedMigration = 2
    MaxStops = 2
    NoToken = NoToken
    Callers = {caller1, caller2}
    DevEmail = "dev"
    Emails = {"ann"}
    MaxTokens = 2
SPECIFICATION AccessFairSpec
INVARIANTS StartsDoNotCollide AppliedInOrder ServesWithCompleteSchema AccessTypeOK IssuedTokensWork ListeningHasItsAdmin
PROPERTIES EveryStartEnds
CHECK_DEADLOCK FALSE
