SPECIFICATION FairSpec
CONSTANTS
    r1 = r1
    r2 = r2
    Requests <- MCRequests
    Faulty = {r1}
    Playground = {r2}
    Linked = {r1, r2}
    Estimates = {2, 3}
    Costs = {0, 3}
    InitUserQuota = 2
    InitTokenQuota = 4
    TokenUnlimited = TRUE
    TrustQuota = 4
    RetryTimes = 1
    OutboxMaxRetries = 2
INVARIANT OverdraftBounded
PROPERTY EveryRequestEnds
