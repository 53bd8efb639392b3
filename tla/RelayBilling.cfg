SPECIFICATION Spec
CONSTANTS
    r1 = r1
    r2 = r2
    Requests <- MCRequests
    Faulty = {r1}
    Playground = {}
    Linked = {r1, r2}
    Estimates = {0, 2, 5}
    Costs = {0, 2, 5}
    InitUserQuota = 4
    InitTokenQuota = 5
    TokenUnlimited = FALSE
    TrustQuota = 3
    RetryTimes = 1
    OutboxMaxRetries = 2
INVARIANTS
    NoOverRefund
    ErrorMeansUncharged
    ServedMeansCharged
    WalletChargedOnce
    NoMixedSettlement
    HoldLeakCases
