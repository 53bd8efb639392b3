SPECIFICATION Spec
CONSTANTS
    a1 = a1
    a2 = a2
    a3 = a3
    topup = topup
    topup2 = topup2
    transfer = transfer
    exchange = exchange
    code1 = code1
    Attempts = {a1, a2, a3}
    Topups = {topup, topup2}
    Longer <- MCLonger
    Batches <- MCBatches
    Transfers = {transfer}
    Exchanges = {exchange}
    Codes = {code1}
    Faulty = {a1}
    MaxEdits = 1
INVARIANTS
    CreditedOnce
    AnsweredMeansCredited
    TransferBalanced
PROPERTY EveryAttemptEnds
CHECK_DEADLOCK FALSE
