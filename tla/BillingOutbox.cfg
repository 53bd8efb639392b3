SPECIFICATION OutboxFairSpec
CONSTANTS
    s1 = s1
    x1 = x1
    p1 = p1
    p2 = p2
    Rows <- MCRows
    Settles = {s1}
    Pods <- MCPods
    MaxRetries = 3
    MaxCrashes = 1
INVARIANTS
    DoneMeansExecuted
    FailedMeansTried
PROPERTIES
    EveryRowEnds
