SPECIFICATION DailySpec
CONSTANTS
    p1 = p1
    p2 = p2
    r1 = r1
    r2 = r2
    Pods <- MCPods
    Requests <- MCRequests
    Amounts = {1, 2}
    DailyQuota = 2
    MaxFaults = 2
    MaxWrites = 1
INVARIANTS
    DemotedOnlyByRace
PROPERTIES
    ResetOncePerDay
    BackToBase
