SPECIFICATION BreakerFairSpec
CONSTANTS
    c1 = c1
    c2 = c2
    c3 = c3
    c4 = c4
    Calls <- MCCalls
    Abandoning = {c1}
    Threshold = 3
INVARIANTS
    HalfOpenHasProbe
    OneProbeUnlessStale
PROPERTIES
    Recovers
