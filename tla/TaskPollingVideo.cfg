SPECIFICATION FairSpec
CONSTANTS
    s1 = s1
    s2 = s2
    v1 = v1
    v2 = v2
    Tasks <- MCVideos
    Suno = {}
    Watched = {v2}
    Faulty = {v1}
    Price = 2
    Actuals = {2, 3}
    MaxFetches = 1
    MaxFaults = 2
INVARIANT RefundedOnce
PROPERTY EveryTaskEnds
