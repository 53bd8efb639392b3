SPECIFICATION FairSpec
CONSTANTS
    s1 = s1
    s2 = s2
    v1 = v1
    v2 = v2
    Tasks <- MCTasks
    Suno = {s1, s2}
    Watched = {}
    Faulty = {s1}
    Price = 2
    Actuals = {1, 3}
    MaxFetches = 0
    MaxFaults = 1
INVARIANT FinishedMeansSettled
PROPERTY EveryTaskEnds
