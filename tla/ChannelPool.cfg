SPECIFICATION Spec
CONSTANTS
    k1 = k1
    k2 = k2
    h1 = h1
    h2 = h2
    Keys = {k1, k2}
    InitPools <- MCInitPools
    Handlers = {h1, h2}
    MaxKeys = 2
    MaxTime = 2
    MaxEdits = 1
INVARIANTS
    BlameOnlyFailed
    ManualSticks
PROPERTIES
    ReaperDrains
    CacheConverges
CHECK_DEADLOCK FALSE
