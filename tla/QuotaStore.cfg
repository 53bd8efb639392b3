SPECIFICATION FairSpec
CONSTANTS
    charge = charge
    credit = credit
    pod1 = pod1
    pod2 = pod2
    Ops = {charge, credit}
    Direct = {credit}
    Delta <- MCDelta
    Pods = {pod1, pod2}
    PodOf <- MCPodOf
    Readers = {1}
    IsToken = FALSE
    Start = 2
    NewQuotas = {9}
    MaxFaults = 1
    MaxEdits = 1
PROPERTIES
    CountsOnce
    DriftOnlyAtRefill
    EventuallyFresh
CHECK_DEADLOCK FALSE
