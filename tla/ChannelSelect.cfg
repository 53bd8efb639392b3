SPECIFICATION Spec
CONSTANTS
    c1 = c1
    c2 = c2
    c3 = c3
    c4 = c4
    Channels = {c1, c2, c3, c4}
    AutoGroups <- MCAutoGroups
    GroupsOf <- MCGroupsOf
    Priority <- MCPriority
    Weight <- MCWeight
    TokenGroup = "vip"
    UserGroup = "default"
    RetryTimes = 2
    MaxEvents = 2
INVARIANTS
    RoundsBounded
    EveryDrawFair
    BilledForItsGroup
PROPERTY NoPrioritySkipped
CHECK_DEADLOCK FALSE
