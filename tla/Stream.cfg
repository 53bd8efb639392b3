SPECIFICATION Spec
CONSTANTS
    CalmStreams <- MCCalm
    RoughStreams <- MCRough
    StopChannelBuffer = 3
INVARIANTS
    CleanHandover
    EveryPieceOnce
    MessageWellFormed
PROPERTY EveryoneExits
CHECK_DEADLOCK FALSE
