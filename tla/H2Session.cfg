SPECIFICATION FairSpec
CONSTANTS
    MaxStreams = 2
    InitialLimit = 2
    Limits = {0, 1, 2}
INVARIANTS
    NoLostWakeUp
    NotHeldBack
    GoawayFirst
PROPERTIES
    DestroyEnds
CHECK_DEADLOCK FALSE
