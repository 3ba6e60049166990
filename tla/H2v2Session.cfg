SPECIFICATION FairSpec
CONSTANTS
    MaxStreams = 2
INVARIANTS
    SleepsSafely
PROPERTIES
    ClosingEnds
CHECK_DEADLOCK FALSE
