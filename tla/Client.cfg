SPECIFICATION FairSpec
CONSTANT Attempts <- MCAttempts
PROPERTIES ConnectEnds ClosedLoopEnds
CHECK_DEADLOCK FALSE
