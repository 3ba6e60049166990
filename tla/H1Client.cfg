SPECIFICATION FairSpec
CONSTANTS
    MaxRequests = 2
    MaxAttempts = 2
INVARIANTS
    ResponseIntegrity
    TeardownAlone
    SafetyInv
PROPERTIES
    WireOrder
    DestroyEndsShutdown
CHECK_DEADLOCK FALSE
