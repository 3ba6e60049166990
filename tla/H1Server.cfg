SPECIFICATION FairSpec
CONSTANTS
    MaxRequests = 3
    Outlive = {{}}
INVARIANTS
    RequestsAligned
    NothingServedLate
PROPERTIES
    ResponsesInOrder
    DestroyEnds
CHECK_DEADLOCK FALSE
