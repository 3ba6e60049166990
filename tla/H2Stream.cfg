SPECIFICATION FairSpec
CONSTANTS
    MaxData = 3
    MaxChunk = 2
INVARIANTS
    NothingStuck
    ResponseKept
PROPERTIES
    ReaderContract
    ReleasedGoes
CHECK_DEADLOCK FALSE
