SPECIFICATION FairSpec
CONSTANTS
    MaxData = 3
    MaxChunk = 2
    ChunkSize = 1
INVARIANTS
    BufferKept
    EndGoesOut
    NothingStalls
PROPERTIES
    ReaderContract
    CancelEnds
CHECK_DEADLOCK FALSE
