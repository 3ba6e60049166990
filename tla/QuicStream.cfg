SPECIFICATION Spec
CONSTANTS
    Kinds = {"plain", "client", "server"}
    MaxUnits = 3
    MaxChunk = 2
INVARIANTS
    NothingWaits
    BufferKept
    EndIsTrue
PROPERTIES
    ReaderContract
CHECK_DEADLOCK FALSE
