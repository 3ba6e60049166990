SPECIFICATION FairSpec
CONSTANTS
    Clients = {a}
    Sessions <- MCSessions
    MaxBatch = 2
    MaxDatagrams = 3
INVARIANTS OneSession
PROPERTIES CloseIsLast Forgets ShutdownEnds
CHECK_DEADLOCK FALSE
