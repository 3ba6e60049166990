SPECIFICATION FairSpec
CONSTANTS
    Clients = {a}
    Sessions <- MCSessions
    MaxBatch = 2
    MaxDatagrams = 1
PROPERTIES SilentIsForgotten
CHECK_DEADLOCK FALSE
