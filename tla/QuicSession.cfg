CONSTANTS
    Streams = {1, 2}
    Remotes <- MCRemotes
    MaxOut = 2
    MaxPackets = 1
SPECIFICATION Spec
INVARIANTS
    AcceptedInOrder
    WriteComes
PROPERTY
    NoOvertaking
CHECK_DEADLOCK FALSE
