SPECIFICATION TalkingSpec
CONSTANTS
    Connections = {c1, c2, c3}
    None = None
INVARIANTS
    Inv
PROPERTIES
    Drains
CHECK_DEADLOCK FALSE
