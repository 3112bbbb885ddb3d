CONSTANTS
    MaxPackets = 6
    Large <- OneLarge
    Capacity = 2
SPECIFICATION Spec
CHECK_DEADLOCK FALSE
INVARIANTS
    TypeOK
    SessionIsThere
    StreamIsWhole
    ReadsDoNotOverlap
PROPERTY
    ClosedIsCleanedUp
