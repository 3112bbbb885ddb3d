CONSTANTS
    MaxPackets = 2
    Large = {}
    Capacity = 2
SPECIFICATION Spec
CHECK_DEADLOCK FALSE
INVARIANT
    RejectionIsSent
