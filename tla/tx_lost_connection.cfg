SPECIFICATION Spec
CONSTANTS
    save = save
    trade = trade
    nothing = nothing
    auction = auction
    ping = ping
    a1 = a1
    a2 = a2
    s1 = s1
    null = null
    Length <- Lengths
    Nobody <- null
    Tasks <- OneTask
    Async <- OneAsync
    Sync <- None
    Directs <- None
    Singles <- None
    MaxTries = 1
    DirectRetries = 1
    MaxLosses = 1
    MaxIssued = 1
    ReconnectAttempts = 2
    Faults = {"loss"}
INVARIANT AllOrNothing
CHECK_DEADLOCK FALSE
