SPECIFICATION Spec
CONSTANTS
    save = save
    trade = trade
    nothing = nothing
    auction = auction
    ping = ping
    a1 = a1
    a2 = a2
    s1 = s1
    null = null
    Length <- Lengths
    Nobody <- null
    Tasks <- AllTasks
    Async <- TwoAsync
    Sync <- OneSync
    Directs <- OneDirect
    Singles <- OneSingle
    MaxTries = 2
    DirectRetries = 1
    MaxLosses = 1
    MaxIssued = 2
    ReconnectAttempts = 2
    Faults = {"deadlock", "error", "commit", "loss", "refused", "unhandled"}
INVARIANTS
    TypeOK
    IdleSessionsAreClean
PROPERTIES
    ImplementsAtomic
    EveryOperationAnswered
CHECK_DEADLOCK FALSE
