SPECIFICATION Spec
CONSTANTS
    save1 = save1
    save2 = save2
    save3 = save3
    null = null
    Ops <- TwoOps
    NoOp <- null
    AsyncThreads = 1
    AutoSetup = TRUE
PROPERTY EnqueuedIsExecuted
CHECK_DEADLOCK FALSE
