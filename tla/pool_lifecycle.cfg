SPECIFICATION Spec
CONSTANTS
    save1 = save1
    save2 = save2
    save3 = save3
    null = null
    Ops <- ThreeOps
    NoOp <- null
    AsyncThreads = 3
    AutoSetup = FALSE
INVARIANTS
    TypeOK
    OpAccounting
    QueueInIssueOrder
    NoIdleWorker
    NoWorkerOutlivesItsConnection
PROPERTIES
    TeardownTerminates
    KeepsPromise
CHECK_DEADLOCK FALSE
