SPECIFICATION Spec
CONSTANTS
    p1 = p1
    p2 = p2
    x1 = x1
    x2 = x2
    x3 = x3
    n0 = n0
    n1 = n1
    n2 = n2
    n3 = n3
    Dummy = dummy
    Null = null
    Items <- ThreeItems
    Nodes <- FourNodes
    FirstNode <- n0
    Producers <- TwoProducers
    MaxEnqueues = 5
INVARIANTS
    TypeOK
    NoWriteAfterRelease
PROPERTY ImplementsFifo
CHECK_DEADLOCK FALSE
