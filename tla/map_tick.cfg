SPECIFICATION Spec
CONSTANTS
    azeroth = azeroth
    dungeon = dungeon
    arathi = arathi
    i1 = i1
    i2 = i2
    w1 = w1
    w2 = w2
    w3 = w3
    null = null
    NoMap <- null
    Parent <- Parents
    BaseMaps <- ThreeMaps
    Instances <- TwoInstances
    Threads <- ThreeThreads
INVARIANTS
    TypeOK
    NoDanglingRequest
    OneUpdatePerTick
PROPERTIES
    Terminates
    ImplementsBarrier
CHECK_DEADLOCK FALSE
