SPECIFICATION Spec
CONSTANTS
    t1 = t1
    t2 = t2
    t3 = t3
    Threads <- MCThreads
    MaxSignals = 3
    Counts <- MCCounts
    ReleaseToRaises = FALSE
INVARIANTS
    TypeOK
    NoLostWakeUp
PROPERTIES
    PromiseKept
    WaitersServed
