SPECIFICATION Spec
CONSTANTS
    p1 = p1
    p2 = p2
    p3 = p3
    a = a
    b = b
    c = c
    d = d
    w1 = w1
    w2 = w2
    o1 = o1
    o2 = o2
    Nobody = Nobody
    Processors <- OneProcessor
    NextOf <- OneNext
    Entries <- OneProcessor
    Tasks <- FourTasks
    Prio <- FourPrios
    Lists <- SinglesAndPair
    Workers <- TwoWorkers
    Home <- Home1
    Owners <- OneOwner
    Counts = {1, 2}
    SyncModes = {TRUE, FALSE}
    MaxQueueSize = 3
    MaxThreadSize = 2
    BatchSize = 2
INVARIANTS
    TypeOK
    SignalsCoverQueue
    Accounted
PROPERTIES
    PopsInOrder
    BufferKept
