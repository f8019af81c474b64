SPECIFICATION Spec
CONSTANTS
    p1 = p1
    p2 = p2
    p3 = p3
    a = a
    b = b
    c = c
    d = d
    w1 = w1
    w2 = w2
    o1 = o1
    o2 = o2
    Nobody = Nobody
    Processors <- ThreeProcessors
    NextOf <- FanNextOf
    Entries <- FanEntries
    Tasks <- OneTask
    Prio <- OnePrio
    Lists <- OneList
    Workers <- TwoWorkers
    Home <- Home1
    Owners <- TwoOwners
    Counts = {2}
    SyncModes = {TRUE}
    MaxQueueSize = 1
    MaxThreadSize = 2
    BatchSize = 2
INVARIANTS
    HandedOn
    NothingTouchesDestroyed
    Listed
PROPERTIES
    QueuedLeaves
    CallsReturn
