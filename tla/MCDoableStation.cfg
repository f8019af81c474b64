SPECIFICATION Spec
CONSTANTS
    p1 = p1
    p2 = p2
    d1 = d1
    d2 = d2
    d3 = d3
    Putters <- MCPutters
    Doables <- MCDoables
    EndDoable = EndDoable
    Destructor = Destructor
    Worker = Worker
    MaxPuts = 3
INVARIANTS
    FifoKept
    AtMostOneMore
PROPERTIES
    DestructorReturns
    PutRuns
CHECK_DEADLOCK FALSE
