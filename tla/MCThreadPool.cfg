SPECIFICATION Spec
CONSTANTS
    p1 = p1
    p2 = p2
    d1 = d1
    d2 = d2
    Putters <- MCPutters
    Doables <- MCDoables
    Nums <- MCNums
    MaxCreates = 2
INVARIANTS
    QuietWhenDown
    Accounted
    LeftOverRaced
PROPERTIES
    DestroyReturns
    QueuedRuns
