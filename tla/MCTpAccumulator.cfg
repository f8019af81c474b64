SPECIFICATION Spec
CONSTANTS
    p1 = p1
    d1 = d1
    Pushers <- MCPushers
    Dumpers <- MCDumpers
    Nobody = Nobody
    Groups <- MCGroups
    MaxPushes = 3
INVARIANTS
    DumpInBounds
