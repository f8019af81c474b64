SPECIFICATION Spec
CONSTANTS
    Lists <- MCLists
    Rounds = 2
INVARIANTS
    LocalsOutliveCallbacks
    CountComplete
    FramesFreed
    PureH264
PROPERTIES
    RoundsEnd
CHECK_DEADLOCK FALSE
