SPECIFICATION Spec
CONSTANTS
    N = 3
    Rounds = 2
INVARIANTS
    RoundsApart
    FileInOrder
    LocalEventsLive
PROPERTIES
    RoundsEnd
CHECK_DEADLOCK FALSE
