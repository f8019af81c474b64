SPECIFICATION Spec
CONSTANTS
    N = 3
    Rounds = 2
PROPERTIES
    WritesHeldData
CHECK_DEADLOCK FALSE
