SPECIFICATION Spec
CONSTANTS
    Gmacs <- OneGmac
    NR = 2
    RING <- LongAndShort
    BUDGET = 2
    JUMBO_FRAGS = 3
    JumboRings = {}
    PauseEnabled = TRUE
    MayExpire = TRUE
    MaxFrames = 3
    MaxCloses = 1
INVARIANTS
    BuffersNotShared
    ReceivedInOrder
CHECK_DEADLOCK FALSE
