SPECIFICATION FairSpec
CONSTANTS
    Gmacs <- OneGmac
    NR = 3
    RING <- ThreeRings
    BUDGET = 2
    JUMBO_FRAGS = 3
    JumboRings = {}
    PauseEnabled = FALSE
    MayExpire = FALSE
    MaxFrames = 3
    MaxCloses = 0
PROPERTY QuitRingRestarts
CHECK_DEADLOCK FALSE
