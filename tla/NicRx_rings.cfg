SPECIFICATION FairSpec
CONSTANTS
    Gmacs <- OneGmac
    NR = 2
    RING <- LongAndShort
    BUDGET = 2
    JUMBO_FRAGS = 3
    JumboRings = {0}
    PauseEnabled = FALSE
    MayExpire = FALSE
    MaxFrames = 2
    MaxCloses = 0
INVARIANTS
    TypeOK
    JumboIsOneFrame
PROPERTIES
    TopRingServed
\* The frames of the bound are used up.
CHECK_DEADLOCK FALSE
