SPECIFICATION FairSpec
CONSTANTS
    s1 = s1
    s2 = s2
    Senders <- TwoSenders
    RING = 4
    WAKE = 2
    START = 2
    MaxPkts = 3
    MaxCloses = 0
    NoOne = noone
INVARIANTS
    TypeOK
    SentInOrder
    NothingLeaks
PROPERTIES
    
    QueuedIsSent
\* All packets of the bound are used up.
CHECK_DEADLOCK FALSE
