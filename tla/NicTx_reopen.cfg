SPECIFICATION Spec
CONSTANTS
    s1 = s1
    s2 = s2
    Senders <- TwoSenders
    RING = 4
    WAKE = 2
    START = 0
    MaxPkts = 3
    MaxCloses = 1
    NoOne = noone
SYMMETRY Symmetry
INVARIANTS
    NoUseAfterFree
    FreedOnce
\* All packets of the bound are used up.
CHECK_DEADLOCK FALSE
