SPECIFICATION Spec
CONSTANTS
    NCPU = 3
    Timeout = 7
    Periods <- OneAndTwo
    PMax = 2
    Late = 1
    MayHang <- MainAndLast
    MayFail = FALSE
    MaxWrites = 3
INVARIANTS TypeOK HealthyNotReset 
