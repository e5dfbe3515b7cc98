SPECIFICATION FairSpec
CONSTANTS
    File <- FiveBlocks
    W = 4
    RETRIES = 6
    TS = 3
    TC = 6
    CRetries = 3
    Delay = 2
    Requests <- AllRequests
    MaxLoss = 2
    MaxDup = 1
INVARIANTS
    TypeOK
PROPERTIES
    CopiesFile
    ServerListens
    FileArrives
CHECK_DEADLOCK FALSE
