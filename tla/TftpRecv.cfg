SPECIFICATION FairSpec
CONSTANTS
    N = 4
    W = 3
    RETRIES = 2
    CRetries = 1
    Requests <- AllRequests
    MaxUploads = 2
    MaxLoss = 1
    MaxDup = 1
    MaxSwap = 1
    MaxStops = 1
INVARIANTS
    TypeOK
    ClientKnows
PROPERTIES
    CopiesFile
    ReceiverListens
\* The uploads of the bound are used up.
CHECK_DEADLOCK FALSE
