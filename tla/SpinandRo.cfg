SPECIFICATION FairSpec
CONSTANTS
    r1 = r1
    r2 = r2
    Readers <- TwoReaders
    Prober = prober
    NoOne = noone
    PAGES = 4
    PAGES_PER_BLOCK = 2
    SECTORS = 2
    OOB_BYTES = 3
    AUTO_SKIP = 1
    AUTO_AVAIL = 2
    FlashImages <- MCImages
    Requests <- MCRequests
INVARIANTS
    TypeOK
    NoDmaIntoFreedRam
    BufferIsQuiet
    SingleTimeout
    ReadReturnsRequest
    IsBadIsConservative
PROPERTIES
    CallsReturn
\* A failed probe leaves nothing to do.
CHECK_DEADLOCK FALSE
