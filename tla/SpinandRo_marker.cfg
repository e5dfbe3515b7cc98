SPECIFICATION Spec
CONSTANTS
    r1 = r1
    r2 = r2
    Readers <- OneReader
    Prober = prober
    NoOne = noone
    PAGES = 4
    PAGES_PER_BLOCK = 2
    SECTORS = 2
    OOB_BYTES = 3
    AUTO_SKIP = 1
    AUTO_AVAIL = 2
    FlashImages <- UnluckyImages
    Requests <- FewRequests
INVARIANTS
    UndecodableNeverGood
\* A failed probe leaves nothing to do.
CHECK_DEADLOCK FALSE
