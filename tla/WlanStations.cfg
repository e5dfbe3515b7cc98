SPECIFICATION FairSpec
CONSTANTS
    a = a
    b = b
    Stas <- TwoStas
    NoSta = none
    AUTH_TO = 1
    ASSOC_TO = 1
    EXPIRE_TO = 2
    DELSTATIME = 2
    INIT_TO = 1
    LIMIT = 1
    MaxCount = 2
    Confs <- Configurations
INVARIANTS
    
    
    EntryIsTimed
PROPERTIES
    DeletionCompletes
