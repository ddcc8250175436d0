SPECIFICATION Spec
CONSTANTS
    Convs = {c1}
    Limit = 2
    MaxMessages = 3
    MaxTexts = 2
    MaxSends = 1
INVARIANTS
    
    ReadReachesThread
PROPERTIES
    ClearedWasSent
    
CHECK_DEADLOCK FALSE
