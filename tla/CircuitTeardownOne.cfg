CONSTANTS
    Nobody = Nobody
    Streams = {s1}
    Talkers = {s1}
    LinkMayFail = TRUE
SPECIFICATION Spec
INVARIANTS
    TypeOK
    
CHECK_DEADLOCK FALSE
