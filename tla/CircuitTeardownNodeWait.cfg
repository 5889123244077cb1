CONSTANTS
    Nobody = Nobody
    Streams = {s1}
    Talkers = {s1}
    LinkMayFail = FALSE
SPECIFICATION FairSpec
PROPERTIES
    WaitEndsWithCircuit
CHECK_DEADLOCK FALSE
