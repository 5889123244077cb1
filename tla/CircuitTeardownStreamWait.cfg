CONSTANTS
    Nobody = Nobody
    Streams = {s1}
    Talkers = {s1}
    LinkMayFail = FALSE
SPECIFICATION FairSpec
PROPERTIES
    WaitEndsWithStream
CHECK_DEADLOCK FALSE
