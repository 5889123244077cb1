CONSTANTS
    Nobody = Nobody
    Streams = {s1}
    Talkers = {}
    LinkMayFail = TRUE
SPECIFICATION FairSpec
PROPERTIES
    LastStreamCloses
CHECK_DEADLOCK FALSE
