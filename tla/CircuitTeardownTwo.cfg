CONSTANTS
    Nobody = Nobody
    Streams = {s1, s2}
    Talkers = {}
    LinkMayFail = FALSE
SPECIFICATION Spec
INVARIANTS
    ClosedCircuitHasOnlyLateStreams
SYMMETRY StreamSymmetry
CHECK_DEADLOCK FALSE
