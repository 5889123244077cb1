\* Two streams share the circuit; the window values keep the shape of the real
\* ones: a circuit window less than two stream windows together.
CONSTANTS
    s1 = s1
    s2 = s2
    Streams = {s1, s2}
    CircuitLevel = CircuitLevel
    CircStart = 2
    CircInc = 1
    StreamStart = 2
    StreamInc = 2
    MaxUnflushed = 1
SPECIFICATION Spec
SYMMETRY StreamSymmetry
CHECK_DEADLOCK FALSE
INVARIANTS
    TypeOK
    CreditConserved
    WindowsWithinBounds
    OnlyHoldAndWaitStops
