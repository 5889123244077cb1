\* One stream on the circuit: the writer is the only sender of DATA cells.
CONSTANTS
    s1 = s1
    Streams = {s1}
    CircuitLevel = CircuitLevel
    CircStart = 3
    CircInc = 2
    StreamStart = 2
    StreamInc = 1
    MaxUnflushed = 2
SPECIFICATION FairSpec
INVARIANTS
    NeverHoldsAndWaits
PROPERTIES
    FlushCompletes
    PromptReaderKeepsStreamOpen
