CONSTANTS
    CellSizes = {0, 1, 2}
    ReadSizes = {0, 1, 3}
    MaxQueue = 4
    MaxBytes = 6
SPECIFICATION FairSpec
INVARIANTS
    TypeOK
    AvailableBytesAreThere
    WaitsEmptyHanded
    NoByteLost
PROPERTIES
    CloseEndsRead
CHECK_DEADLOCK FALSE
