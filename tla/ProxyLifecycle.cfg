CONSTANTS
    Clients = {t1, t2, t3}
    None = None
    MaxStops = 3
SPECIFICATION Spec
INVARIANTS
    TypeOK
    SequentialUseIsSafe
    ClientFollowsSwitch
    
SYMMETRY ClientSymmetry
CHECK_DEADLOCK FALSE
