CONSTANTS
    Task = Task
    r1 = r1
    r2 = r2
    c1 = c1
    c2 = c2
    Requests = {r1}
    Circuits = {c1, c2}
    Supports <- OneSupports
    MAX_PENDING_CIRCUITS = 1
SPECIFICATION FairSpec
PROPERTIES
    NeverOverlooked
    
