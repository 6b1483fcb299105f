SPECIFICATION Spec
CONSTANTS
    A = A
    B = B
    C = C
    D = D
    E = E
    Node = {A, B, C}
    Segment <- Two
    Attached <- Line
    Staleness = 1
    MaxBroadcastId = 1
    ServerPort = 1
    Alive <- Processes
    Flow <- Neighbours
    Forcing <- ForcedOrNot
    MaxHopCount = 6
    MaxSends = 2
    MaxTicks = 0
    MaxLosses = 0
    MaxRestarts = 1
CHECK_DEADLOCK FALSE
INVARIANTS
    ParkedIffFinding
PROPERTIES
    ImplementsService
