SPECIFICATION Spec
CONSTANTS
    A = A
    B = B
    C = C
    D = D
    E = E
    Node = {A, B, C, E}
    Segment <- Three
    Attached <- Triangle
    Staleness = 1
    MaxBroadcastId = 3
    ServerPort = 1
    Alive <- Processes
    Flow <- AlsoAbsent
    Forcing <- NotForced
    MaxHopCount = 6
    MaxSends = 3
    MaxTicks = 0
    MaxLosses = 1
    MaxRestarts = 0
CHECK_DEADLOCK FALSE
INVARIANTS
    RouteCloser
