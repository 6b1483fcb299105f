SPECIFICATION Spec
CONSTANTS
    A = A
    B = B
    C = C
    D = D
    E = E
    Node = {A, B, C}
    Segment <- Two
    Attached <- Line
    Staleness = 1
    MaxBroadcastId = 3
    ServerPort = 1
    Alive <- Processes
    Flow <- Everyone
    Forcing <- ForcedOrNot
    MaxHopCount = 6
    MaxSends = 2
    MaxTicks = 1
    MaxLosses = 1
    MaxRestarts = 0
CHECK_DEADLOCK FALSE
INVARIANTS
    TypeOK
    ParkedIffFinding
    LotWellFormed
    FreshRouteUsable
    AtMostOneCopy
PROPERTIES
    ImplementsService
