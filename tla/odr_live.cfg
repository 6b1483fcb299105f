SPECIFICATION FairSpec
CONSTANTS
    A = A
    B = B
    C = C
    D = D
    E = E
    Node = {A, B, C, D, E}
    Segment <- Three
    Attached <- Kite
    Staleness = 1
    MaxBroadcastId = 3
    ServerPort = 1
    Alive <- Processes
    Flow <- PresentOrAbsent
    Forcing <- NotForced
    MaxHopCount = 4
    MaxSends = 2
    MaxTicks = 0
    MaxLosses = 0
    MaxRestarts = 0
CHECK_DEADLOCK FALSE
INVARIANTS
    AtMostOneCopy
PROPERTIES
    ImplementsService
    NewestDatAnswered
    Quiesces
