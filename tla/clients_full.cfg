SPECIFICATION Spec
CONSTANTS
    Server = Server
    P = P
    Q = Q
    R = R
    File <- Processes
    ServerFile = Server
    ServerPort = 1
    LastPort = 4
    MaxTime = 3
SYMMETRY Newcomers
INVARIANTS
    ServerKeepsPort
