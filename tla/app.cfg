SPECIFICATION FairSpec
CONSTANTS
    P = P
    S = S
    T = T
    Client <- Clients
    Server <- Servers
    MaxSessions = 2
CHECK_DEADLOCK FALSE
INVARIANTS
    TypeOK
    StaleBounded
PROPERTIES
    SessionsEnd
    Silence
