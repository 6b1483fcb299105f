SPECIFICATION Spec
CONSTANTS
    S = S
    X = X
    Y = Y
    Self = S
    Peer = {X, Y}
    Via <- Neighbours
    Input <- Messages
    Frame <- Answers
    MaxEvents = 3
INVARIANTS
    TypeOK
    SoundApart
    SentOnce
