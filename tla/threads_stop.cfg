SPECIFICATION Spec
CONSTANTS
    S = S
    X = X
    Y = Y
    Self = S
    Peer = {X, Y}
    Via <- Neighbours
    Input <- ToXOrThis
    Frame <- AnswerAndDat
    MaxEvents = 3
INVARIANTS
    SoundApart
    SentOnce
PROPERTY
    Stops
