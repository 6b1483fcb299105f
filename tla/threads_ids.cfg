SPECIFICATION Spec
CONSTANTS
    S = S
    X = X
    Y = Y
    Self = S
    Peer = {X, Y}
    Via <- Neighbours
    Input <- ToX
    Frame <- DatInTransit
    MaxEvents = 2
INVARIANT
    IdsDistinct
