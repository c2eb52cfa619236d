SPECIFICATION Spec
CONSTANTS
    c1 = c1
    c2 = c2
    c3 = c3
    Conns = {c1, c2}
    NameOf <- OwnNames
    Fds = {4, 5}
    MAX_CLIENTS = 4
    MaxRequests = 2
    Mute = {c2}
    Hasty = {c1, c2}
    Blankers = {c1}
    Resetters = {c2}
INVARIANTS
    IntroducedIsKnown
    NeverAnothersName
    RequestsInOrder
PROPERTIES
    EveryRequestServed
    StopEnds
