SPECIFICATION Safety
CONSTANTS
    c1 = c1
    c2 = c2
    c3 = c3
    Conns = {c1, c2}
    NameOf <- SameNames
    Fds = {4, 5}
    MAX_CLIENTS = 4
    MaxRequests = 1
    Mute = {}
    Hasty = {}
    Blankers = {}
    Resetters = {}
INVARIANT IntroducedIsKnown
