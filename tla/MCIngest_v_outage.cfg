SPECIFICATION Spec
CONSTANTS
    g1 = g1
    g2 = g2
    p0 = p0
    p1 = p1
    p2 = p2
    Mid = {p0}
    NoId = p0
    Traced = {}
    Gateway = {g1}
    Station = g1
    Kind <- Plain
    Clocks = {"ok"}
    Window = 1
    Skew = 6
    Plausible = 1
    Spread = 0
    maxBatch = 2
    maxQueue = 3
    maxEntries = 2
    Faults = {"connect"}
    MaxFaults = 1
    MaxCopies = 3
    MaxTime = 2
INVARIANTS
    NothingLost
