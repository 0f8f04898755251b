SPECIFICATION MCSpec
CONSTANTS
    g1 = g1
    g2 = g2
    p0 = p0
    p1 = p1
    p2 = p2
    Mid = {p1, p2}
    NoId = p0
    Traced = {p2}
    Gateway = {g1}
    Station = g1
    Kind <- OneUndecodable
    Clocks = {"ok"}
    Window = 2
    Skew = 6
    Plausible = 1
    Spread = 2
    maxBatch = 2
    maxQueue = 3
    maxEntries = 2
    Faults = {"statement", "commit", "kill"}
    MaxFaults = 2
    MaxCopies = 3
    MaxTime = 2
INVARIANTS
    RowsStayApart
    SuppressedIsCovered
    OneOfEach
    
