SPECIFICATION MCFairSpec
CONSTANTS
    p1 = p1
    p2 = p2
    w1 = w1
    w2 = w2
    Row <- MCRow
    Pid <- MCPid
    NoPid = NoPid
    NoRow = NoRow
    Worker = {w1, w2}
    Targeted = {1}
    WantAck = {}
    MaxAttempts = 2
    Limit = 1
    Cap = 2
    Env = {"mute", "crash", "hear"}
    MaxFaults = 1
INVARIANTS
    ClaimExclusive
PROPERTIES
    EveryRowSettles
