SPECIFICATION Spec
CONSTANTS
    p1 = p1
    p2 = p2
    Row <- MCRow
    Pid <- MCPid
    NoPid = NoPid
    NoRow = NoRow
    Worker = {w1}
    Targeted = {1}
    WantAck = {1}
    MaxAttempts = 1
    Limit = 2
    Cap = 2
    Env = {"cancel", "mute", "busy", "ack", "nak", "hear"}
    MaxFaults = 0
SYMMETRY PidSymmetry
INVARIANTS
    EvidenceBacked
PROPERTIES
    VerdictsStand
    PromiseKept
