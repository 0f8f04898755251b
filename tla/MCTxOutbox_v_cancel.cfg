SPECIFICATION Spec
CONSTANTS
    p1 = p1
    p2 = p2
    Row <- MCRow
    Pid <- MCPid
    NoPid = NoPid
    NoRow = NoRow
    Worker = {w1}
    Targeted = {}
    WantAck = {}
    MaxAttempts = 1
    Limit = 2
    Cap = 2
    Env = {"cancel", "busy"}
    MaxFaults = 0
SYMMETRY PidSymmetry
PROPERTIES
    CancelIsFinal
