SPECIFICATION Spec
CONSTANTS
    p1 = p1
    p2 = p2
    Row <- MCRow
    Pid <- MCPid
    NoPid = NoPid
    NoRow = NoRow
    Worker = {w1}
    Targeted = {}
    WantAck = {}
    MaxAttempts = 2
    Limit = 2
    Cap = 1
    Env = {"cancel", "enable", "arm", "crash", "dberr", "dry"}
    MaxFaults = 1
SYMMETRY PidSymmetry
INVARIANTS
    TypeOK
    OnePacketPerRow
    AirtimeBounded
    CountedWithinCap
PROPERTIES
    NothingAirsUnasked
