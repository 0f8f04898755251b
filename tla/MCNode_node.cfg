SPECIFICATION MCFairSpec
CONSTANTS
    Proc = {p1, p2}
    Token = {t1, t2, t3, t4}
    NoToken = NoToken
    TTL = 9
    RenewEvery = 3
    Timeout = 6
    Grace = 1
    HoldMax = 24
    MaxFaults = 1
    Sock = {"s1", "s2", "s3"}
    NoSock = "none"
    Poll = {"poll"}
    Nobody = "nobody"
    Op = "op"
    YieldEnv = {"lease", "down", "vanish", "stop"}
    KickEnv = {"lease", "kick", "down", "vanish", "dberr"}
    Section = {"lora", "mqtt"}
    Unreported = {"audio"}
    Tries = 2
    Mishaps = 2
INVARIANTS
    TypeOK
    SoleHolder
    NeverLosesLease
    StandsDown
    LinkWatched
    ReportIsTrue
PROPERTIES
    Fenced
    HolderUndisturbed
    NodeWorkGoesOn
