SPECIFICATION MCFairSpec
CHECK_DEADLOCK FALSE
CONSTANTS
    MaxHour = 4
    DayLength = 2
    MaxReceptions = 2
    LateHours = 1
    RefoldHours = 2
    RawDays = 1
    HourDays = 2
    MAX_HOURS_PER_RUN = 2
    Msg = {1, 2}
    NativeUplink = FALSE
    Env = {"database", "broker", "crash"}
    Channel = {"A"}
    Text = {"x", "y"}
    Channels = {}
    Direct = FALSE
    Window = 1
    LIMIT = 2
    MaxMessages = 4
    MaxTime = 2
    Rule = {"level", "once"}
    Key = {"k1", "k2"}
    OneShot = {"once"}
    MaxChanges = 3
    Node = {"n1", "n2"}
    Duties = {{"reply"}, {"nudge"}, {"welcome"}, {"probe"}, {"trace"}, {"alert", "automation"}}
    Transports = 2
    Lookback = 1
    Ahead = 1
    Cooldown = 2
    Quiet = 1
    Threshold = 2
    Rescan = 1
    Reconfirm = 0
    BACKLOG_MAX = 1
    PerRun = 1
    Horizon = 3
    MaxTexts = 2
    MaxFaults = 1
INVARIANTS
    TypeOK
    DaysAddUp
    HoldPreventsDoubling
    
    NeverTooSoon
    
PROPERTIES
    NothingDroppedUncounted
    DutiesGoOn
