SPECIFICATION MCFairSpec
CHECK_DEADLOCK FALSE
CONSTANTS
    Proc = {ingest, worker}
    Files <- MCFiles
    Faults = {"statement", "reply", "kill"}
    MaxFaults = 2
    Conn = {"c1", "c2"}
    Sluggish = {"c2"}
    MaxId = 4
    Batch = 2
    LOOKBACK_IDS = 3
    LIMIT = 2
    NarrowConn = {"c1"}
    NarrowMaxId = 6
    NarrowBatch = 1
    NarrowLookback = 2
    NarrowLimit = 1
    Broker = {"b1", "b2"}
    Tab = {"t1", "t2"}
    Req = {"r1", "r2"}
    MaxEdits = 2
    MaxErrors = 1
    MaxHeals = 1
    MaxStarts = 2
INVARIANTS
    TypesOK
    NobodyLeaked
    
    NoneSkipped
    QuietMeansCurrent
PROPERTIES
    EveryEventArrives
    EveryoneStarts
