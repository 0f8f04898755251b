SPECIFICATION FairSpec
CONSTANTS
  Conn = {c1, c2}
  Sluggish = {c2}
  MaxId = 4
  Batch = 2
  LOOKBACK_IDS = 3
  LIMIT = 2
  Overlap = FALSE
  SeedFaults = FALSE
PROPERTIES EveryEventReachesAll
