SPECIFICATION FairSpec
CONSTANTS
  Broker = {b1}
  Tab = {t1}
  Req = {r1, r2}
  MaxEdits = 1
  MaxFaults = 1
  MaxHeals = 0
  MaxStarts = 1
PROPERTIES HotReload
CHECK_DEADLOCK FALSE
