SPECIFICATION FairSpec
CONSTANTS
  d1 = d1
  d2 = d2
  Device = {d1, d2}
  MaxBlobs = 3
  PerGroup = 3
  PerSource = 2
  NotHeld = 3
  Worlds <- MCWorlds
INVARIANTS GroupSound ClosedIsEmpty
PROPERTIES LeaveSpreads DevicesAgree
CHECK_DEADLOCK FALSE
