SPECIFICATION AppFairSpec
CONSTANTS
  t1 = t1
  t2 = t2
  t3 = t3
  Tabs = {t1, t2, t3}
  LockModes = {"given"}
  HasChannel = TRUE
  CanSteal = FALSE
  MaxRequests = 1
  MaxMail = 1
  StorageModes = {"works"}
  MaxLoads = 2
PROPERTIES TakingOverEnds
CHECK_DEADLOCK FALSE
