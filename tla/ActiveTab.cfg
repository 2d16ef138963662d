SPECIFICATION AppSpec
CONSTANTS
  t1 = t1
  t2 = t2
  t3 = t3
  Tabs = {t1, t2, t3}
  LockModes = {"given", "refused", "absent"}
  HasChannel = TRUE
  CanSteal = TRUE
  MaxRequests = 2
  MaxMail = 1
  StorageModes = {"works", "throws"}
  MaxLoads = 2
SYMMETRY TabSymmetry
INVARIANTS LockSound
PROPERTIES OneExchange
CHECK_DEADLOCK FALSE
