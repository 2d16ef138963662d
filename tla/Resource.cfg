SPECIFICATION FairSpec
CONSTANTS
  Parts = 5
  HashmapMaxLen = 2
  Window = 2
  WindowMin = 1
  WindowMaxVerySlow = 1
  WindowMaxSlow = 2
  WindowMaxFast = 3
  Flexibility = 2
  MaxRetries = 2
  MaxAdvRetries = 2
  ProofRetries = 1
  MaxWire = 1
  MaxFaults = 2
INVARIANTS ResourceSound
PROPERTIES KeepsPromise EndsWell
CHECK_DEADLOCK FALSE
