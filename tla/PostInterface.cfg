SPECIFICATION InterfaceFairSpec
CONSTANTS
  p1 = p1
  p2 = p2
  p3 = p3
  Outbound = {p1, p2, p3}
  Oversized = {p3}
  Deliveries = 1
  MaxBatch = 1
  MaxImmediate = 3
  BackoffCap = 1
  MaxChecks = 1
INVARIANTS PacketsSound ToldTruth AcksKept
PROPERTIES Recovers
CHECK_DEADLOCK FALSE
