SPECIFICATION RequestsFairSpec
CONSTANTS
  Requests = {"packet", "resource"}
  Big = {"resource"}
  Kept = {}
  Segments = 2
  MaxWire = 2
INVARIANTS RequestSound
PROPERTIES OutcomeSound RequestEnds
CHECK_DEADLOCK FALSE
