SPECIFICATION FairSpec
CONSTANTS
  m1 = m1
  l1 = l1
  l2 = l2
  Messages = {m1}
  Kinds = {"packet", "linked", "bulk", "distro"}
  Links = {l1, l2}
  MaxStops = 1
  MaxOutages = 1
  MaxCloses = 1
INVARIANTS CopySound
PROPERTIES NoCopyAfterOutcome OutcomeStands GoesAndEnds
CHECK_DEADLOCK FALSE
