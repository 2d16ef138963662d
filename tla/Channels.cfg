SPECIFICATION FairSpec
CONSTANTS
  Worlds <- MCWorlds
  RaceStops = FALSE
INVARIANTS OneLink TruthWins LastChoiceWins
PROPERTIES EachEnds
CHECK_DEADLOCK FALSE
