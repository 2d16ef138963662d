SPECIFICATION FairSpec
CONSTANTS
  SeenLimit = 2
  HeldLimit = 2
  KeepLimit = 2
  RatchetCount = 2
  Worlds <- MCWorlds
INVARIANTS KeptOnce NothingLost AnnouncedOpens ReadsRight
PROPERTIES NodeEmptied
CHECK_DEADLOCK FALSE
