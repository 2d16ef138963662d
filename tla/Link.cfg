SPECIFICATION FairSpec
CONSTANTS
  Keepalive <- Slow
  Grace = 3
  Establish = 6
  Delay = 1
  MaxNet = 1
PROPERTIES LinkSound GraceKept EndsInTime
CHECK_DEADLOCK FALSE
