CONSTANTS
  Device = {d1, d2}
  d1 = d1
  d2 = d2
  SeenLimit = 2
  PageSize = 2
  Worlds <- MCWorlds
SPECIFICATION MailFairSpec
INVARIANTS MailSound
PROPERTIES MembershipAgrees PulledFirst
CHECK_DEADLOCK FALSE
