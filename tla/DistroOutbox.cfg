SPECIFICATION Spec
CONSTANTS
  d1 = d1
  Distros = {d1}
  NoDistro = NoDistro
  MaxActs = 2
  MaxLinks = 2
  MaxEvents = 2
INVARIANTS UploadsSound NothingLeftLying
PROPERTIES NeverOnItsOwnFailure OwedExactly
CHECK_DEADLOCK FALSE
