SPECIFICATION Spec
CONSTANTS
  Peers = {p1, p2}
  MaxSignIns = 2
  MaxTimers = 2
PROPERTY IdWhileSigningIn
CHECK_DEADLOCK FALSE
