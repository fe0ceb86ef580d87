SPECIFICATION Spec
CONSTANTS
  Peers = {p1, p2}
  MaxSignIns = 2
  MaxTimers = 2
SYMMETRY PeerSymmetry
INVARIANTS TypeOK RequestReady WaitOnlyConnected Listening CleanWhenDown SessionKnown
CHECK_DEADLOCK FALSE
