SPECIFICATION FairSpec
CONSTANTS
  MaxRetry = 1
  MaxConnects = 2
  MaxCloses = 1
  MaxFrames = 2
INVARIANTS TypeOK OpenHasSocket LoopAlive ObserverCatchesUp FramesInOrder
PROPERTIES ImplementsSignalSocket CloseStopsLoop AttemptAnswered
CHECK_DEADLOCK FALSE
