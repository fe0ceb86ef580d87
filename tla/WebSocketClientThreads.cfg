SPECIFICATION ThreadsSpec
CONSTANTS
  MaxRetry = 1
  MaxConnects = 1
  MaxCloses = 1
  MaxFrames = 1
INVARIANT ServiceHasContext
CHECK_DEADLOCK FALSE
