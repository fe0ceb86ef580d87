SPECIFICATION FairSpec
CONSTANTS
  MaxRetry = 1
  MaxConnects = 1
  MaxCloses = 0
  MaxFrames = 0
PROPERTY RetryConnects
CHECK_DEADLOCK FALSE
