SPECIFICATION Spec
CONSTANTS
  NoNode = NoNode
  Tasks = {t1, t2, t3}
  AppThreads = {main, app}
  Owner = main
  Worker = worker
  Delays <- MCDelays
  Horizon = 3
INVARIANT DueTaskWakesSleeper
SYMMETRY TaskSymmetry
