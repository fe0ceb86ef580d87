SPECIFICATION FairSpec
CONSTANTS
  NoNode = NoNode
  Tasks = {t1, t2, t3}
  AppThreads = {main, app}
  Owner = main
  Worker = worker
  Delays <- MCDelays
  Horizon = 4
INVARIANTS TypeOK NoLostWakeup SleepHasTask ThreadLifetime
PROPERTIES ImplementsExecutor StopReturns PostedTasksRun
