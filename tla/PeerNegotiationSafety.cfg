SPECIFICATION FairSpec
CONSTANT MaxCandidates = 3
INVARIANTS Accounted DescribedFirst OnlyLateLeaks NothingHalfDone
PROPERTY PendingReturns
CHECK_DEADLOCK FALSE
