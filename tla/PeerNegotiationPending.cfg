SPECIFICATION Spec
CONSTANT MaxCandidates = 1
INVARIANT PendingSent
CHECK_DEADLOCK FALSE
