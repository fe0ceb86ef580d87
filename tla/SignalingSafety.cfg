SPECIFICATION FairSpec
CONSTANTS
  MaxOpens = 2
  MaxEvents = 3
  IntTexts = {}
INVARIANT Identified
PROPERTY OpenIdentified
CHECK_DEADLOCK FALSE
