SPECIFICATION Spec
CONSTANTS
  PeerIds = {1, 2}
  MaxIdle = 2
  MaxPosted = 2
  MaxCalls = 3
  MaxFrames = 2
INVARIANTS ModeShown HandlersKeepTheHandle ImagesFit
PROPERTIES AsksWhatFits WidgetsAreNew ProgramEnds FramesShown
CHECK_DEADLOCK FALSE
