CONSTANTS
  StartFrames = 2
  SilenceFrames = 2
  MaxTurn = 5
  PartialInterval = 2
  MaxFrames = 6
  None = None
SPECIFICATION Spec
INVARIANTS SpeechIsWhole FinalizingFollowsTask
PROPERTIES NoStalePartial ShortPauseKeepsTurn
CHECK_DEADLOCK FALSE
