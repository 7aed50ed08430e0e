SPECIFICATION Spec
CONSTANTS
  None = None
  Modes = {"paced"}
  MaxQueue = 1
  MaxFrames = 3
  MaxBurst = 2
  MaxBehind = 2
  MaxSpare <- MCNoSpare
INVARIANTS SenderSurvives
CHECK_DEADLOCK FALSE
