SPECIFICATION FairSpec
CONSTANTS
  None = None
  Modes = {"relay", "paced", "silence"}
  MaxQueue = 1
  MaxFrames = 3
  MaxBurst = 2
  MaxBehind = 2
  MaxSpare <- MCMaxSpare
INVARIANTS TypeOK Conserved WireInOrder BargeInCuts
PROPERTIES ClearCountCovers QueueDrains LeaveEnds
CHECK_DEADLOCK FALSE
