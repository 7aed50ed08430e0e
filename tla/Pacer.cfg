SPECIFICATION Spec
CONSTANTS
  Frame = 3
  MaxQueue = 1
  MaxStall = 4
  MaxTime = 12
INVARIANTS NoBurst OnSchedule
CHECK_DEADLOCK FALSE
