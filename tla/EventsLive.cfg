SPECIFICATION FairSpec
CONSTANTS
  None = None
  s1 = s1  s2 = s2
  Subs = {s1, s2}
  Kept = 2
  EarlyEvents = FALSE
  LateEvents = FALSE
  LoopsClose = TRUE
  WideIndexes = TRUE
  MaxConn = 1
  MaxItems = 3
  MaxBurst = 2
INVARIANTS InOrder
PROPERTIES IteratorsStop LeaveEnds
CHECK_DEADLOCK FALSE
