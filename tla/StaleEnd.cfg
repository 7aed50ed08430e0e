SPECIFICATION Spec
CONSTANTS
  None = None
  s1 = s1  s2 = s2
  Subs = {s1, s2}
  Kept = 2
  EarlyEvents = FALSE
  LateEvents = FALSE
  LoopsClose = FALSE
  WideIndexes = FALSE
  MaxConn = 2
  MaxItems = 3
  MaxBurst = 2
INVARIANTS EndsAreOwn
CHECK_DEADLOCK FALSE
