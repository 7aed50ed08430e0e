SPECIFICATION FairSpec
CONSTANTS
  None = None
  s1 = s1  s2 = s2
  Subs = {s1, s2}
  Kept = 2
  EarlyEvents = FALSE
  LateEvents = FALSE
  LoopsClose = FALSE
  WideIndexes = FALSE
  MaxConn = 2
  MaxItems = 2
  MaxBurst = 2
INVARIANTS TypeOK Gapless BacklogHolds EndsTruthful
PROPERTIES DeliversStream
CHECK_DEADLOCK FALSE
