SPECIFICATION FairSpec
CONSTANTS
  c1 = c1  c2 = c2
  Callers = {c1, c2}
  Overlap = FALSE
  Again = FALSE
  CancelAt = {"resolving", "raised"}
  Crashes = TRUE
  MaxConn = 3
INVARIANTS NothingLeft OneSession
PROPERTIES CallsReturn
CHECK_DEADLOCK FALSE
