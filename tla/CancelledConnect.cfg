SPECIFICATION Spec
CONSTANTS
  c1 = c1  c2 = c2
  Callers = {c1, c2}
  Overlap = FALSE
  Again = FALSE
  CancelAt = {"challenge", "joined"}
  Crashes = TRUE
  MaxConn = 2
INVARIANTS NothingLeft
CHECK_DEADLOCK FALSE
