SPECIFICATION Spec
CONSTANTS
  c1 = c1  c2 = c2
  Callers = {c1, c2}
  Overlap = FALSE
  Again = FALSE
  CancelAt = {}
  Crashes = TRUE
  MaxConn = 1
PROPERTIES LeaveCloses
CHECK_DEADLOCK FALSE
