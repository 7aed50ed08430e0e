SPECIFICATION Spec
CONSTANTS
  s1 = s1  s2 = s2  p1 = p1  p2 = p2  e1 = e1  e2 = e2  i1 = i1  i2 = i2
  None = None
  Ids = {i1}
  Subs = {s1}
  IdOf <- MCIdOf
  OneShot = {}
  Events = {e1, e2}
  Pubs = {p1, p2}
  EvOf <- MCEvOf
  Codes = {1000, 1012}
  OkCodes = {1000}
  FramesWellFormed = TRUE
  AuthTagParses = TRUE
  EagerReconnect = FALSE
  CallsDuringClose = FALSE
  MaxConn = 2
  MaxFrames = 5
CONSTRAINT OneKindOfCall
INVARIANTS TypeOK NoOrphanIterator SettledByOwnConnection ConnectedMeansAuthed CloseLeavesNothing CloseCodeIsCurrent OneConnection PublishTruthful
CHECK_DEADLOCK FALSE
