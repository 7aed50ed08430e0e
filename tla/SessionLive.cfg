SPECIFICATION FairSpec
CONSTANTS
  s1 = s1  s2 = s2  p1 = p1  p2 = p2  e1 = e1  e2 = e2  i1 = i1  i2 = i2
  None = None
  Ids = {i1}
  Subs = {s1}
  IdOf <- MCIdOf
  OneShot = {s1}
  Events = {}
  Pubs = {}
  EvOf <- MCEvOf
  Codes = {1000, 1012}
  OkCodes = {1000}
  FramesWellFormed = FALSE
  AuthTagParses = FALSE
  EagerReconnect = FALSE
  CallsDuringClose = FALSE
  MaxConn = 1
  MaxFrames = 4
PROPERTIES IteratorsStop FailsFast CloseReturns
CHECK_DEADLOCK FALSE
