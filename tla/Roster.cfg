SPECIFICATION Spec
CONSTANTS
  p = p  q = q
  Self = Self
  Nobody = Nobody
  Indexes = {0, 1, 256}
  Wide = {256}
  Pubkeys = {p, q}
  ReuseUnseen = FALSE
  AudioUnseen = FALSE
  MaxConn = 2
  MaxUntold = 3
INVARIANTS KnowsRoom EventsTellAll OnePeerPerDecoder
CHECK_DEADLOCK FALSE
