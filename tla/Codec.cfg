SPECIFICATION FairSpec
CONSTANTS
  caller = caller  sender = sender
  Threads = {caller, sender}
  Nobody = Nobody
  Base = 4
  FrameSamples = 20
  Feeds = {10, 30}
  MaxCarry = 50
  MaxFrames = 17
INVARIANTS CarryIsPartial HeaderInStep
PROPERTIES GilComesBack
CHECK_DEADLOCK FALSE
