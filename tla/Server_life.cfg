SPECIFICATION ServerSpec
CONSTANTS
  Addrs = {a1, a2}
  Rate = 1
  Interval = 2
  MaxTime = 3
  None = None
INVARIANTS
  WindowLimited
PROPERTIES
  SilenceIsRewarded
  EarlyAreServed
  ShutdownEnds
CHECK_DEADLOCK FALSE
