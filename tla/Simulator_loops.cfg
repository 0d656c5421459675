SPECIFICATION FairSpec
CONSTANTS
  Clients <- MCClients
  p1 = p1
  p2 = p2
  MaxStarts = 2
  Free = Free
INVARIANTS
  OpenWhileRunning
  RunningLoopLives
PROPERTIES
  LoopsEndWhenStopped
