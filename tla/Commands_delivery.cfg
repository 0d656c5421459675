SPECIFICATION FairSpec
CONSTANTS
  Cmds = {c1, c2}
  Devices = {d1}
  Orgs = {o1}
  Sessions = {s1}
  NoCmd = NoCmd
  NoDevice = NoDevice
  Reported = {"completed", "pending", "delivered"}
  FkModes = {TRUE, FALSE}
INVARIANTS
  PendingMapIntegrity
  DeliveredWasWritten
  NoAckedCommandLost
  ServedInOrder
PROPERTIES
  LedgerRefined
  PendingIsServed
  BrokenSessionsEnd
