SPECIFICATION HubSpec
CONSTANTS
  Conns = {c1, c2}
  Publishers = {p1, p2}
  Free = Free
  Hubs = {TRUE, FALSE}
SYMMETRY Symmetry
INVARIANTS
  OneWriter
  SubscribedAreServed
PROPERTIES
  EventReachesAll
