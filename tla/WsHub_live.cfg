SPECIFICATION FairHubSpec
CONSTANTS
  Conns = {c1}
  Publishers = {p1, p2}
  Free = Free
  Hubs = {TRUE, FALSE}
PROPERTIES
  PublishReturns
  GoneIsForgotten
