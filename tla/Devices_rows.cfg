CONSTANTS
  DeviceIds = {d1}
  Groups = {g1}
  GroupNames = {n1}
  Orgs = {"", "o1"}
  Reqs = {q1, q2, q3, q4}
  None = None
SPECIFICATION DevicesSpec
SYMMETRY Symmetry
INVARIANTS UpdateTold
PROPERTIES DeletedStaysDeleted
CHECK_DEADLOCK FALSE
