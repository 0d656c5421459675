SPECIFICATION Spec
CONSTANTS
  Conns = {c1, c2, c3}
  ClientIds = {i1, i2}
  Devices = {d1, d2}
  None = None
SYMMETRY Symmetry
INVARIANTS
  StoredWithItsOrg
  EntriesHaveOwners
  KnownUnlessShared
CHECK_DEADLOCK FALSE
