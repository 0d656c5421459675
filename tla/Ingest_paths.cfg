SPECIFICATION Spec
CONSTANTS
  Devices = {d1}
  NoDevice = NoDevice
  Readings = {r1, r2}
  Rules = {x1, x2}
  Times = {1, 2}
  Metrics = {m1}
  m1 = m1
  Values = {2}
  Absent = Absent
  Conditions <- MCConditions
  FkModes = {TRUE, FALSE}
SYMMETRY Symmetry
CONSTRAINT Focus
INVARIANTS
  AlertsAreSound
  AlertsAreComplete
  SeenIsStored
PROPERTIES
  EvaluatedAtOnce
