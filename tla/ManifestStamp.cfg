CONSTANTS
  Proc = {p1, p2}
  Key = {k1}
  Entry = {e1}
  Missing = Missing
  MaxSaves = 2
SPECIFICATION HealthySpec
PROPERTY AllChangesArrive
CHECK_DEADLOCK FALSE
