CONSTANTS
  Proc = {p1, p2}
  Key = {k1, k2}
  Entry = {e1}
  Missing = Missing
  MaxSaves = 2
SPECIFICATION SerialSpec
PROPERTIES ImplementsSharedMap ChangesArrive
