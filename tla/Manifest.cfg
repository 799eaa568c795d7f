CONSTANTS
  Proc = {p1, p2}
  Key = {k1, k2}
  Entry = {e1}
  Missing = Missing
  MaxSaves = 3
SPECIFICATION Spec
INVARIANTS TypeOK ReadsCommitted StampedIsCurrent
PROPERTY SavesKeepOthers
SYMMETRY Sym
