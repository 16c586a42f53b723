CONSTANTS
  Procs = {p1, p2}
  None = None
  Legacy = Legacy
  MaxRows = 2
  Batch = 1
  MaxId = 5
SPECIFICATION Spec
SYMMETRY ProcSymmetry
INVARIANTS TypeOK HistoryInvariant UpgradeInvariant
