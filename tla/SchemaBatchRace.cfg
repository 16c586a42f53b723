CONSTANTS
  Procs = {p1, p2}
  None = None
  Legacy = Legacy
  MaxRows = 1
  Batch = 1
  MaxId = 3
SPECIFICATION Spec
PROPERTY TruncatesBetweenBatches
