CONSTANTS
  Procs = {p1}
  None = None
  Legacy = Legacy
  MaxRows = 2
  Batch = 2
  MaxId = 7
SPECIFICATION FairSpec
INVARIANT TypeOK
PROPERTIES TruncatesBetweenBatches OpeningEnds
