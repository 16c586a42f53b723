SPECIFICATION Spec
CONSTANTS
  Callers = {c1, c2}
  MaxKeys = 2
  MaxFiles = 3
  MaxFaults = 3
CHECK_DEADLOCK FALSE
INVARIANTS TypeOK KeyCustody CallInvariant FilesInvariant
