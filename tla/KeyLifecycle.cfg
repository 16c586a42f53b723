SPECIFICATION Spec
CONSTANTS
  Callers = {c1, c2}
  MaxKeys = 2
  MaxFiles = 3
  MaxFaults = 3
PROPERTIES
  RefusalIsExplained
  NeverReplaced
  OnlyOwnEmptyFileRemoved
  ImplementsCustody
CHECK_DEADLOCK FALSE
