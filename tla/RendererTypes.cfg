CONSTANTS
  MaxGestures = 4
  MaxReloads = 1
  MaxTokens = 2
  MaxFails = 1
  MaxTombstones = 1
SPECIFICATION Spec
CHECK_DEADLOCK FALSE
INVARIANTS
  TypeOK
  CallInvariant
  LockInvariant
  DialogInvariant
  ResultInvariant
  SourcesInv
  ActivityInv
  PastInvariant
  BoundInvariant
