CONSTANTS
  MaxGestures = 2
  MaxReloads = 0
  MaxTokens = 1
  MaxFails = 0
  MaxTombstones = 1
SPECIFICATION Spec
PROPERTIES CancelRollsBack
CHECK_DEADLOCK FALSE
