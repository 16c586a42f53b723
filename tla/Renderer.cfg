CONSTANTS
  MaxGestures = 4
  MaxReloads = 1
  MaxTokens = 2
  MaxFails = 1
  MaxTombstones = 1
SPECIFICATION FairSpec
INVARIANTS ScreenIsCurrent DialogIsUsable
PROPERTIES PurgedAsShown BusyEnds
CHECK_DEADLOCK FALSE
