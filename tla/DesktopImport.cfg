CONSTANTS
  MaxTokens = 3
  MaxTombstones = 1
  MaxWindows = 2
  MaxSamples = 1
SPECIFICATION FairSpec
INVARIANTS OneImportAtATime QuitIsAwaited TokensTellTheTruth
PROPERTY QuitHappens
CHECK_DEADLOCK FALSE
