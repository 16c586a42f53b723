CONSTANTS
  MaxTokens = 3
  MaxTombstones = 1
  MaxWindows = 2
  MaxSamples = 1
SPECIFICATION Spec
INVARIANTS TypeOK VaultOpenWhileImporting VaultNotLeftOpen OneUsablePreview ConfirmingIsRunning ReplayMeansImported TableBounded RunInvariant TokenInvariant
PROPERTY SpentStaysSpent
CHECK_DEADLOCK FALSE
