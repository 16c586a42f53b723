SPECIFICATION Spec
CONSTANTS
  MaxCalls = 2
  Brokered = {"new"}
  MaxEdits = 1
CHECK_DEADLOCK FALSE
INVARIANTS TypeOK CallInvariant HookInvariant UninstallIsTold
