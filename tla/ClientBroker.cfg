SPECIFICATION Spec
CONSTANTS
  MaxCalls = 1
  Brokered = {"old", "new"}
  MaxEdits = 0
CHECK_DEADLOCK FALSE
PROPERTIES
  OwnEntryIsRemovable
