CONSTANTS
  Sources = {s1}
  NFiles = 2
  Contents = {a}
  NoFile = NoFile
  MaxRows = 2
  Procs = {desktop}
  Desktops = {desktop}
  Previewers = {desktop}
  None = None
  MaxStamp = 1
  MaxOrd = 1
  MaxRequests = 0
  MaxReceipts = 1
  MaxRoots = 0
  Limit = 2
SPECIFICATION Spec
INVARIANTS
  HalfImportInvariant LineageInvariant RowsInvariant LogInvariant
  TicketInvariant ScopeInvariant WorkInvariant HandedOnce
