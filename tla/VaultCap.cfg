CONSTANTS
  Sources = {s1}
  NFiles = 2
  Contents = {a}
  NoFile = NoFile
  MaxRows = 2
  Procs = {desktop}
  Desktops = {desktop}
  Previewers = {}
  None = None
  MaxStamp = 1
  MaxOrd = 1
  MaxRequests = 3
  MaxReceipts = 0
  MaxRoots = 0
  Limit = 2
SPECIFICATION Spec
INVARIANTS HandedIsAudited ActivityBounded
PROPERTY ReturnsOnlyAuditedContext
