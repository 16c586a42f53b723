CONSTANTS
  Sources = {s1}
  NFiles = 1
  Contents = {a}
  NoFile = NoFile
  MaxRows = 2
  Procs = {desktop, mcp}
  Desktops = {desktop}
  Previewers = {}
  None = None
  MaxStamp = 1
  MaxOrd = 1
  MaxRequests = 3
  MaxReceipts = 1
  MaxRoots = 0
  Limit = 1
SPECIFICATION FairSpec
INVARIANTS TypeOK HandedIsAudited AuditInvariant ActivityBounded
PROPERTIES ImplementsLedger PurgeMatchesConfirmation ImportEnds
