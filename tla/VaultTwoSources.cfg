CONSTANTS
  Sources = {s1, s2}
  NFiles = 1
  Contents = {a}
  NoFile = NoFile
  MaxRows = 2
  Procs = {desktop}
  Desktops = {desktop}
  Previewers = {}
  None = None
  MaxStamp = 1
  MaxOrd = 1
  MaxRequests = 1
  MaxReceipts = 1
  MaxRoots = 0
  Limit = 2
SPECIFICATION Spec
INVARIANT NoOrphanRows
PROPERTY PurgeMatchesConfirmation
