CONSTANTS
  Sources = {s1}
  NFiles = 1
  Contents = {a}
  NoFile = NoFile
  MaxRows = 1
  Procs = {desktop}
  Desktops = {desktop}
  Previewers = {}
  None = None
  MaxStamp = 1
  MaxOrd = 1
  MaxRequests = 0
  MaxReceipts = 0
  MaxRoots = 0
  Limit = 1
SPECIFICATION Spec
INVARIANT PurgedDocumentStaysGone
