CONSTANTS
  Sources = {s1}
  NFiles = 1
  Contents = {a}
  NoFile = NoFile
  MaxRows = 1
  Procs = {desktop, mcp}
  Desktops = {desktop}
  Previewers = {}
  None = None
  MaxStamp = 1
  MaxOrd = 1
  MaxRequests = 2
  MaxReceipts = 0
  MaxRoots = 0
  Limit = 1
SPECIFICATION FairSpec
PROPERTIES ImportEnds WriterReleases
