CONSTANTS
  Sources = {s1}
  NFiles = 1
  Contents = {a, b}
  NoFile = NoFile
  MaxRows = 1
  Procs = {desktop}
  Desktops = {desktop}
  Previewers = {desktop}
  None = None
  MaxStamp = 1
  MaxOrd = 3
  MaxRequests = 0
  MaxReceipts = 1
  MaxRoots = 1
  Limit = 1
SYMMETRY ContentSymmetry
SPECIFICATION Spec
INVARIANTS LineageIntact NoHalfImportedSource
PROPERTY PreviewedScopeIsCommitted
