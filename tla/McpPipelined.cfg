SPECIFICATION BrokerSpec
CONSTANTS
  Passages <- MCPassages
  Outside = {"other"}
  MaxDocuments = 2
  MaxChunks = 2
  SearchLimit = 2
  Pipelining = TRUE
  MaxRequests = 3
  MaxConnections = 2
  MaxChanges = 1
CHECK_DEADLOCK FALSE
INVARIANTS
  FramesInOrder
