SPECIFICATION BrokerFairSpec
CONSTANTS
  Passages <- MCPassages
  Outside = {"other"}
  MaxDocuments = 2
  MaxChunks = 2
  SearchLimit = 2
  Pipelining = FALSE
  MaxRequests = 3
  MaxConnections = 2
  MaxChanges = 1
CHECK_DEADLOCK FALSE
INVARIANTS
  FramesInOrder
  LatestIsFetchable
PROPERTIES
  RequestsAreHandled
  ImplementsIssuedContext
