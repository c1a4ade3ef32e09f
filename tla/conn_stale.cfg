SPECIFICATION FairSpec
CONSTANTS
  MaxSessions = 4
  MaxSent = 1
  BufferCapacity = 1
  CloseTimeout = "finite"
  ReloadOnReconnect = FALSE
  KeepsId = FALSE
  StaleDisconnects = TRUE
  HandshakeDrops = TRUE
  Restarts = TRUE
INVARIANTS
  ReceivedOnce
PROPERTIES
  ContextDiscarded
CHECK_DEADLOCK FALSE
