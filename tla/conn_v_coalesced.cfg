SPECIFICATION Spec
CONSTANTS
  MaxSessions = 4
  MaxSent = 3
  BufferCapacity = 2
  CloseTimeout = "finite"
  ReloadOnReconnect = TRUE
  KeepsId = FALSE
  StaleDisconnects = FALSE
  HandshakeDrops = FALSE
  Restarts = FALSE
PROPERTIES
  EveryMessageHandled
CHECK_DEADLOCK FALSE
