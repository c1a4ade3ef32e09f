SPECIFICATION Spec
CONSTANTS
  MaxSessions = 4
  MaxSent = 1
  BufferCapacity = 1
  CloseTimeout = "finite"
  ReloadOnReconnect = TRUE
  KeepsId = FALSE
  StaleDisconnects = TRUE
  HandshakeDrops = FALSE
  Restarts = FALSE
PROPERTIES
  KeptWhileConnected
CHECK_DEADLOCK FALSE
