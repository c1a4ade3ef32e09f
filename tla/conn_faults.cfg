SPECIFICATION FairSpec
CONSTANTS
  MaxSessions = 4
  MaxSent = 2
  BufferCapacity = 1
  CloseTimeout = "finite"
  ReloadOnReconnect = TRUE
  KeepsId = TRUE
  StaleDisconnects = FALSE
  HandshakeDrops = TRUE
  Restarts = TRUE
INVARIANTS
  TypeOK
  NeverThrows
  TimersCancellable
  ContextsMatched
  AttachedWhenSettled
  
  OneContextPerChannel
  DeliveredInOrder
  MarkIsOwn
PROPERTIES
  KeptWhileConnected
  Recovers
CHECK_DEADLOCK FALSE
