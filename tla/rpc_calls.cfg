SPECIFICATION FairSpec
CONSTANTS
  Call = {a, b, n}
  Notification = {n}
  Cancellable = {a, b}
  Patient = {a}
  CallerOverflows = TRUE
  ServerOverflows = TRUE
  MaxChannels = 2
INVARIANTS
  TypeOK
  
  AtMostOnce
  EntriesTracked
  Accounted
  CancelIsOwn
PROPERTIES
  CallsSettle
CHECK_DEADLOCK FALSE
