SPECIFICATION FairSpec
CONSTANTS
  f = f
  i = i
  j = j
  FrontEnd = {f}
  Id = {i, j}
  Owner <- MCOwner
  MaxConnections = 1
  MaxErrors = 0
  MaxCrashes = 1
PROPERTIES
  WatchAnswered
CHECK_DEADLOCK FALSE
