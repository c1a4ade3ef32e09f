SPECIFICATION FairSpec
CONSTANTS
  f = f
  i = i
  j = j
  FrontEnd = {f}
  Id = {i, j}
  Owner <- MCOwner
  MaxConnections = 2
  MaxErrors = 1
  MaxCrashes = 1
INVARIANTS
  TypeOK
  RefsMatch
  HandlesOwned
  NoSilentLoss
PROPERTIES
  WatchSettles
  Discarded
CHECK_DEADLOCK FALSE
