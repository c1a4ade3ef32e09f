SPECIFICATION Spec
CONSTANTS
  f = f
  i = i
  j = j
  FrontEnd = {f}
  Id = {i, j}
  Owner <- MCOwner
  MaxConnections = 2
  MaxErrors = 0
  MaxCrashes = 0
INVARIANTS
  StoppedWhenDisposed
CHECK_DEADLOCK FALSE
