SPECIFICATION FairSpec
CONSTANTS
  a = a
  b = b
  Id = {a, b}
  MayOpen <- OneOpener
  Loss = TRUE
  MaxOpens = 2
  MaxData = 1
INVARIANTS
  TypeOK
  HeldIsRegistered
  EndsAgree
PROPERTIES
  
  OpenSettles
  CloseIsTold
CHECK_DEADLOCK FALSE
