SPECIFICATION Spec
CONSTANTS
  MaxTexts = 4
  MaxCalls = 3
  MaxVersions = 5
INVARIANTS
  TypeOK
  
  
CHECK_DEADLOCK FALSE
