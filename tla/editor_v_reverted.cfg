SPECIFICATION Spec
CONSTANTS
  MaxTexts = 3
  MaxCalls = 2
  MaxVersions = 4
INVARIANTS
  RevertedIsGone
CHECK_DEADLOCK FALSE
