CONSTANT MaxActive = 1
SPECIFICATION Spec
INVARIANTS
  ExitedProperly
CHECK_DEADLOCK FALSE
