CONSTANT MaxActive = 1
SPECIFICATION Spec
INVARIANTS
  TypeOK
  ErrorHasCause
  DrainGetsItsTime
  NothingLeftRunning
PROPERTIES
  StopsEventually
  StopsInOrder
  StopsPromptly
CHECK_DEADLOCK FALSE
