SPECIFICATION Spec
CONSTANTS
  Keys = {1, 2}
  Limit = 7
  CloseListener = {TRUE, FALSE}
CHECK_DEADLOCK FALSE
INVARIANTS KeysStable HeldOnce
PROPERTIES GoesDeaf
