SPECIFICATION Spec
CONSTANTS
  Radix = 2
  BUFFER_SIZE = 10
  Splits = {TRUE, FALSE}
  Owner <- MCOwner
  Initial <- MCInitial
  Requests <- MCRequests
  StackAbove = 11
CHECK_DEADLOCK FALSE
INVARIANTS GivenAsSent BlocksAtMultiple HarmlessSurvives Understood
PROPERTIES ExchangeEnds PeerFreed
