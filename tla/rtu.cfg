SPECIFICATION Spec
CONSTANTS
  Shapes <- ShortAnswers
  ThirdBytes = {0, 2, 251, 252}
  MaxRequests = 3
  MaxLine = 12
  MaxFaults = 1
INVARIANTS RInv OwnWhenSettled
PROPERTIES HeardIsNoted ServesExchange
CHECK_DEADLOCK FALSE
