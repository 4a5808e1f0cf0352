SPECIFICATION Spec
CONSTANTS
  Ops <- LargeOps
  Units = {9}
  NoOp = NoOp
INVARIANT OperationsComplete
CHECK_DEADLOCK FALSE
