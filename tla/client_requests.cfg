SPECIFICATION Spec
CONSTANTS
  Ops <- AllOps
  Units = {9}
  NoOp = NoOp
INVARIANTS CInv SentIsAccepted ServerIsUnderstood SuccessIsComplete SuccessIsConfirmed
CHECK_DEADLOCK FALSE
