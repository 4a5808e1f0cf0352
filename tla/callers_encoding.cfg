SPECIFICATION Spec
CONSTANTS
  Callers = {c1, c2}
  UnitIds = {9}
  Values = 2
  Data <- Samples
  MaxOpens = 1
  None = None
INVARIANT EncodingOfRequest
CHECK_DEADLOCK FALSE
