SPECIFICATION FairSpec
CONSTANTS
  Callers = {c1, c2}
  UnitIds = {1, 9}
  Values = 2
  Data <- Samples
  MaxOpens = 2
  None = None
INVARIANTS CallersInv ExchangeUndisturbed UsesWhatWasInForce QuietValuesSurvive
PROPERTY CallEnds
CHECK_DEADLOCK FALSE
