SPECIFICATION Spec
CONSTANTS
  Clients = {c1, c2}
  MaxClients = 1
  MaxStarts = 2
  TLS = FALSE
  None = None
INVARIANT StoppedAcceptorReturns
CHECK_DEADLOCK FALSE
