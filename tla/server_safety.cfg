SPECIFICATION Spec
CONSTANTS
  Clients = {c1, c2, c3}
  MaxClients = 2
  MaxStarts = 2
  TLS = TRUE
  None = None
SYMMETRY Symmetric
INVARIANTS IInv PoolExact SessionLimit StopClosesSessions NoOrphanSocket AtMostOneLateCall
PROPERTIES StoppedReadsNothing StopWindsDown ServesAsPromised
CHECK_DEADLOCK FALSE
