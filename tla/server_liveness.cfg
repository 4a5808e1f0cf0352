SPECIFICATION FairSpec
CONSTANTS
  Clients = {c1, c2}
  MaxClients = 1
  MaxStarts = 2
  TLS = FALSE
  None = None
PROPERTIES StopDrains ConnectionSettles
CHECK_DEADLOCK FALSE
