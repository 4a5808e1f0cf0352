SPECIFICATION FairSpec
CONSTANTS
  TxnIds = 3
  Timeout = 2
  Links <- TcpAndUdp
  MaxRequests = 5
  MaxStream = 3
INVARIANTS TInv OwnAnswer DatagramsStayInFrame
PROPERTY ExchangeEnds
CHECK_DEADLOCK FALSE
