SPECIFICATION FairSpec
CONSTANTS
  Scripts <- Sessions
  NoCall = NoCall
INVARIANTS SInv HandlerInputInRange ResponseFits OneAnswerEach
PROPERTIES EchoesRequest IdleSessionEnds
CHECK_DEADLOCK FALSE
