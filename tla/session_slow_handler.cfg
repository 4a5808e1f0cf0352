SPECIFICATION Spec
CONSTANTS
  Scripts <- ShortSessions
  NoCall = NoCall
INVARIANT EveryRequestAnswered
CHECK_DEADLOCK FALSE
