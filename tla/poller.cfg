SPECIFICATION FairSpec
CONSTANTS
  Units = {1, 2}
  Nil = Nil
  Systems <- AllSystems
INVARIANTS PollerInv OwnValues OnePoll EM24Configured
PROPERTIES PolledAgain
CHECK_DEADLOCK FALSE
