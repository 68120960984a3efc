SPECIFICATION FairSpec
CONSTANTS
  TELPARSER_QUEUE_SIZE = 2
  Loads <- SmallLoads
INVARIANTS Inv FixOfTheDop OneLateHint
PROPERTIES ImplementsLatestValue EveryValueIsTold
CHECK_DEADLOCK FALSE
