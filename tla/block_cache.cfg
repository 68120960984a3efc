SPECIFICATION Spec
CONSTANTS
  Block = {b1, b2}
  NULL = NULL
  BLOCK_SIZE = 4
  CACHE_SIZE = 2
  READ_SIZE = 1
  PROG_SIZE = 2
  ERASE_CYCLES = 2
  Worn = {b1}
  Behaviors = {"PROGERROR", "ERASEERROR", "READERROR", "PROGNOOP", "ERASENOOP"}
  ReadSizes <- SmallReads
  ProgSizes = {1, 3}
  MaxWrites = 2
  MaxErases = 2
INVARIANTS Inv ReadsAreCurrent BadBlocksAreFound
PROPERTIES OperationsReturn
CHECK_DEADLOCK FALSE
