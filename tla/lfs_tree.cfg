SPECIFICATION Spec
CONSTANTS
  BLOCKS = 10
  Name = {1, 2, 3}
  GoesOnTorn = FALSE
  TiredStays = FALSE
  SplitMoves = FALSE
  FixAllocates = FALSE
  Kinds = {"mkdir", "create", "remove", "rename", "sync"}
  MaxOps = 2
  MaxLosses = 1
  MaxCompacts = 1
  MaxMoves = 1
INVARIANTS Inv OpenFileFollows NotRefused
PROPERTIES ImplementsAtomicCommit OperationsReturn
CHECK_DEADLOCK FALSE
