SPECIFICATION Spec
CONSTANTS
  BLOCKS = 3
  UNITS = 7
  REVS = 4
  CYCLES = 3
  Name = {1, 2, 3}
  Content = {1, 2}
  EMPTY = 1
  FirstName = 2
  ErasedTo = {"ones", "anything"}
  StaleSyncs = FALSE
  MaxCommits = 2
  MaxLosses = 1
  MaxBad = 1
INVARIANTS Inv LookupsAgree CompactKeeps
PROPERTIES ImplementsAtomicCommit CommitsReturn
CHECK_DEADLOCK FALSE
