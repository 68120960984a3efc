SPECIFICATION Spec
CONSTANTS
  Handle = {h1, h2}
  BLOCKS = 10
  BLOCK_SIZE = 6
  FILE_MAX = 31
  INLINE_MAX = 2
  FileSizes = {13}
  Seeks = {3, 11}
  Writes = {6}
  Truncs = {1, 9}
  Modes = {"rw", "trunc", "append"}
  BadKinds = {"erase", "later", "flush"}
  DustyCalls = FALSE
  MaxBad = 1
  MaxCalls = 5
INVARIANT Inv
SYMMETRY Handles
PROPERTIES ImplementsFileView
CHECK_DEADLOCK FALSE
