SPECIFICATION Spec
CONSTANTS
  NoFile = NoFile
  EmptyFile = EmptyFile
  Beyond = Beyond
  GNSS_EXPORT_DATA_BUF_LEN = 2
  MaxChunks = 3
  MaxGarbage = 4
  MaxSaves = 2
  MaxCrashes = 1
  CallsFail = TRUE
  StartFails = FALSE
INVARIANT FullImport
CHECK_DEADLOCK FALSE
