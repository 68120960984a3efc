SPECIFICATION FairSpec
CONSTANTS
  t1 = t1
  t2 = t2
  Task <- MCTask
  Loads <- MCLoads
  Name = {1, 2, 3}
  DirName = {1, 2, 3}
  CacheMin = 1
  CacheFactor = 2
  MaxFiles = 3
  MaxPlace = 1
  MaxTold = 2
  SeeksAcrossChanges = FALSE
INVARIANTS Inv EachEntryOnce
PROPERTIES ImplementsOpenFiles
CHECK_DEADLOCK FALSE
