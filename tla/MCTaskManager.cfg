SPECIFICATION FairSpec
CONSTANTS
  Task = {t1}
  Reloader = {g1}
  MaxTotal = 1
  MaxRemovers = 3
  MaxCrashes = 2
INVARIANTS
  NoOrphanRunningTask
  CacheStaleHasACause
PROPERTIES
  FinalOnceRemoved
  MemoryDrains
CHECK_DEADLOCK FALSE
