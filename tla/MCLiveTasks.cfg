SPECIFICATION FairSpec
CONSTANTS
  t1 = t1
  Task = {t1}
  NoTask = NoTask
  Event <- MCEvent
  NotifierCap = 1
  WireCap = 1
  MaxRestarts = 1
  MaxEnds = 1
INVARIANTS
  LoggedOutIsQuiet
  StaleEntryHasACause
  StuckRestoreHasACause
PROPERTIES
  SignedInTabListens
  SlowTabBlocksNobody
CHECK_DEADLOCK FALSE
