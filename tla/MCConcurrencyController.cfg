SPECIFICATION FairSpec
CONSTANTS
  Cpus = {1, 8}
  TotalTasks = 22
INVARIANTS
  SlotBound
PROPERTIES
  BusyWaiterIsWoken
  LowLimitStays
CHECK_DEADLOCK FALSE
