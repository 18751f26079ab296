SPECIFICATION FairSpec
CONSTANTS
  Cpus = {1, 2, 8, 16}
  TotalTasks = 7
PROPERTIES
  WaiterWithSlotGetsThrough
CHECK_DEADLOCK FALSE
