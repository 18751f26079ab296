SPECIFICATION FairSpec
CONSTANTS
  Job = {j1}
  Airport = {a1, a2}
  Loop = {l1, l2}
  None = None
  MaxCalls = 3
  MaxEdits = 1
  MaxPanics = 0
PROPERTIES
  AcceptedUpdateIsChecked
CHECK_DEADLOCK FALSE
