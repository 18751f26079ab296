SPECIFICATION FairSpec
CONSTANTS
  Job = {j1}
  Airport = {a1, a2}
  Loop = {l1, l2}
  None = None
  MaxCalls = 4
  MaxEdits = 1
  MaxPanics = 1
INVARIANTS
  OwnerHoldsSlot
PROPERTIES
  ImplementsRuns
  SlotReleased
  UndisturbedUpdateIsChecked
CHECK_DEADLOCK FALSE
