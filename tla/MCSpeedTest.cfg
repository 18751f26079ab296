SPECIFICATION FairSpec
CONSTANTS
  N = 3
  MaxLimit = 2
INVARIANTS
  SavedRunIsComplete
  SlotsAccounted
PROPERTIES
  ProgressGoesForward
  CancelledEarlySavesNothing
  EndsOrOversleeps
CHECK_DEADLOCK FALSE
