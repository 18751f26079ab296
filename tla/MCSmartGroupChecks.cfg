SPECIFICATION FairSpec
CONSTANTS
  Group = {g1, g2}
  Airport = {a1}
  Profiles <- SharedOrOwn
  Worker = {w1, w2, w3, w4}
  MaxStarts = 3
  MaxEdits = 1
  MaxErrors = 1
INVARIANTS
  ReservedHasOneHolder
PROPERTIES
  ImplementsRuns
  GroupReleased
  AcceptedUpdateIsChecked
CHECK_DEADLOCK FALSE
