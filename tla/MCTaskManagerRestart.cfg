SPECIFICATION Spec
CONSTANTS
  Task = {t1}
  Reloader = {}
  MaxTotal = 1
  MaxRemovers = 2
  MaxCrashes = 1
INVARIANTS
  RestartConsistent
CHECK_DEADLOCK FALSE
