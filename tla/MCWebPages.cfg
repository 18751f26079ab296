SPECIFICATION WebSpec
CONSTANTS
  Filter = {f1, f2}
  MaxVersion = 1
  MaxRequests = 2
  MaxLoads = 2
  MaxRuns = 2
  Group = {g1, g2}
  NoGroup = NoGroup
  MaxChecks = 1
  MaxLists = 1
  MaxMembers = 2
  Session = {s1}
  MaxActive = 1
  Template = {a, b}
  NoTemplate = NoTemplate
  Typed = {y}
  NoSession = NoSession
INVARIANTS
  NodesListSettles
PROPERTIES
  NodesListNeverGoesBack
  ShownRunEnds
  MembersOfOpenGroup
  CandidateReplacesItsBase
  SessionEndIsFinal
CHECK_DEADLOCK FALSE
