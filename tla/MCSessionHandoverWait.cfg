SPECIFICATION Spec
CONSTANTS
  s1 = s1
  s2 = s2
  NoSession = NoSession
  Sessions = {s1, s2}
INVARIANTS
  MainWaitsForWorkers
CHECK_DEADLOCK FALSE
