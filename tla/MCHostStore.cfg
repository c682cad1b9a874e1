SPECIFICATION Spec
CONSTANTS
  Hosts = {h1, h2}
  Values = {v1, v2}
  MaxChanges = 3
  MaxCrashes = 2
INVARIANTS
  CrashKeepsHosts
  IdleIsSaved
  RequestsAreSeen
PROPERTIES
  RequestsAreFlushed
CHECK_DEADLOCK FALSE
