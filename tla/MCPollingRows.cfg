SPECIFICATION Spec
CONSTANTS
  Hosts = {h1}
  NoThread = NoThread
  MaxComputers = 2
  MaxThreads = 2
INVARIANTS
  RowsAlive
CHECK_DEADLOCK FALSE
