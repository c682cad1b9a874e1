SPECIFICATION FairSpec
CONSTANTS
  Hosts = {h1}
  NoThread = NoThread
  MaxComputers = 2
  MaxThreads = 2
INVARIANTS
  PolledWhileWanted
  HostsAlive
PROPERTIES
  PollingStops
  ShutdownCompletes
CHECK_DEADLOCK FALSE
