SPECIFICATION FairSpec
CONSTANTS
  Devices = {d1, d2}
  None = None
  HighWater = 2
  MaxLine = 1
  MaxData = 4
  MaxGenerations = 4
INVARIANTS
  TypeOK
  StreamsIntact
  SharedOnlyWhileAsked
PROPERTIES
  OpeningEnds
  TrafficMoves
CHECK_DEADLOCK FALSE
