SPECIFICATION FairSpec
CONSTANTS
  Contexts = {a, b}
  Readable = {a}
  NoContext = NoContext
  MaxQueued = 2
  MaxRestarts = 2
  MaxFrames = 4
  MaxConfigs = 3
INVARIANTS
  FramesFitConfig
PROPERTIES
  IsFrameRelay
  FramesMoveOn
CHECK_DEADLOCK FALSE
