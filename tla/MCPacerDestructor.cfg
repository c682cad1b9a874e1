SPECIFICATION FairSpec
CONSTANTS
    MaxFrames = 1
    PacingWindow = 2
    RenderWindow = 1
PROPERTIES
    DestructorReturns
CHECK_DEADLOCK FALSE
