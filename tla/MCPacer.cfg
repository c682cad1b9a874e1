SPECIFICATION FairSpec
CONSTANTS
    MaxFrames = 6
    PacingWindow = 2
    RenderWindow = 1
INVARIANTS
    PipelineOrder
    NoLeakNoDoubleFree
    OutstandingBound
    NothingAfterCleanup
    EventForEveryFrame
PROPERTIES
    IsFramePipe
    FramesMoveOn
    MainThreadDestructorReturns
CHECK_DEADLOCK FALSE
