CONSTANTS
    processingThread = processingThread
    Consumers <- MCConsumers
    Stamps <- MCStamps
    Capacity = 1
    ResetGap = 2
    SyncMaxInterval = 0
    MaxAccepted = 4
    MaxFailures = 1
SPECIFICATION NodeSpec
INVARIANTS
    StaleOnlyAfterLoss
    OneArrayPerFrame
    TrackArraysOrdered
    DrainedAtExit
PROPERTIES
    FramesLeaveTheQueue
    ShutdownTerminates
    KeepsTrackClock
