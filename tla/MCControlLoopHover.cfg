CONSTANTS
    Duration = 2
    RefreshTimeout = 1
    MaxTime = 3
    MaxStamp = 2
    MaxTimeline = 1
    MaxEpoch = 2
SPECIFICATION Spec
INVARIANT
    HoversAtCurrentPose
