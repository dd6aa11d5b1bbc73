CONSTANTS
    MaxStamp = 4
    Sweeps <- MCSweeps
    InitMessages = 1
    MaxScans = 2
    MaxImu = 3
    MaxJumps = 1
SPECIFICATION Spec
INVARIANTS
    SyncTypeOK
    ScansHaveTheirStamps
PROPERTIES
    PredictedOnce
