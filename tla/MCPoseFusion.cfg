CONSTANTS
    SeqSize = 8
    MaxImuGap = 3
    MaxTime = 16
    LateTime = 10
SPECIFICATION Spec
INVARIANTS
    EstimateIsCurrent
PROPERTIES
    CorrectsNearest
    ImplementsFilter
