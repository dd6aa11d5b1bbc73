CONSTANTS
    Stamps <- MCStamps
    CacheDuration = 1
    MaxGeneration = 1
    MaxVersion = 2
SPECIFICATION Spec
INVARIANTS
    ResyncPossible
    SlotsHoldCurrentWork
PROPERTIES
    ImplementsAuthority
    PendingWorkIsTaken
