CONSTANTS
    c1 = c1
    c2 = c2
    Consumers <- MCConsumers
    Stamps <- MCStamps
    Capacity = 2
    ResetGap = 2
    MaxAccepted = 4
SPECIFICATION QueueSpec
INVARIANTS
    AcceptedStampsOrdered
    NoLostWakeup
PROPERTIES
    ImplementsWindow
    CloseReleasesWaiters
    WaitersAreServed
