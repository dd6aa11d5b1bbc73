CONSTANTS
    Stamps <- MCStamps
    ResetGap = 4
    MinInitHits = 3
    InitWindowSize = 3
    FastConfirmHits = 2
    TrackLifetimeFrames = 1
    LostTrackPredictionTime = 2
    StaticSupportHoldTime = 1
    SpeedGate = TRUE
    Places <- MCPlaces
    DuplicateGuardDistance = 0
    MaxFrames = 4
    MaxTracks = 2
    MaxIdentities = 2
SPECIFICATION TrackerSpec
INVARIANTS
    IdentitiesDistinct
    LivesOnEvidence
    CandidatesAreDecided
PROPERTIES
    IdentitiesEndForGood
    ImplementsTrackClock
