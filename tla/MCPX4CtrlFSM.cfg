CONSTANTS
    ModeLevels <- MCSwitch
    GearLevels <- MCSwitch
    RebootLevels <- MCDown
    PilotModes = {"MANUAL"}
    FcuAnswers = {"done", "refused"}
    TakeoffEnabled = TRUE
    AutoArm = TRUE
    KeepCycles = 0
SPECIFICATION Spec
INVARIANTS
    ReturnModeKnown
    HoverRequestDeliberate
PROPERTIES
    TakesOverWhenAsked
    LandingTakesTime
    HandsBack
