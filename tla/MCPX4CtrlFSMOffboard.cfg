CONSTANTS
    ModeLevels <- MCSwitch
    GearLevels <- MCSwitch
    RebootLevels <- MCDown
    PilotModes = {}
    FcuAnswers = {"done", "refused"}
    TakeoffEnabled = TRUE
    AutoArm = TRUE
    KeepCycles = 0
SPECIFICATION Safety
PROPERTIES
    ManualLeavesOffboard
