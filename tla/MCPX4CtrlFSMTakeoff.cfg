CONSTANTS
    ModeLevels <- MCSwitch
    GearLevels <- MCSwitch
    RebootLevels <- MCDown
    PilotModes = {"POSCTL"}
    FcuAnswers = {"done"}
    TakeoffEnabled = TRUE
    AutoArm = TRUE
    KeepCycles = 0
SPECIFICATION Safety
PROPERTIES
    TakeoffFromGround
