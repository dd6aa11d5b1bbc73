CONSTANTS
    Callers <- MCCallers
    NavMode = FALSE
    MaxPosition = 1
SPECIFICATION Spec
INVARIANTS
    HomeIsWhereReleased
    GoalFollowsPilot
PROPERTIES
    HomeInTheEnd
    PilotIsFollowed
