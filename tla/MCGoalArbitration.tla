------------------------- MODULE MCGoalArbitration -------------------------
(* GoalArbitration for TLC, with control_pub called by the timer.           *)
EXTENDS GoalArbitration

MCCallers == {"timer"}
=============================================================================
