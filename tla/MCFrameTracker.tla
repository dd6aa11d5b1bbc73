--------------------------- MODULE MCFrameTracker ---------------------------
(* FrameTracker for TLC: stamps that advance by one tick or more, two       *)
(* places that are no duplicates of each other.                             *)
EXTENDS FrameTracker

MCStamps == 1..6
MCPlaces == {0, 1}
=============================================================================
