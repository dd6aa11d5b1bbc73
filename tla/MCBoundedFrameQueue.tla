----------------------- MODULE MCBoundedFrameQueue -----------------------
(* BoundedFrameQueue for TLC: two consumers, a capacity of two, stamps on  *)
(* both sides of the backward jump threshold.                              *)
EXTENDS BoundedFrameQueue

CONSTANTS c1, c2

MCConsumers == {c1, c2}
MCStamps    == 1..4
=============================================================================
