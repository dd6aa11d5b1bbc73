-------------------------- MODULE MCDynFilterNode --------------------------
(* DynFilterNode for TLC: one processing thread, a queue of one frame,      *)
(* stamps 0 (never usable) to 4 with a reset gap of two.                    *)
EXTENDS DynFilterNode

CONSTANT processingThread

MCConsumers == {processingThread}
MCStamps    == 0..4
=============================================================================
