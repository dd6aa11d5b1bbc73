------------------------ MODULE MCPerceptionPipeline ------------------------
(* PerceptionPipeline for TLC: two stamps, one reset, two mode changes.  *)
EXTENDS PerceptionPipeline

MCStamps == 1..2
=============================================================================
