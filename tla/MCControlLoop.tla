---------------------------- MODULE MCControlLoop ----------------------------
(* ControlLoop for TLC: every constant has a value in the configurations.  *)
EXTENDS ControlLoop
=============================================================================
