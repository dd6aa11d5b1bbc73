---------------------------- MODULE MCPoseFusion ----------------------------
(* PoseFusion for TLC.                                                      *)
EXTENDS PoseFusion
=============================================================================
