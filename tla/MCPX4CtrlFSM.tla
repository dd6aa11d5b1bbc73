---------------------------- MODULE MCPX4CtrlFSM ----------------------------
EXTENDS PX4CtrlFSM

MCSwitch == {-1, 1}
MCDown   == {-1}
=============================================================================
