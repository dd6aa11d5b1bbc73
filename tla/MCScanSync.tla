----------------------------- MODULE MCScanSync -----------------------------
(* ScanSync for TLC: short and long sweeps.                                 *)
EXTENDS ScanSync

MCSweeps == {0, 1, 2}
=============================================================================
