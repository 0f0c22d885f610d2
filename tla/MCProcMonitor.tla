--------------------------- MODULE MCProcMonitor ---------------------------
(* Small instances of ProcMonitor.                                         *)
EXTENDS ProcMonitor
=============================================================================
