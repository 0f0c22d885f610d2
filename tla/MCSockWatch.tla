---------------------------- MODULE MCSockWatch ----------------------------
(* Small instances of SockWatch.                                           *)
EXTENDS SockWatch

CONSTANTS loud, quiet
=============================================================================
