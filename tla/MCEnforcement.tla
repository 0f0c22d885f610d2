--------------------------- MODULE MCEnforcement ---------------------------
(* Small instances of Enforcement: an address a feed carries, one a scan   *)
(* may come from, one the administrator may exclude by hand.               *)
EXTENDS Enforcement

CONSTANTS a, b
=============================================================================
