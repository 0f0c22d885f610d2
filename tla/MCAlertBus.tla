----------------------------- MODULE MCAlertBus -----------------------------
(* Small instances of AlertBus: two detectors, two findings.               *)
EXTENDS AlertBus

CONSTANTS e1, e2, k1, k2
=============================================================================
