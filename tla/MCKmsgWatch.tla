---------------------------- MODULE MCKmsgWatch ----------------------------
(* Small instances of KmsgWatch.                                           *)
EXTENDS KmsgWatch, TLC

CONSTANTS s1, s2, p1, p2, p3

Symmetry == Permutations(Srcs) \cup Permutations(Ports)
=============================================================================
