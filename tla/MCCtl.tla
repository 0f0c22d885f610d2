------------------------------- MODULE MCCtl -------------------------------
(* Small instances of Ctl: lines of one to four bytes against a buffer of  *)
(* four and reads of two.                                                  *)
EXTENDS Ctl

ShortLines == [kind \in LineKinds |-> IF kind = "listing" THEN 4 ELSE 2]
LongListing == [kind \in LineKinds |-> IF kind = "listing" THEN 7 ELSE 1]
=============================================================================
