------------------------------ MODULE LineConn ------------------------------
(***************************************************************************)
(* The reading half of class LineConn: bytes come in pieces of any size    *)
(* and go out as whole lines.  A byte is a unit of the stream that knows   *)
(* which line it is part of; the last byte of a line is its newline.  The  *)
(* buffer is what rpos_ has not passed: the compaction of the consumed     *)
(* prefix cannot be seen from outside.                                     *)
(***************************************************************************)
EXTENDS Integers, SequencesExt

CONSTANTS
    LineMax,    \* kMaxLine, 256 KiB
    ReadMax     \* the 8 KiB buffer of one read in fill

ASSUME LineAssumption == LineMax \in Nat /\ ReadMax \in Nat \ {0}

LineBytes(n, len) == [i \in 1..len |-> [of |-> n, nl |-> i = len]]

HasLine(buf) == \E i \in DOMAIN buf : buf[i].nl

LineEnd(buf) == CHOOSE i \in DOMAIN buf : buf[i].nl /\ \A j \in 1..(i - 1) : ~buf[j].nl

(* next_line: what it returns, and what it leaves.                         *)
FirstLine(buf) == SubSeq(buf, 1, LineEnd(buf))
AfterLine(buf) == SubSeq(buf, LineEnd(buf) + 1, Len(buf))

(* Mutant: as if every read brought a full buffer.                         *)
MightBeTooLong(buf) == Len(buf) + ReadMax > LineMax

(* Whether fill gives up instead of appending what it has just read.       *)
TooLong(buf) == Len(buf) > LineMax
=============================================================================
