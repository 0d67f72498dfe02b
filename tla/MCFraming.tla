------------------------------ MODULE MCFraming -------------------------------
(***************************************************************************)
(* Framing for TLC: a control message and two data messages, of one, one   *)
(* and three segments.                                                     *)
(***************************************************************************)
EXTENDS Framing

CONSTANTS c1, c2, c3

MCCallers == {c1, c2, c3}
MCKind == [c \in MCCallers |-> IF c = c1 THEN "control" ELSE "data"]
MCLength == [c \in MCCallers |-> CASE c = c1 -> 1 [] c = c2 -> 1 [] c = c3 -> 4]
===============================================================================
