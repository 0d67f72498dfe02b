------------------------------ MODULE MCSegmentPool -----------------------------
(* Two senders, which are interchangeable, and a free list that shrinks early. *)
EXTENDS SegmentPool

CONSTANTS s1, s2

Symmetry == Permutations({s1, s2})
=============================================================================
