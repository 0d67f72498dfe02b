----------------------------- MODULE MCClientQueue -----------------------------
(* Segments of one kind over two links. *)
EXTENDS ClientQueue

CONSTANTS l1, l2
=============================================================================
