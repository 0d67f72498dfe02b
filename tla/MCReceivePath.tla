---------------------------- MODULE MCReceivePath ----------------------------
(***************************************************************************)
(* Instances of ReceivePath for TLC: two control messages, the second one  *)
(* a Disconnect, and two data messages, the first one of two segments.     *)
(***************************************************************************)
EXTENDS ReceivePath

MCTotal == [k \in Kinds |-> IF k = "control" THEN 2 ELSE 3]
MCEnds == [k \in Kinds |-> IF k = "control" THEN {0, 1} ELSE {1, 2}]
=============================================================================
