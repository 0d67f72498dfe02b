------------------------------ MODULE MCHandover ------------------------------
(***************************************************************************)
(* Instances of Handover for TLC: two adapters and one application thread. *)
(***************************************************************************)
EXTENDS Handover

CONSTANT app

MCCallers == {app, Monitor}
MCCallerKind == [c \in MCCallers |-> IF c = Monitor THEN "control" ELSE "data"]

\* Only the segments of the commands.
MCMaxSeq == [k \in Kinds |-> IF k = "control" THEN 2 ELSE 0]
=============================================================================
