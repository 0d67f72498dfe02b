------------------------------ MODULE MCSendPath ------------------------------
(***************************************************************************)
(* An instance of SendPath for TLC: two callers of data, whose numbers     *)
(* interleave, and one of control.                                         *)
(***************************************************************************)
EXTENDS SendPath

CONSTANTS app1, app2, ctrl

MCCallers == {app1, app2, ctrl}
MCCallerKind == [c \in MCCallers |-> IF c = ctrl THEN "control" ELSE "data"]
MCMaxSeq == [k \in Kinds |-> IF k = "control" THEN 1 ELSE 2]
=============================================================================
