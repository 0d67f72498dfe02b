----------------------------- MODULE MCClientSwitch ----------------------------
(* The two adapters of the client and three threads. *)
EXTENDS ClientSwitch

CONSTANTS t1, t2, t3
=============================================================================
