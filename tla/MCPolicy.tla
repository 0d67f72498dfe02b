------------------------------- MODULE MCPolicy -------------------------------
(***************************************************************************)
(* Policy for TLC: the thresholds are reduced to the smallest ones at      *)
(* which a series can be cut short and a hold-off can end.                 *)
(***************************************************************************)
EXTENDS Policy

\* Each foreground application is known with one of its two event types, so that
\* the type of one may be looked up for the other
MCTable == {<<"news", 1>>, <<"map", 0>>}
MCHistoryEvents == {<<"news", 1>>, <<"map", 0>>, <<"BG", NoType>>, <<>>}
===============================================================================
