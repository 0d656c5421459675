---------------------------- MODULE MCSimulator ----------------------------
(* Simulator on a small instance: two requests at a time, the handler of   *)
(* one and, at the end, StopAll; two starts, so that a loop can meet the   *)
(* channel of a start that is not its own.                                 *)
EXTENDS Simulator

CONSTANTS p1, p2

MCClients == {p1, p2}
=============================================================================
