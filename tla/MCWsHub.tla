------------------------------ MODULE MCWsHub ------------------------------
(* WsHub on a small instance. *)
EXTENDS WsHub, TLC

Symmetry == Permutations(Conns) \union Permutations(Publishers)
=============================================================================
