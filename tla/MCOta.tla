------------------------------- MODULE MCOta -------------------------------
(* Ota on a small instance. *)
EXTENDS Ota, TLC

Symmetry == Permutations(Uploads) \union Permutations(Contents)
=============================================================================
