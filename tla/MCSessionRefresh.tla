-------------------------- MODULE MCSessionRefresh --------------------------
(* Small instances of SessionRefresh. *)
EXTENDS SessionRefresh, TLC

RequestSymmetry == Permutations(Requests)
=============================================================================
