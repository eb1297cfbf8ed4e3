---------------------------- MODULE MCAcceptPool ----------------------------
(* Small instances of AcceptPool for TLC. *)
EXTENDS AcceptPool, TLC

Symmetry == Permutations(Buffers) \cup Permutations(Workers)
=============================================================================
