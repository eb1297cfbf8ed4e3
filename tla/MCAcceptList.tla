---------------------------- MODULE MCAcceptList ----------------------------
(* Small instances of AcceptList for TLC. *)
EXTENDS AcceptList, TLC

Symmetry == Permutations(Buffers) \cup Permutations(Workers)
=============================================================================
