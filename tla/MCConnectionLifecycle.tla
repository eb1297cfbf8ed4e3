----------------------- MODULE MCConnectionLifecycle ------------------------
(* Small instances of ConnectionLifecycle for TLC. *)
EXTENDS ConnectionLifecycle, TLC

Symmetry ==
  Permutations(Contexts) \cup Permutations(Buffers) \cup Permutations(Workers)
=============================================================================
