--------------------------- MODULE MCOrderedEcho ---------------------------
(* Small instances of OrderedEcho for TLC. *)
EXTENDS OrderedEcho
=============================================================================
