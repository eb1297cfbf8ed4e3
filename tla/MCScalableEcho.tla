--------------------------- MODULE MCScalableEcho ---------------------------
(* Small instances of ScalableEcho for TLC. *)
EXTENDS ScalableEcho
=============================================================================
