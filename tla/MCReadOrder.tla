---------------------------- MODULE MCReadOrder -----------------------------
(* Small instances of ReadOrder for TLC. *)
EXTENDS ReadOrder
=============================================================================
