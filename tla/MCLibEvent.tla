----------------------------- MODULE MCLibEvent -----------------------------
EXTENDS LibEvent, TLC

=============================================================================
