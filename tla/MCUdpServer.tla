---------------------------- MODULE MCUdpServer -----------------------------
(* Small instances of UdpServer for TLC. *)
EXTENDS UdpServer
=============================================================================
