---------------------------- MODULE MCTcpServer -----------------------------
(* Small instances of TcpServer for TLC. *)
EXTENDS TcpServer

\* The initial order of a pool is fixed, so contexts are not interchangeable.
Symmetry == Permutations(Sockets) \cup Permutations(Workers)

\* No action and no property but ClosedForCause reads wronged.
WithoutWronged ==
  <<sock, idle, m_mapAcceptSockQueue, ctx, io, wk, accepts, server>>
=============================================================================
