--------------------------- MODULE MCPyminDaemon ---------------------------
(***************************************************************************)
(* Bounds for PyminDaemon: two clients, so that a datagram can wait while  *)
(* another is served, and each outside signal once or twice, so that       *)
(* signals of every kind meet in the list in every order.                  *)
(***************************************************************************)
EXTENDS PyminDaemon
=============================================================================
