--------------------------- MODULE MCTcpConnection ---------------------------
(* The connection of one lidar, over a few reconnects. *)
EXTENDS TcpConnection
=============================================================================
