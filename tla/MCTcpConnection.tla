--------------------------- MODULE MCTcpConnection ---------------------------
(* Instance of TcpConnection for TLC: two messages of two bytes each.       *)
EXTENDS TcpConnection

CONSTANTS m1, m2

MCMsgs == {m1, m2}
=============================================================================
