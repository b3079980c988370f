--------------------------- MODULE MCTcpConnection ---------------------------
(***************************************************************************)
(* Instance of TcpConnection for TLC: message m has m bytes, so that one   *)
(* leaves room in the send buffer, one fills it and one does not fit.      *)
(***************************************************************************)
EXTENDS TcpConnection

MCSize == [m \in Messages |-> m]
=============================================================================
