-------------------------- MODULE MCUdpConnection ---------------------------
(***************************************************************************)
(* Instance of UdpConnection for TLC: batches of up to two buffers, each   *)
(* of up to two datagrams, so that three datagrams can leave an old one in *)
(* a buffer that a later recv does not fill.                               *)
(***************************************************************************)
EXTENDS UdpConnection
=============================================================================
