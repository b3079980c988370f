-------------------------- MODULE MCChatServerTcp ---------------------------
(***************************************************************************)
(* Instance of ChatServerTcp for TLC.                                      *)
(***************************************************************************)
EXTENDS ChatServerTcp, TLC

Symmetry == Permutations(Addrs) \cup Permutations(Conns)
=============================================================================
