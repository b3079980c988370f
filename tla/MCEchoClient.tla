---------------------------- MODULE MCEchoClient ----------------------------
(***************************************************************************)
(* Instance of EchoClient for TLC: a channel of three lines, not nine.     *)
(***************************************************************************)
EXTENDS EchoClient
=============================================================================
