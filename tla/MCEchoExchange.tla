--------------------------- MODULE MCEchoExchange ---------------------------
(***************************************************************************)
(* Instances of EchoExchange: the test with a few lines instead of 100.    *)
(***************************************************************************)
EXTENDS EchoExchange

ASSUME EchoInstance == EchoProgram
=============================================================================
