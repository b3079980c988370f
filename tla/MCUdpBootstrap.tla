---------------------------- MODULE MCUdpBootstrap ----------------------------
(***************************************************************************)
(* Instance of UdpBootstrap for TLC, client and server.                    *)
(***************************************************************************)
EXTENDS UdpBootstrap
=============================================================================
