------------------------------ MODULE MCServer ------------------------------
(***************************************************************************)
(* Instance of Server for TLC.  Liveness is checked: no symmetry.          *)
(***************************************************************************)
EXTENDS Server
=============================================================================
