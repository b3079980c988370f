--------------------------- MODULE MCLineDecoder ----------------------------
(***************************************************************************)
(* Instances of LineDecoder: streams of a few bytes and all settings.      *)
(***************************************************************************)
EXTENDS LineDecoder
=============================================================================
