-------------------------- MODULE MCChatServerUdp ---------------------------
(***************************************************************************)
(* Instance of ChatServerUdp for TLC: buffers with a line, with two, and   *)
(* with a line too long alone, before and after another line.              *)
(***************************************************************************)
EXTENDS ChatServerUdp, TLC

MCContents == {<<"line">>, <<"bye">>, <<"line", "line">>, <<"bye", "line">>, <<"long">>,
               <<"line", "long">>, <<"long", "line">>, <<"rest">>, <<"line", "rest">>}

Symmetry == Permutations(Peers)
=============================================================================
