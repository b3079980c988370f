----------------------------- MODULE MCPipeline -----------------------------
(***************************************************************************)
(* Instance of Pipeline for TLC: the string codec and the echo handler of  *)
(* tests/echo_test.rs (bytes to string, string to string), a second string *)
(* handler that shares the name of the echo handler, so that remove()      *)
(* meets a duplicate, and one that uses the reserved name.                 *)
(***************************************************************************)
EXTENDS Pipeline

CONSTANTS Strings, Echo, Chat, Usurper

MCName == [h \in AllHandlers |-> CASE h = Strings -> "TaggedStringCodec"
                                   [] h \in {Echo, Chat} -> "EchoHandler"
                                   [] OTHER -> "ReservedRettyPipelineHandlerName"]
Bytes == [rin |-> "bytes", rout |-> "bytes", win |-> "bytes", wout |-> "bytes"]
Text == [rin |-> "text", rout |-> "text", win |-> "text", wout |-> "text"]
MCSig == [h \in AllHandlers |-> CASE h = Strings -> [Bytes EXCEPT !.rout = "text", !.win = "text"]
                                  [] OTHER -> Text]
=============================================================================
