------------------------- MODULE ConnectionLifecycle ------------------------
(***************************************************************************)
(* What a connection promises to the handlers of its pipeline, whatever    *)
(* the transport does: transport_active comes first and at most once, then *)
(* any number of reads and timeouts, at most one end of file, and          *)
(* transport_inactive comes last, exactly once if the connection became    *)
(* active.  "callback" is the latest callback the handlers have seen.      *)
(***************************************************************************)
VARIABLE callback

Callbacks == {"none", "active", "read", "timeout", "eof", "inactive"}

Init == callback = "none"

Activate == callback = "none" /\ callback' = "active"

(* An end of file is the last thing that is delivered. *)
Deliver == /\ callback \in {"active", "read", "timeout"}
           /\ callback' \in {"read", "timeout", "eof"}

Deactivate == /\ callback \in {"active", "read", "timeout", "eof"}
              /\ callback' = "inactive"

Next == Activate \/ Deliver \/ Deactivate

Spec == Init /\ [][Next]_callback
=============================================================================
