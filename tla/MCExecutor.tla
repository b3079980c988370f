----------------------------- MODULE MCExecutor -----------------------------
(***************************************************************************)
(* Instance of Executor for TLC: main and three tasks, the fewest with     *)
(* which a yield_local can run two that wake each other for ever.          *)
(***************************************************************************)
EXTENDS Executor
=============================================================================
