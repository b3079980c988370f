-------------------------------- MODULE Opens -------------------------------
(***************************************************************************)
(* The generations of a bootstrap: each bind or connect that succeeds      *)
(* opens one, with a close channel and a wait group of its own             *)
(* (src/bootstrap).                                                        *)
(***************************************************************************)
EXTENDS Integers

CONSTANTS
  MaxOpens,  \* bound: number of calls of bind or connect that succeed
  Callers,   \* the application's tasks
  None

ASSUME OpensAssumption == MaxOpens \in Nat /\ None \notin Nat

Generations == 1 .. MaxOpens
=============================================================================
