---------------------------- MODULE ExampleTask ----------------------------
(***************************************************************************)
(* What the models of the example programs have in common: the task of a   *)
(* connection, or the tasks of all of them, reduced to where it awaits and *)
(* what it has to write.                                                   *)
(***************************************************************************)
EXTENDS Integers, Sequences, SequencesExt

VARIABLES
  phase,      \* where the task awaits: in the phase "write" or "send" in the socket
  transmits,  \* the queue of its pipeline; the head is in the socket in that phase
  sent        \* history: what was given to the socket, also when the write failed
=============================================================================
