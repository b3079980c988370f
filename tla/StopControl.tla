----------------------------- MODULE StopControl ----------------------------
(***************************************************************************)
(* struct Bootstrap of src/bootstrap/mod.rs: what every bootstrap, TCP or  *)
(* UDP, shares with the tasks it starts.  Each bind or connect makes a new *)
(* generation: a close channel and a wait group, with a worker for the     *)
(* task that it spawns.  The tasks themselves are in Server and            *)
(* UdpBootstrap, which extend this module.                                 *)
(*                                                                         *)
(* stop() does not suspend, and wait_for_stop() takes the wait group       *)
(* before it does, so each is one step up to the wait.  A caller may drop  *)
(* the future it waits on (a timeout around graceful_stop).  One caller,   *)
(* Main, is the future that run() was given: when it is over run()         *)
(* returns, and the tasks that are left are dropped as they are            *)
(* (src/executor/mod.rs).                                                  *)
(***************************************************************************)
EXTENDS Opens

CONSTANT Main

ASSUME StopControlAssumption == Main \in Callers

VARIABLES
  opened,      \* number of generations opened so far
  close_tx,    \* the generation whose sender the bootstrap keeps
  wg,          \* the generation whose wait group the bootstrap keeps
  sender, message,  \* of each close channel: the sender lives; its message was sent
  workers,     \* workers[g]: number of workers of the wait group of g
  caller, awaits, \* what each caller does, the wait group it took last
  ended        \* run() has returned

channel == <<close_tx, sender, message>>
callers == <<caller, awaits>>
control == <<opened, channel, wg, workers, callers, ended>>

ControlTypeOK ==
  /\ opened \in 0 .. MaxOpens
  /\ close_tx \in Generations \cup {None} /\ wg \in Generations \cup {None}
  /\ sender \in [Generations -> BOOLEAN] /\ message \in [Generations -> BOOLEAN]
  /\ workers \in [Generations -> 0 .. 1]
  /\ caller \in [Callers -> {"free", "waiting", "returned"}]
  /\ awaits \in [Callers -> Generations \cup {None}]
  /\ ended \in BOOLEAN

ControlInit ==
  /\ opened = 0 /\ close_tx = None /\ wg = None /\ ended = FALSE
  /\ sender = [g \in Generations |-> FALSE] /\ message = [g \in Generations |-> FALSE]
  /\ workers = [g \in Generations |-> 0]
  /\ caller = [k \in Callers |-> "free"] /\ awaits = [k \in Callers |-> None]

-----------------------------------------------------------------------------
\* Mutant: somebody keeps the sender that is replaced.
RenewLeaks ==
  /\ ~ended /\ opened < MaxOpens
  /\ opened' = opened + 1 /\ close_tx' = opened + 1 /\ wg' = opened + 1
  /\ sender' = [sender EXCEPT ![opened + 1] = TRUE]
  /\ workers' = [workers EXCEPT ![opened + 1] = 1]
  /\ UNCHANGED <<message, callers, ended>>

(* What bind and connect do once they have a socket: a new channel, whose  *)
(* sender replaces (and drops) the old one, and a new wait group with one  *)
(* worker.                                                                 *)
Renew ==
  /\ ~ended /\ opened < MaxOpens
  /\ opened' = opened + 1 /\ close_tx' = opened + 1 /\ wg' = opened + 1
  /\ sender' = [g \in Generations |-> IF g = opened + 1 THEN TRUE ELSE sender[g] /\ g # close_tx]
  /\ workers' = [workers EXCEPT ![opened + 1] = 1]
  /\ UNCHANGED <<message, callers, ended>>

(* stop(): take the sender out, send the message, drop it. *)
TakeSender ==
  /\ close_tx' = None
  /\ message' = [g \in Generations |-> message[g] \/ g = close_tx]
  /\ sender' = [g \in Generations |-> sender[g] /\ g # close_tx]

(* wait_for_stop() up to its await; without a wait group it returns. *)
TakeGroup(k) ==
  /\ caller[k] # "waiting" /\ wg' = None
  /\ caller' = [caller EXCEPT ![k] = IF wg = None THEN "returned" ELSE "waiting"]
  /\ awaits' = [awaits EXCEPT ![k] = wg]

Stop == ~ended /\ TakeSender /\ UNCHANGED <<opened, wg, workers, callers, ended>>
WaitForStop(k) == ~ended /\ TakeGroup(k) /\ UNCHANGED <<opened, channel, workers, ended>>
GracefulStop(k) == ~ended /\ TakeSender /\ TakeGroup(k) /\ UNCHANGED <<opened, workers, ended>>

(* wait() ends when the count is zero. *)
Return(k) ==
  /\ ~ended /\ caller[k] = "waiting" /\ workers[awaits[k]] = 0
  /\ caller' = [caller EXCEPT ![k] = "returned"]
  /\ UNCHANGED <<opened, channel, wg, workers, awaits, ended>>

(* The caller drops the future, and with it the wait group. *)
Cancel(k) ==
  /\ ~ended /\ caller[k] = "waiting"
  /\ caller' = [caller EXCEPT ![k] = "free"] /\ awaits' = [awaits EXCEPT ![k] = None]
  /\ UNCHANGED <<opened, channel, wg, workers, ended>>

(* The future of run() is over once its own stop has returned. *)
RunEnds ==
  /\ ~ended /\ caller[Main] = "returned" /\ ended' = TRUE
  /\ UNCHANGED <<opened, channel, wg, workers, callers>>

Call ==
  \/ Stop \/ RunEnds
  \/ \E k \in Callers : WaitForStop(k) \/ GracefulStop(k) \/ Return(k) \/ Cancel(k)

(* close_rx.recv() of a receiver of g, which has received nothing so far:  *)
(* the message, or the end of the channel.                                 *)
Received(g) == message[g] \/ ~sender[g]

(* A task that holds the worker of g drops it. *)
DropsWorker(g) ==
  /\ workers' = [workers EXCEPT ![g] = @ - 1]
  /\ UNCHANGED <<opened, channel, wg, callers, ended>>
=============================================================================
