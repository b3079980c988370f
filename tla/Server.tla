------------------------------- MODULE Server -------------------------------
(***************************************************************************)
(* A TCP server in detail, from bind to the end of run(): what Bootstrap   *)
(* says of channels, wait groups and tasks is done here with the sender    *)
(* and the message of each close channel, with the counts of the two wait  *)
(* groups of each bind, and with the callbacks that the handlers of each   *)
(* connection see (src/bootstrap/bootstrap_tcp).                           *)
(***************************************************************************)
EXTENDS StopControl, FiniteSets

CONSTANT Conns  \* the sockets that may be accepted

ASSUME ServerAssumption == IsFiniteSet(Conns)

VARIABLES
  loop,        \* the accept loop of each generation
  child_workers, \* child_workers[g]: number of workers of the loop's own wait group
  task, gen,   \* the task of each socket, and the generation that accepted it
  callback     \* the latest callback the handlers of each connection have seen

tasks == <<loop, child_workers, task, gen, callback>>
vars == <<control, tasks>>

(* Every variable stays in its range; no wait group is left with more or   *)
(* fewer workers than tasks that run.                                      *)
TypeOK ==
  /\ ControlTypeOK
  /\ loop \in [Generations -> {"unborn", "accepting", "draining", "gone"}]
  /\ child_workers \in [Generations -> Nat]
  /\ task \in [Conns -> {"unborn", "spawned", "running", "leaving", "done"}]
  /\ gen \in [Conns -> Generations \cup {None}]
  /\ callback \in [Conns -> {"none", "active", "read", "eof", "inactive"}]

Init ==
  /\ ControlInit
  /\ loop = [g \in Generations |-> "unborn"] /\ child_workers = [g \in Generations |-> 0]
  /\ task = [c \in Conns |-> "unborn"] /\ gen = [c \in Conns |-> None]
  /\ callback = [c \in Conns |-> "none"]

-----------------------------------------------------------------------------
(* bind: a new generation with a new accept loop. *)
Bind ==
  /\ Renew /\ loop' = [loop EXCEPT ![opened + 1] = "accepting"]
  /\ UNCHANGED <<child_workers, task, gen, callback>>

Calls == Call /\ UNCHANGED tasks

-----------------------------------------------------------------------------
\* Mutant: the child gets no worker of the loop's group.
AcceptUncounted(g, c) ==
  /\ ~ended /\ loop[g] = "accepting" /\ task[c] = "unborn"
  /\ task' = [task EXCEPT ![c] = "spawned"] /\ gen' = [gen EXCEPT ![c] = g]
  /\ UNCHANGED <<control, child_workers, loop, callback>>

(* The new task has a clone of close_rx and a worker of child_wg. *)
Accept(g, c) ==
  /\ ~ended /\ loop[g] = "accepting" /\ task[c] = "unborn"
  /\ task' = [task EXCEPT ![c] = "spawned"] /\ gen' = [gen EXCEPT ![c] = g]
  /\ child_workers' = [child_workers EXCEPT ![g] = @ + 1]
  /\ UNCHANGED <<control, loop, callback>>

(* The loop ends when it is told to, or when accept() fails. *)
LoopBreaks(g) == /\ loop[g] = "accepting" /\ ~ended
                 /\ loop' = [loop EXCEPT ![g] = "draining"]
                 /\ UNCHANGED <<control, child_workers, task, gen, callback>>
LoopCloses(g) == Received(g) /\ LoopBreaks(g)
AcceptFails(g) == LoopBreaks(g)

\* Mutant: the worker of the loop is dropped before the wait for its children.
LoopDrainedEarly(g) ==
  /\ ~ended /\ loop[g] = "draining"
  /\ loop' = [loop EXCEPT ![g] = "gone"] /\ DropsWorker(g)
  /\ UNCHANGED <<child_workers, task, gen, callback>>

(* child_wg.wait() ends; the loop's task is over and drops its worker. *)
LoopDrained(g) ==
  /\ ~ended /\ loop[g] = "draining" /\ child_workers[g] = 0
  /\ loop' = [loop EXCEPT ![g] = "gone"] /\ DropsWorker(g)
  /\ UNCHANGED <<child_workers, task, gen, callback>>

-----------------------------------------------------------------------------
(* process_pipeline: its worker is dropped with everything else at the     *)
(* end of the function.                                                    *)
DropWorker(c) ==
  /\ task' = [task EXCEPT ![c] = "done"]
  /\ child_workers' = [child_workers EXCEPT ![gen[c]] = @ - 1]
  /\ UNCHANGED <<control, loop, gen>>

(* The handlers are told, and the task goes on as "next". *)
Tell(c, what, next) ==
  /\ task' = [task EXCEPT ![c] = next] /\ callback' = [callback EXCEPT ![c] = what]
  /\ UNCHANGED <<control, child_workers, loop, gen>>

(* An address of the socket cannot be had: the task returns. *)
ConnectionFails(c) ==
  ~ended /\ task[c] = "spawned" /\ DropWorker(c) /\ UNCHANGED callback

ConnectionStarts(c) == ~ended /\ task[c] = "spawned" /\ Tell(c, "active", "running")

(* A read or a timeout; at the end of file the loop ends. *)
ConnectionReads(c) ==
  /\ ~ended /\ task[c] = "running"
  /\ Tell(c, "read", "running") \/ Tell(c, "eof", "leaving")

\* Mutants: "return" for "break"; the worker is kept by somebody who lives on.
InactiveForgotten(c) == DropWorker(c) /\ UNCHANGED callback
InactiveLeaks(c) ==
  /\ task' = [task EXCEPT ![c] = "done"] /\ callback' = [callback EXCEPT ![c] = "inactive"]
  /\ UNCHANGED <<control, child_workers, loop, gen>>

(* The loop is over (eof, a read error, or the close channel): the         *)
(* handlers are told transport_inactive, then the worker is dropped.       *)
Inactive(c) == DropWorker(c) /\ callback' = [callback EXCEPT ![c] = "inactive"]
ConnectionLeaves(c) == ~ended /\ task[c] \in {"running", "leaving"} /\ Inactive(c)
ConnectionCloses(c) == ~ended /\ task[c] = "running" /\ Received(gen[c]) /\ Inactive(c)

Connection(c) == ConnectionFails(c) \/ ConnectionStarts(c) \/ ConnectionReads(c)
                 \/ ConnectionLeaves(c) \/ ConnectionCloses(c)

Next ==
  \/ Bind \/ Calls
  \/ \E g \in Generations : LoopCloses(g) \/ AcceptFails(g) \/ LoopDrained(g)
                            \/ \E c \in Conns : Accept(g, c)
  \/ \E c \in Conns : Connection(c)

Spec == Init /\ [][Next]_vars

(* Tasks that can go on do, a running connection looks at its channel in   *)
(* the end although a read may be ready as well (TcpConnection!StopEnds:   *)
(* if its peer reads), and a wait that is over returns.                    *)
FairSpec ==
  /\ Spec
  /\ \A g \in Generations : WF_vars(LoopCloses(g)) /\ WF_vars(LoopDrained(g))
  /\ \A c \in Conns : /\ WF_vars(ConnectionFails(c) \/ ConnectionStarts(c))
                      /\ WF_vars(task[c] = "leaving" /\ ConnectionLeaves(c))
                      /\ SF_vars(ConnectionCloses(c))
  /\ \A k \in Callers : WF_vars(Return(k) /\ UNCHANGED tasks)

-----------------------------------------------------------------------------
(* Properties *)

(* The server does what Bootstrap says: a channel is closed when it has    *)
(* its message or no sender, a task is gone when its worker is.            *)
B == INSTANCE Bootstrap WITH
  Role <- "server",
  closed <- [g \in Generations |-> g <= opened /\ Received(g)],
  root <- [g \in Generations |-> IF g <= opened /\ workers[g] = 0 THEN "gone" ELSE loop[g]],
  child <- [c \in Conns |-> IF task[c] \in {"spawned", "running", "leaving"} THEN "running" ELSE task[c]]

RefinesBootstrap == B!Spec

(* Each connection does to its handlers what ConnectionLifecycle says. *)
Lifecycle(c) == INSTANCE ConnectionLifecycle WITH callback <- callback[c]
RefinesLifecycle ==
  /\ \A c \in Conns : Lifecycle(c)!Init
  /\ [][\A c \in Conns : Lifecycle(c)!Next \/ UNCHANGED callback[c]]_callback

(* A stop that took a wait group returns after the handlers of every       *)
(* connection of that generation have seen transport_inactive, those whose *)
(* sockets were accepted after the stop was asked for included; so run()   *)
(* may end then and cuts none of them off.                                 *)
HandlersTold ==
  \A k \in Callers, c \in Conns :
    caller[k] = "returned" /\ awaits[k] # None /\ gen[c] = awaits[k]
      => callback[c] \in {"none", "inactive"} /\ task[c] = "done"

(* Once its generation is closed, by stop() or by a later bind, a          *)
(* connection that became active tells its handlers transport_inactive,    *)
(* or run() returns first.                                                 *)
ClosedTells == \A c \in Conns :
  (callback[c] \notin {"none", "inactive"} /\ Received(gen[c])) ~> (callback[c] = "inactive" \/ ended)

(* A stop of a generation whose sender is given up returns, or run() does  *)
(* first: the counts of both wait groups come down to zero, whoever binds, *)
(* stops, waits or gives up waiting meanwhile.                             *)
StopReturns == \A k \in Callers :
  (caller[k] = "waiting" /\ close_tx # awaits[k]) ~> (caller[k] # "waiting" \/ ended)
=============================================================================
