----------------------------- MODULE Bootstrap ------------------------------
(***************************************************************************)
(* Starting and stopping a bootstrap: Bootstrap<W> (src/bootstrap/mod.rs)  *)
(* and the tasks that bind and connect spawn (src/bootstrap/bootstrap_tcp  *)
(* and bootstrap_udp).                                                     *)
(*                                                                         *)
(* Each bind or connect opens a generation: a close channel, a wait group  *)
(* and a root task, which is the accept loop of a TCP server or the one    *)
(* connection of any other bootstrap.  An accept loop has children, one    *)
(* task per accepted socket (each runs TcpConnection).  The bootstrap      *)
(* keeps the sender and the wait group of the latest generation only.      *)
(*                                                                         *)
(* stop() does not suspend, and wait_for_stop() takes the wait group       *)
(* before it does, so each is one step up to the wait.  A caller may drop  *)
(* the future it waits on (a timeout around graceful_stop).                *)
(***************************************************************************)
EXTENDS Opens

CONSTANTS
  Role,      \* "server": bind spawns an accept loop; "client": connect spawns a connection
  Conns      \* the sockets that may be accepted

VARIABLES
  opened,     \* number of generations opened so far
  close_tx,   \* the generation whose sender the bootstrap keeps
  wg,         \* the generation whose wait group the bootstrap keeps
  closed,     \* closed[g]: receivers of g see a message or the end of the channel
  root,       \* root[g]: the root task of g
  child, gen, \* the task of each socket, and the generation that accepted it
  caller, awaits  \* what each caller does, the wait group it took last

tasks == <<root, child, gen>>
callers == <<caller, awaits>>
vars == <<opened, close_tx, wg, closed, tasks, callers>>

(* Every variable stays in its range, and a running connection was         *)
(* accepted by a generation (it holds a child worker of that loop).        *)
TypeOK ==
  /\ opened \in 0 .. MaxOpens
  /\ close_tx \in Generations \cup {None} /\ wg \in Generations \cup {None}
  /\ closed \in [Generations -> BOOLEAN]
  /\ root \in [Generations -> {"unborn", "accepting", "draining", "connected", "gone"}]
  /\ child \in [Conns -> {"unborn", "running", "done"}]
  /\ gen \in [Conns -> Generations \cup {None}]
  /\ \A c \in Conns : child[c] = "running" => gen[c] # None
  /\ caller \in [Callers -> {"free", "waiting", "returned"}]
  /\ awaits \in [Callers -> Generations \cup {None}]

Init ==
  /\ opened = 0 /\ close_tx = None /\ wg = None
  /\ closed = [g \in Generations |-> FALSE]
  /\ root = [g \in Generations |-> "unborn"]
  /\ child = [c \in Conns |-> "unborn"] /\ gen = [c \in Conns |-> None]
  /\ caller = [k \in Callers |-> "free"] /\ awaits = [k \in Callers |-> None]

-----------------------------------------------------------------------------
(* The channel of generation g closes, if there is one: the sender sends   *)
(* its message, or is dropped.                                             *)
Close(g) == closed' = [h \in Generations |-> closed[h] \/ h = g]

(* bind and connect, from where the socket is there (a failure changes     *)
(* nothing).  Storing the new sender drops the old one.  connect borrows   *)
(* the bootstrap mutably: no caller may be waiting on it.                  *)
Open ==
  /\ opened < MaxOpens /\ (Role = "client" => \A k \in Callers : caller[k] # "waiting")
  /\ opened' = opened + 1
  /\ Close(close_tx) /\ close_tx' = opened + 1
  /\ wg' = opened + 1
  /\ root' = [root EXCEPT ![opened + 1] = IF Role = "server" THEN "accepting" ELSE "connected"]
  /\ UNCHANGED <<child, gen, callers>>

(* stop(): take the sender, send, drop it; to the tasks, dropping the      *)
(* bootstrap is the same.                                                  *)
Signal == Close(close_tx) /\ close_tx' = None

(* wait_for_stop(): take the wait group; without one, return. *)
Await(k) ==
  /\ caller[k] # "waiting"
  /\ wg' = None
  /\ caller' = [caller EXCEPT ![k] = IF wg = None THEN "returned" ELSE "waiting"]
  /\ awaits' = [awaits EXCEPT ![k] = wg]

Stop == Signal /\ UNCHANGED <<opened, wg, tasks, callers>>

WaitForStop(k) == Await(k) /\ UNCHANGED <<opened, close_tx, closed, tasks>>

GracefulStop(k) == Signal /\ Await(k) /\ UNCHANGED <<opened, tasks>>

(* wg.wait() ends when the worker of the root task is dropped. *)
Return(k) ==
  /\ caller[k] = "waiting" /\ root[awaits[k]] = "gone"
  /\ caller' = [caller EXCEPT ![k] = "returned"]
  /\ UNCHANGED <<opened, close_tx, wg, closed, tasks, awaits>>

(* The caller drops the future; the wait group it took is dropped with it. *)
Cancel(k) ==
  /\ caller[k] = "waiting"
  /\ caller' = [caller EXCEPT ![k] = "free"] /\ awaits' = [awaits EXCEPT ![k] = None]
  /\ UNCHANGED <<opened, close_tx, wg, closed, tasks>>

-----------------------------------------------------------------------------
(* The accept loop.  select! may accept although the channel is closed;    *)
(* the child's receiver is a clone and sees that the channel is closed.    *)
Accept(g, c) ==
  /\ root[g] = "accepting" /\ child[c] = "unborn"
  /\ child' = [child EXCEPT ![c] = "running"] /\ gen' = [gen EXCEPT ![c] = g]
  /\ UNCHANGED <<opened, close_tx, wg, closed, root, callers>>

RootCloses(g) ==
  /\ root[g] = "accepting" /\ closed[g]
  /\ root' = [root EXCEPT ![g] = "draining"]
  /\ UNCHANGED <<opened, close_tx, wg, closed, child, gen, callers>>

(* accept() fails: the loop ends, nobody is told. *)
AcceptFails(g) ==
  /\ root[g] = "accepting"
  /\ root' = [root EXCEPT ![g] = "draining"]
  /\ UNCHANGED <<opened, close_tx, wg, closed, child, gen, callers>>

(* child_wg.wait(), then the worker of the generation is dropped. *)
RootDrained(g) ==
  /\ root[g] = "draining"
  /\ \A c \in Conns : child[c] = "running" => gen[c] # g
  /\ root' = [root EXCEPT ![g] = "gone"]
  /\ UNCHANGED <<opened, close_tx, wg, closed, child, gen, callers>>

(* A connection ends because the channel is closed, or (Leaves) because of *)
(* its socket; its worker is dropped after transport_inactive.             *)
ChildGone(c) == child' = [child EXCEPT ![c] = "done"]
                /\ UNCHANGED <<opened, close_tx, wg, closed, root, gen, callers>>
RootGone(g) == root' = [root EXCEPT ![g] = "gone"]
               /\ UNCHANGED <<opened, close_tx, wg, closed, child, gen, callers>>

ChildCloses(c) == child[c] = "running" /\ closed[gen[c]] /\ ChildGone(c)
ChildLeaves(c) == child[c] = "running" /\ ChildGone(c)
ConnectionCloses(g) == root[g] = "connected" /\ closed[g] /\ RootGone(g)
ConnectionLeaves(g) == root[g] = "connected" /\ RootGone(g)

Next ==
  \/ Open \/ Stop
  \/ \E k \in Callers : WaitForStop(k) \/ GracefulStop(k) \/ Return(k) \/ Cancel(k)
  \/ \E g \in Generations : \/ \E c \in Conns : Accept(g, c)
                            \/ RootCloses(g) \/ AcceptFails(g) \/ RootDrained(g)
                            \/ ConnectionCloses(g) \/ ConnectionLeaves(g)
  \/ \E c \in Conns : ChildCloses(c) \/ ChildLeaves(c)

Spec == Init /\ [][Next]_vars

-----------------------------------------------------------------------------
(* Properties *)

(* No generation is out of reach: as long as the channel of a generation   *)
(* is open the bootstrap holds its sender, so stop() ends it; bind over a  *)
(* running server leaves no accept loop that nobody can stop.              *)
Stoppable == \A g \in Generations : g <= opened /\ ~closed[g] => close_tx = g

(* A connection lives only while the accept loop that spawned it waits for *)
(* it, those accepted after the stop and after a rebind included.          *)
NoOrphans ==
  \A c \in Conns : child[c] = "running" => root[gen[c]] \in {"accepting", "draining"}

(* A caller that took a wait group returns only after every task of that   *)
(* generation is gone and has told its handlers so.                        *)
WaitMeansGone ==
  \A k \in Callers : caller[k] = "returned" /\ awaits[k] # None =>
    /\ root[awaits[k]] = "gone"
    /\ \A c \in Conns : child[c] = "running" => gen[c] # awaits[k]
=============================================================================
