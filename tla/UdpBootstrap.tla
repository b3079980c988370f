---------------------------- MODULE UdpBootstrap ----------------------------
(***************************************************************************)
(* A UDP bootstrap in detail (src/bootstrap/bootstrap_udp), as Server is   *)
(* of a TCP server.  A client's bind only stores a socket, and connect     *)
(* takes it out for the task that it spawns; a server's bind does both.    *)
(* There is one task per generation, which runs UdpConnection for all      *)
(* peers.  bind and connect borrow the bootstrap mutably: nobody may wait  *)
(* on it then.                                                             *)
(***************************************************************************)
EXTENDS StopControl

VARIABLES
  role,      \* it is a BootstrapUdpClient or a BootstrapUdpServer
  socket,    \* there is a socket in the bootstrap
  udp_task,  \* the task of each generation
  udp_callback  \* the latest callback the handlers of each generation have seen

udptasks == <<udp_task, udp_callback>>
udpvars == <<control, role, socket, udptasks>>

(* Every variable stays in its range. *)
UdpTypeOK ==
  /\ ControlTypeOK
  /\ role \in {"client", "server"} /\ socket \in BOOLEAN
  /\ udp_task \in [Generations -> {"unborn", "spawned", "running", "leaving", "done"}]
  /\ udp_callback \in [Generations -> {"none", "active", "read", "eof", "inactive"}]

UdpInit ==
  /\ ControlInit
  /\ role \in {"client", "server"} /\ socket = FALSE
  /\ udp_task = [g \in Generations |-> "unborn"]
  /\ udp_callback = [g \in Generations |-> "none"]

-----------------------------------------------------------------------------
(* The calls that borrow the bootstrap mutably; those of a bind that fails *)
(* change nothing.                                                         *)
Borrowable == ~ended /\ \A k \in Callers : caller[k] # "waiting"

(* A client's bind: the socket in the bootstrap, if any, is replaced. *)
UdpBind ==
  /\ Borrowable /\ role = "client"
  /\ socket' = TRUE
  /\ UNCHANGED <<control, role, udptasks>>

(* The rest of connect once it has a socket: a new generation and a task. *)
Spawn ==
  /\ Renew /\ udp_task' = [udp_task EXCEPT ![opened + 1] = "spawned"]
  /\ UNCHANGED <<role, udp_callback>>

Connect == Borrowable /\ role = "client" /\ socket /\ socket' = FALSE /\ Spawn

\* Mutant: the new channel is stored before the error is found.
ConnectFailsLate ==
  /\ Borrowable /\ role = "client" /\ socket /\ opened < MaxOpens
  /\ socket' = FALSE
  /\ close_tx' = opened + 1 /\ sender' = [g \in Generations |-> sender[g] /\ g # close_tx]
  /\ UNCHANGED <<opened, message, wg, workers, callers, ended, role, udptasks>>

(* local_addr() answers an error: the socket is closed, the rest stays. *)
ConnectFails ==
  /\ Borrowable /\ role = "client" /\ socket
  /\ socket' = FALSE
  /\ UNCHANGED <<control, role, udptasks>>

(* unwrap() of no socket: the panic unwinds out of run(). *)
ConnectPanics ==
  /\ Borrowable /\ role = "client" /\ ~socket
  /\ ended' = TRUE
  /\ UNCHANGED <<opened, channel, wg, workers, callers, role, socket, udptasks>>

(* A server's bind stores the socket and takes it again; between the two   *)
(* nothing awaits.                                                         *)
ServerBind == Borrowable /\ role = "server" /\ Spawn /\ UNCHANGED socket

UdpCalls == Call /\ UNCHANGED <<role, socket, udptasks>>

-----------------------------------------------------------------------------
(* The task.  The handlers are told, and it goes on as "next". *)
Told(g, what, next) ==
  /\ udp_task' = [udp_task EXCEPT ![g] = next] /\ udp_callback' = [udp_callback EXCEPT ![g] = what]
  /\ UNCHANGED <<role, socket>>

\* Mutant: "let _ = worker" drops the worker where it stands.
TaskStartsWithout(g) ==
  ~ended /\ udp_task[g] = "spawned" /\ Told(g, "active", "running") /\ DropsWorker(g)

TaskStarts(g) ==
  ~ended /\ udp_task[g] = "spawned" /\ Told(g, "active", "running") /\ UNCHANGED control

(* A read or a timeout; after a recv of nothing the loop ends. *)
TaskReads(g) ==
  /\ ~ended /\ udp_task[g] = "running"
  /\ Told(g, "read", "running") \/ Told(g, "eof", "leaving")
  /\ UNCHANGED control

(* The loop is over (eof, a recv error, or the close channel): the         *)
(* handlers are told transport_inactive, then the worker is dropped.       *)
TaskLeaves(g) ==
  ~ended /\ udp_task[g] \in {"running", "leaving"} /\ Told(g, "inactive", "done") /\ DropsWorker(g)
TaskCloses(g) ==
  ~ended /\ udp_task[g] = "running" /\ Received(g) /\ Told(g, "inactive", "done") /\ DropsWorker(g)

UdpNext ==
  \/ UdpBind \/ Connect \/ ConnectFails \/ ConnectPanics \/ ServerBind \/ UdpCalls
  \/ \E g \in Generations : TaskStarts(g) \/ TaskReads(g) \/ TaskLeaves(g) \/ TaskCloses(g)

UdpSpec == UdpInit /\ [][UdpNext]_udpvars

-----------------------------------------------------------------------------
(* Properties *)

(* Whatever becomes of its sockets and calls, the UDP bootstrap starts and *)
(* stops tasks as Bootstrap says: a channel is closed when it has its      *)
(* message or no sender, a task is gone when its worker is, and a connect  *)
(* that fails leaves those that run alone (bootstrap_udp/mod.rs:47-74).    *)
UB == INSTANCE Bootstrap WITH
  Role <- "client", Conns <- {},
  closed <- [g \in Generations |-> g <= opened /\ Received(g)],
  root <- [g \in Generations |-> IF g > opened THEN "unborn"
                                 ELSE IF workers[g] = 0 THEN "gone" ELSE "connected"],
  child <- [c \in {} |-> "unborn"], gen <- [c \in {} |-> None]

UdpRefinesBootstrap == UB!Spec

(* No task is out of reach: as long as a sender of its channel lives and   *)
(* nothing was sent the bootstrap holds that sender, so stop() ends it,    *)
(* however often connect is called and fails (bootstrap_udp/mod.rs:51-62). *)
Stoppable == UB!Stoppable

(* A stop that took a wait group returns after the handlers of the task    *)
(* have seen transport_inactive: the worker lives as long as the task      *)
(* (let _w, bootstrap_udp/mod.rs:77), whichever way the task ends and      *)
(* however often the application stops, waits and connects again.          *)
UdpHandlersTold ==
  \A k \in Callers : caller[k] = "returned" /\ awaits[k] # None =>
    udp_callback[awaits[k]] = "inactive" /\ udp_task[awaits[k]] = "done"
=============================================================================
