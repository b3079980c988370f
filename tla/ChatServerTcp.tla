--------------------------- MODULE ChatServerTcp ----------------------------
(***************************************************************************)
(* The chat server over TCP (examples/chat_server_tcp.rs): one connection  *)
(* task (TcpConnection) and one ChatHandler per accepted socket, and the   *)
(* map Shared.peers through which a handler writes to the pipelines of the *)
(* others.                                                                 *)
(*                                                                         *)
(* All tasks share one thread and every state of "phase" is one in which   *)
(* the task awaits, so each step is a task's way from one await to the     *)
(* next.  The lines a handler gets are numbered in the order in which they *)
(* are handled.                                                            *)
(***************************************************************************)
EXTENDS ExampleTask

CONSTANTS
  Addrs,     \* the addresses of the peers
  Conns,     \* the accepted sockets
  MaxLines,  \* bound: number of lines the peers ever send
  None

ASSUME ChatAssumption == MaxLines \in Nat /\ None \notin Conns /\ None \notin Addrs

VARIABLES
  peers,      \* Shared.peers: whose pipeline is kept under an address
  addr,       \* the address of the peer of each socket
  peer_addr,  \* the field of each ChatHandler
  remote,     \* the other end of each socket
  inbox,      \* number of lines received and not read
  closing,    \* the bootstrap has been stopped
  (* history *)
  typed,      \* number of lines the peers sent
  lines,      \* the socket each handled line came from
  joined      \* number of the line with which a handler joined

shared == <<peers, peer_addr, lines, joined>>
network == <<addr, remote, inbox, typed>>
vars == <<shared, network, phase, transmits, closing, sent>>

(* Every variable stays in its range, and a task waits in socket.write     *)
(* only with a message.                                                    *)
TypeOK ==
  /\ peers \in [Addrs -> Conns \cup {None}]
  /\ addr \in [Conns -> Addrs \cup {None}] /\ peer_addr \in [Conns -> Addrs \cup {None}]
  /\ phase \in [Conns -> {"unborn", "start", "select", "write", "done"}]
  /\ transmits \in [Conns -> Seq(Nat)] /\ sent \in [Conns -> Seq(Nat)]
  /\ \A c \in Conns : phase[c] = "write" => transmits[c] # <<>>
  /\ remote \in [Conns -> {"up", "closed", "reset"}]
  /\ inbox \in [Conns -> Nat] /\ typed \in 0 .. MaxLines /\ closing \in BOOLEAN
  /\ lines \in Seq(Conns) /\ joined \in [Conns -> Nat]

Init ==
  /\ peers = [p \in Addrs |-> None]
  /\ addr = [c \in Conns |-> None] /\ peer_addr = [c \in Conns |-> None]
  /\ phase = [c \in Conns |-> "unborn"]
  /\ transmits = [c \in Conns |-> <<>>] /\ sent = [c \in Conns |-> <<>>]
  /\ remote = [c \in Conns |-> "up"] /\ inbox = [c \in Conns |-> 0] /\ typed = 0
  /\ closing = FALSE /\ lines = <<>> /\ joined = [c \in Conns |-> 0]

-----------------------------------------------------------------------------
(* A task whose handlers have run drains its queue, then waits in select!. *)
(* The others stay where they await: a write wakes nobody.                 *)
Proceed(c) == phase' = [phase EXCEPT ![c] = IF transmits'[c] = <<>> THEN "select" ELSE "write"]

(* The task is over; its pipeline, and all that is in its queue, goes.     *)
End(c) == phase' = [phase EXCEPT ![c] = "done"] /\ transmits' = [transmits EXCEPT ![c] = <<>>]
Alive(c) == phase[c] \notin {"unborn", "done"}

(* An address is free again when the socket before is closed or was reset. *)
Accept(c, p) ==
  /\ phase[c] = "unborn" /\ ~closing
  /\ \A d \in Conns : addr[d] = p => phase[d] = "done" \/ remote[d] = "reset"
  /\ phase' = [phase EXCEPT ![c] = "start"] /\ addr' = [addr EXCEPT ![c] = p]
  /\ UNCHANGED <<shared, remote, inbox, typed, transmits, closing, sent>>

(* transport_active; the task may fail to learn the addresses. *)
Start(c) ==
  /\ phase[c] = "start"
  /\ phase' = [phase EXCEPT ![c] = "select"] \/ phase' = [phase EXCEPT ![c] = "done"]
  /\ UNCHANGED <<shared, network, transmits, closing, sent>>

-----------------------------------------------------------------------------
(* Shared *)
contains(p) == peers[p] # None

\* Mutant: the sender is told too.
AudienceEchoes(map, sender) == {map[p] : p \in {q \in Addrs : map[q] # None /\ Alive(map[q])}}

(* The pipelines that take a line of sender: those of the others that can  *)
(* still be upgraded.                                                      *)
Audience(map, sender) == {map[p] : p \in {q \in Addrs : q # sender /\ map[q] # None /\ Alive(map[q])}}

broadcast(c, n) ==
  /\ lines' = lines \o [i \in 1 .. n |-> c]
  /\ transmits' = [d \in Conns |->
       IF d \in Audience(peers', addr[c]) THEN transmits[d] \o [i \in 1 .. n |-> Len(lines) + i]
                                          ELSE transmits[d]]

\* Mutant: a handler joins whenever it reads.
HandleReadJoins(c, n) ==
  /\ peers' = [peers EXCEPT ![addr[c]] = c] /\ peer_addr' = [peer_addr EXCEPT ![c] = addr[c]]
  /\ joined' = [joined EXCEPT ![c] = IF @ = 0 THEN Len(lines) + 1 ELSE @]
  /\ broadcast(c, n)

(* handle_read of a ChatHandler, n times: join unless the address is       *)
(* known, then broadcast.                                                  *)
HandleRead(c, n) ==
  /\ IF contains(addr[c])
       THEN UNCHANGED <<peers, peer_addr, joined>>
       ELSE /\ peers' = [peers EXCEPT ![addr[c]] = c] /\ peer_addr' = [peer_addr EXCEPT ![c] = addr[c]]
            /\ joined' = [joined EXCEPT ![c] = Len(lines) + 1]
  /\ broadcast(c, n)

(* A read brings one line or more, each a handle_read. *)
ReadBranch(c) ==
  /\ phase[c] = "select"
  /\ \E n \in 1 .. inbox[c] : HandleRead(c, n) /\ inbox' = [inbox EXCEPT ![c] = @ - n]
  /\ Proceed(c)
  /\ UNCHANGED <<addr, remote, typed, closing, sent>>

(* handle_read_eof: leave, if the handler ever joined; the task ends. *)
EofBranch(c) ==
  /\ phase[c] = "select" /\ remote[c] \in {"closed", "reset"} /\ inbox[c] = 0
  /\ peers' = IF peer_addr[c] = None THEN peers ELSE [peers EXCEPT ![peer_addr[c]] = None]
  /\ End(c)
  /\ UNCHANGED <<peer_addr, lines, joined, network, closing, sent>>

(* A read error, or stop(): the task ends, its handler does not leave. *)
Dropped(c) ==
  /\ phase[c] = "select" /\ (remote[c] = "reset" \/ closing)
  /\ End(c)
  /\ UNCHANGED <<shared, network, closing, sent>>

(* socket.write returns; on an error the loop ends with what is left. *)
Write(c) ==
  /\ phase[c] = "write"
  /\ sent' = [sent EXCEPT ![c] = Append(@, Head(transmits[c]))]
  /\ transmits' = [transmits EXCEPT ![c] = Tail(@)]
  /\ IF remote[c] = "reset" THEN phase' = [phase EXCEPT ![c] = "select"] ELSE Proceed(c)
  /\ UNCHANGED <<shared, network, closing>>

(* Nobody here wants a timeout, so the timer wakes the task after a day. *)
Day(c) ==
  /\ phase[c] = "select"
  /\ UNCHANGED transmits /\ Proceed(c)
  /\ UNCHANGED <<shared, network, closing, sent>>

-----------------------------------------------------------------------------
(* The peers and the application. *)
Type(c) ==
  /\ addr[c] # None /\ remote[c] = "up" /\ typed < MaxLines
  /\ typed' = typed + 1 /\ inbox' = [inbox EXCEPT ![c] = @ + 1]
  /\ UNCHANGED <<shared, addr, remote, phase, transmits, closing, sent>>

Hangup(c) ==
  /\ addr[c] # None
  /\ \/ remote[c] = "up" /\ remote' = [remote EXCEPT ![c] = "closed"]
     \/ remote[c] # "reset" /\ remote' = [remote EXCEPT ![c] = "reset"]
  /\ UNCHANGED <<shared, addr, inbox, typed, phase, transmits, closing, sent>>

Stop == ~closing /\ closing' = TRUE /\ UNCHANGED <<shared, network, phase, transmits, sent>>

Task(c) == Start(c) \/ ReadBranch(c) \/ EofBranch(c) \/ Dropped(c) \/ Write(c) \/ Day(c)

Next ==
  \/ \E c \in Conns : Task(c) \/ Type(c) \/ Hangup(c) \/ (\E p \in Addrs : Accept(c, p))
  \/ Stop

Spec == Init /\ [][Next]_vars

-----------------------------------------------------------------------------
(* Properties *)

(* Who has an entry and who thinks so agree: an address is kept for the    *)
(* handler that joined with it, and a handler that joined and runs has its *)
(* entry, so leave() never removes the entry of another connection, also   *)
(* if a peer comes back from the same address before its old socket is     *)
(* found dead (lines 111, 131); and every variable stays in its range.     *)
Entries ==
  /\ TypeOK
  /\ \A p \in Addrs : peers[p] # None => peer_addr[peers[p]] = p
  /\ \A c \in Conns : Alive(c) /\ peer_addr[c] # None => peers[peer_addr[c]] = c

(* A member hears every line that is handled after it joined, except its   *)
(* own, each once and in the order they were handled, whoever comes and    *)
(* goes meanwhile (line 48): all members see the same conversation.        *)
MembersHear ==
  \A c \in Conns : Alive(c) /\ peer_addr[c] # None =>
    LET heard == sent[c] \o transmits[c]
    IN  /\ \A j, k \in DOMAIN heard : j < k => heard[j] < heard[k]
        /\ ToSet(heard) = {i \in DOMAIN lines : i >= joined[c] /\ addr[lines[i]] # addr[c]}
=============================================================================
