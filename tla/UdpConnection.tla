--------------------------- MODULE UdpConnection ----------------------------
(***************************************************************************)
(* The task that owns one UDP socket, a client's or a server's: the loop   *)
(* that BootstrapUdp::connect spawns (src/bootstrap/bootstrap_udp/mod.rs). *)
(* One pipeline serves all peers of the socket.                            *)
(*                                                                         *)
(* As in TcpConnection the task gives up the thread where it awaits only:  *)
(* before its first poll ("start"), in socket.send ("send"), in select!    *)
(* ("select") and when it is over.  A recv fills up to BatchSize buffers;  *)
(* the reads of a batch follow each other without an await.                *)
(*                                                                         *)
(* Handlers may write and choose a deadline in every callback.  A message  *)
(* they write is its number; of a datagram it only matters if it is empty. *)
(* The kernel may coalesce datagrams of one sender into a buffer; as       *)
(* senders are left out, any neighbours may be.                            *)
(***************************************************************************)
EXTENDS Integers, Sequences, SequencesExt

CONSTANTS
  MaxWrites,   \* bound: number of messages ever written
  MaxArrivals, \* bound: number of datagrams that ever arrive
  SendBuf,     \* datagrams the send buffer of the socket holds
  BatchSize,   \* BATCH_SIZE: buffers filled by one recv
  GroSegments, \* gro_segments(): datagrams the kernel may coalesce into a buffer
  AppWrites,   \* the application has the pipeline: connect returns it, a server's bind does not
  Rearm,       \* the deadlines the handlers choose
  None

Messages == 1 .. MaxWrites
Deadlines == {"none", "armed", "due"}   \* no timeout wanted, in the future, already past

ASSUME UdpAssumption ==
  /\ MaxWrites \in Nat /\ MaxArrivals \in Nat /\ None \notin Nat
  /\ SendBuf \in Nat \ {0} /\ BatchSize \in Nat \ {0} /\ GroSegments \in Nat \ {0}
  /\ AppWrites \in BOOLEAN /\ Rearm \subseteq Deadlines /\ Rearm # {}

VARIABLES
  pc,         \* where the task is
  transmits,  \* the pipeline's queue of written messages
  current,    \* the message that socket.send is sending
  credit,     \* free places in the send buffer
  inbox,      \* datagrams received and not read, by their numbers
  metas,      \* metas[k]: the datagrams in the k-th buffer, since it was filled last
  pending,    \* the next send or recv will report an error
  deadline,   \* the earliest deadline of the handlers, as poll_timeout answers
  closing,    \* the close channel has a message, or its sender is dropped
  (* history *)
  callback,   \* the latest callback the handlers saw
  wire,       \* the messages given to socket.send that has returned, and if it sent them
  written,    \* number of messages written
  arrived,    \* of each datagram that arrived: if it is empty
  delivered   \* the datagrams the handlers got

queue == <<transmits, written>>
socket == <<credit, inbox, pending, arrived>>
reads == <<metas, delivered>>
vars == <<pc, queue, current, socket, reads, deadline, closing, callback, wire>>

Smaller(a, b) == IF a < b THEN a ELSE b

(* Every variable stays in its range; a message is in socket.send exactly  *)
(* while the task waits there.                                             *)
TypeOK ==
  /\ pc \in {"start", "turn", "timers", "send", "select", "leave", "done"}
  /\ transmits \in Seq(Messages) /\ written \in 0 .. MaxWrites
  /\ current \in Messages \cup {None} /\ (current # None <=> pc = "send")
  /\ credit \in 0 .. SendBuf /\ pending \in BOOLEAN
  /\ arrived \in Seq(BOOLEAN) /\ Len(arrived) <= MaxArrivals
  /\ inbox \in Seq(1 .. Len(arrived)) /\ delivered \in Seq(1 .. Len(arrived))
  /\ metas \in [1 .. BatchSize -> Seq(1 .. Len(arrived))]
  /\ deadline \in Deadlines /\ closing \in BOOLEAN
  /\ callback \in {"none", "active", "read", "timeout", "eof", "inactive"}
  /\ wire \in Seq([msg : Messages, ok : BOOLEAN])

Init ==
  /\ pc = "start" /\ transmits = <<>> /\ written = 0 /\ current = None
  /\ credit = SendBuf /\ inbox = <<>> /\ pending = FALSE /\ arrived = <<>>
  /\ metas = [k \in 1 .. BatchSize |-> <<>>] /\ delivered = <<>>
  /\ deadline = "none" /\ closing = FALSE /\ callback = "none" /\ wire = <<>>

-----------------------------------------------------------------------------
(* Pipeline::write appends to the queue and wakes nobody; here at most n   *)
(* times in a row.                                                         *)
Push(n) == \E w \in 0 .. Smaller(n, MaxWrites - written) :
  /\ written' = written + w
  /\ transmits' = transmits \o [i \in 1 .. w |-> written + i]

(* A callback into the pipeline: its handlers may write and rearm. *)
Callback(e, deadlines) == callback' = e /\ deadline' \in deadlines /\ Push(1)

Start ==
  /\ pc = "start"
  /\ pc' = "turn" /\ Callback("active", Rearm \cup {deadline})
  /\ UNCHANGED <<current, socket, reads, closing, wire>>

(* while let Some(msg) = pipeline.poll_transmit() *)
PollTransmit ==
  /\ pc = "turn" /\ transmits # <<>>
  /\ pc' = "send" /\ current' = Head(transmits) /\ transmits' = Tail(transmits)
  /\ UNCHANGED <<written, socket, reads, deadline, closing, callback, wire>>

Drained ==
  /\ pc = "turn" /\ transmits = <<>>
  /\ pc' = "timers"
  /\ UNCHANGED <<queue, current, socket, reads, deadline, closing, callback, wire>>

(* socket.send(..).await waits while the send buffer is full. *)
SendOk ==
  /\ pc = "send" /\ credit > 0
  /\ credit' = credit - 1 /\ wire' = Append(wire, [msg |-> current, ok |-> TRUE])
  /\ pc' = "turn" /\ current' = None
  /\ UNCHANGED <<queue, inbox, pending, arrived, reads, deadline, closing, callback>>

(* On an error the inner loop ends: the message is gone, and the queue     *)
(* stays as it is, whoever its messages are for.                           *)
SendError ==
  /\ pc = "send" /\ pending
  /\ pending' = FALSE /\ wire' = Append(wire, [msg |-> current, ok |-> FALSE])
  /\ pc' = "timers" /\ current' = None
  /\ UNCHANGED <<queue, credit, inbox, arrived, reads, deadline, closing, callback>>

(* poll_timeout answered a deadline that is past: handle_timeout, continue. *)
Expired ==
  /\ pc = "timers" /\ deadline = "due"
  /\ pc' = "turn" /\ Callback("timeout", Rearm)
  /\ UNCHANGED <<current, socket, reads, closing, wire>>

Wait ==
  /\ pc = "timers" /\ deadline # "due"
  /\ pc' = "select"
  /\ UNCHANGED <<queue, current, socket, reads, deadline, closing, callback, wire>>

-----------------------------------------------------------------------------
(* The branches of tokio::select!; it takes any one that is ready. *)

\* Mutant: the message is received and the loop goes on.
CloseBranchContinues ==
  /\ pc = "select" /\ closing
  /\ pc' = "turn"
  /\ UNCHANGED <<queue, current, socket, reads, deadline, closing, callback, wire>>

CloseBranch ==
  /\ pc = "select" /\ closing
  /\ pc' = "leave"
  /\ UNCHANGED <<queue, current, socket, reads, deadline, closing, callback, wire>>

(* The timer is set to the earliest deadline, or to a day. *)
TimerBranch ==
  /\ pc = "select" /\ deadline \in {"due", "none"}
  /\ pc' = "turn" /\ Callback("timeout", Rearm)
  /\ UNCHANGED <<current, socket, reads, closing, wire>>

(* What recv may do: it moves the head of the inbox into the first n       *)
(* buffers, the k-th one up to ends[k], and leaves the others as they are; *)
(* a buffer takes one datagram, or several that are not empty.             *)
Coalesced(d) ==
  /\ Len(d) \in 1 .. GroSegments
  /\ Len(d) > 1 => \A i \in DOMAIN d : ~arrived[d[i]]
Cuts(n) == {ends \in [0 .. n -> 0 .. Len(inbox)] :
              ends[0] = 0 /\ \A k \in 1 .. n : ends[k - 1] < ends[k]}
Piece(ends, k) == SubSeq(inbox, ends[k - 1] + 1, ends[k])
Filled(n, ends) ==
  /\ \A k \in 1 .. n : Coalesced(Piece(ends, k))
  /\ metas' = [k \in 1 .. BatchSize |-> IF k <= n THEN Piece(ends, k) ELSE metas[k]]
  /\ inbox' = SubSeq(inbox, ends[n] + 1, Len(inbox))

(* A buffer is one message; an empty one is not passed on. *)
Full(d) == \E i \in DOMAIN d : ~arrived[d[i]]

(* pipeline.read for each of the first n buffers that is not empty. *)
FullMetas(n) == {k \in 1 .. n : Full(metas'[k])}
Read(n) ==
  /\ delivered' = delivered \o FlattenSeq([k \in 1 .. n |-> IF k \in FullMetas(n) THEN metas'[k] ELSE <<>>])
  /\ callback' = IF FullMetas(n) = {} THEN callback ELSE "read"
  /\ Push(Cardinality(FullMetas(n)))
  /\ deadline' \in {deadline} \cup (IF FullMetas(n) = {} THEN {} ELSE Rearm)

\* Mutants: all metas are taken, not only the n that recv filled; the socket
\* is read only if no handler has a deadline.
RecvBranchTakesAll ==
  /\ pc = "select" /\ inbox # <<>>
  /\ \E n \in 1 .. BatchSize : \E ends \in Cuts(n) : Filled(n, ends) /\ Read(BatchSize)
  /\ pc' = "turn"
  /\ UNCHANGED <<current, credit, pending, arrived, closing, wire>>
RecvBranchIfIdle ==
  /\ pc = "select" /\ inbox # <<>> /\ deadline = "none"
  /\ \E n \in 1 .. BatchSize : \E ends \in Cuts(n) : Filled(n, ends) /\ Read(n)
  /\ pc' = "turn"
  /\ UNCHANGED <<current, credit, pending, arrived, closing, wire>>

(* Ok(n): the n messages, except the empty ones. *)
RecvBranch ==
  /\ pc = "select" /\ inbox # <<>>
  /\ \E n \in 1 .. BatchSize : \E ends \in Cuts(n) : Filled(n, ends) /\ Read(n)
  /\ pc' = "turn"
  /\ UNCHANGED <<current, credit, pending, arrived, closing, wire>>

\* Mutant: after an end of file the loop goes on.
ZeroBranchContinues ==
  /\ pc = "select"
  /\ pc' = "turn" /\ Callback("eof", Rearm \cup {deadline})
  /\ UNCHANGED <<current, socket, reads, closing, wire>>

(* Ok(0): recv does not say when it answers that; the loop takes it for an *)
(* end of file and stops serving all peers.                                *)
ZeroBranch ==
  /\ pc = "select"
  /\ pc' = "leave" /\ Callback("eof", Rearm \cup {deadline})
  /\ UNCHANGED <<current, socket, reads, closing, wire>>

(* Err: the loop ends, for all peers; the handlers get no exception. *)
RecvError ==
  /\ pc = "select" /\ pending
  /\ pending' = FALSE /\ pc' = "leave"
  /\ UNCHANGED <<queue, current, credit, inbox, arrived, reads, deadline, closing, callback, wire>>

Leave ==
  /\ pc = "leave"
  /\ pc' = "done" /\ Callback("inactive", Rearm \cup {deadline})
  /\ UNCHANGED <<current, socket, reads, closing, wire>>

Task == \/ Start \/ PollTransmit \/ Drained \/ SendOk \/ SendError \/ Expired \/ Wait
        \/ CloseBranch \/ TimerBranch \/ RecvBranch \/ ZeroBranch \/ RecvError \/ Leave

-----------------------------------------------------------------------------
(* The application writes to the pipeline connect() returned, and stops    *)
(* the bootstrap or drops it.                                              *)
Awaiting == pc \in {"start", "send", "select", "done"}

AppWrite ==
  /\ AppWrites /\ Awaiting /\ written < MaxWrites
  /\ written' = written + 1 /\ transmits' = Append(transmits, written + 1)
  /\ UNCHANGED <<pc, current, socket, reads, deadline, closing, callback, wire>>

Stop == /\ Awaiting /\ ~closing
        /\ closing' = TRUE
        /\ UNCHANGED <<pc, queue, current, socket, reads, deadline, callback, wire>>

(* The network: datagrams that get here, in any order; those that are lost *)
(* leave no trace.  An error is one of the socket, or the answer to a      *)
(* datagram that could not be delivered to its peer.                       *)
Arrive(e) ==
  /\ Len(arrived) < MaxArrivals
  /\ arrived' = Append(arrived, e)
  /\ inbox' = Append(inbox, Len(arrived) + 1)
  /\ UNCHANGED <<pc, queue, current, credit, pending, reads, deadline, closing, callback, wire>>

Trouble == /\ ~pending /\ pending' = TRUE
           /\ UNCHANGED <<pc, queue, current, credit, inbox, arrived, reads, deadline, closing, callback, wire>>

(* The kernel sends what is in the buffer, no peer can prevent that. *)
KernelSends == /\ credit < SendBuf /\ credit' = credit + 1
               /\ UNCHANGED <<pc, queue, current, inbox, pending, arrived, reads, deadline, closing, callback, wire>>

TimePasses == /\ deadline = "armed" /\ deadline' = "due"
              /\ UNCHANGED <<pc, queue, current, socket, reads, closing, callback, wire>>

Others == \/ AppWrite \/ Stop \/ Trouble \/ KernelSends
          \/ \E e \in BOOLEAN : Arrive(e)

Next == Task \/ Others \/ TimePasses

Spec == Init /\ [][Next]_vars

(* Fairness, as of TcpConnection: the executor polls what was woken (WF),  *)
(* select! takes in the end a branch that is ready again and again (SF),   *)
(* deadlines pass, and the kernel sends.                                   *)
TaskFairness ==
  /\ WF_vars(Start) /\ WF_vars(PollTransmit) /\ WF_vars(Drained) /\ WF_vars(SendOk)
  /\ WF_vars(Expired) /\ WF_vars(Wait) /\ WF_vars(Leave)
  /\ SF_vars(CloseBranch) /\ SF_vars(TimerBranch) /\ SF_vars(RecvBranch)
  /\ SF_vars(TimePasses) /\ WF_vars(KernelSends)

FairSpec == Spec /\ TaskFairness

-----------------------------------------------------------------------------
(* Properties *)

Ended == pc = "done"

(* The handlers get the datagrams that arrived, in order, each once and    *)
(* none twice from a buffer of an earlier batch, except the empty ones     *)
(* (mod.rs:147); and every variable stays in its range.                    *)
DeliveredOnce ==
  /\ TypeOK
  /\ LET all == delivered \o inbox
     IN  /\ \A j, k \in DOMAIN all : j < k => all[j] < all[k]
         /\ \A i \in 1 .. Len(arrived) : ~arrived[i] => \E j \in DOMAIN all : all[j] = i
  /\ \A j \in DOMAIN delivered : ~arrived[delivered[j]]

(* The handlers see the life cycle of a connection, with batches, errors   *)
(* and a recv of nothing: the task implements ConnectionLifecycle.         *)
Lifecycle == INSTANCE ConnectionLifecycle WITH callback <- callback
RefinesLifecycle == Lifecycle!Spec

(* Handlers whose next deadline is always past when the loop looks at it:  *)
(* the task then serves timeouts for ever, and nothing else (mod.rs:124).  *)
Hurried == []<><<Expired>>_vars

(* stop() ends the task although it is looked at in select! only: a full   *)
(* send buffer, failed sends, datagrams, writes and deadlines delay it,    *)
(* but only hurried handlers can keep it (mod.rs:107, 131).                *)
StopEnds == Hurried \/ (closing ~> Ended)

(* A datagram that arrives reaches the handlers, or it is empty, or the    *)
(* task is over: sends and timers do not starve the socket (mod.rs:99).    *)
DatagramsServed == Hurried \/ \A i \in 1 .. MaxArrivals :
  i \in ToSet(inbox) ~> (i \notin ToSet(inbox) \/ Ended)
=============================================================================
