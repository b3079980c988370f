--------------------------- MODULE TcpConnection ----------------------------
(***************************************************************************)
(* The task that owns one TCP socket: BootstrapTcp::process_pipeline       *)
(* (src/bootstrap/bootstrap_tcp/mod.rs), with the application that writes  *)
(* to the pipeline and stops the bootstrap, the peer, and time.            *)
(*                                                                         *)
(* All tasks share one thread.  The task gives it up only where it awaits: *)
(* before its first poll ("start"), in socket.write ("write"), in select!  *)
(* ("select") and when it is over; the application acts there.  Between    *)
(* two awaits ("turn", "timers", "leave") only the kernel, the peer and    *)
(* the clock can act.                                                      *)
(*                                                                         *)
(* The handlers of the pipeline are the user's: in every callback they may *)
(* write a message and choose a deadline.  A message is its number, and    *)
(* Size tells how many bytes it is encoded to.                             *)
(***************************************************************************)
EXTENDS Integers, Sequences, SequencesExt

CONSTANTS
  MaxWrites,   \* bound: number of messages ever written
  Size,        \* Size[m]: length of message m in bytes
  SendBuf,     \* capacity of the socket's send buffer, in bytes
  MaxReads,    \* bound: number of bytes the peer ever sends
  MaxPayload,  \* max_payload_size: the most one read takes
  Rearm,       \* the deadlines the handlers choose
  None

Messages == 1 .. MaxWrites
Deadlines == {"none", "armed", "due"}   \* no timeout wanted, in the future, already past
Failed == -1                            \* socket.write returned an error

ASSUME TcpAssumption ==
  /\ MaxWrites \in Nat /\ Size \in [Messages -> Nat] /\ None \notin Nat
  /\ SendBuf \in Nat \ {0} /\ MaxReads \in Nat /\ MaxPayload \in Nat \ {0}
  /\ Rearm \subseteq Deadlines /\ Rearm # {}

VARIABLES
  pc,         \* where the task is
  transmits,  \* the pipeline's queue of written messages
  current,    \* the message that socket.write is sending
  credit,     \* free bytes in the send buffer
  inbox,      \* bytes received and not read
  peer,       \* open, closed (it sent FIN) or reset
  deadline,   \* the earliest deadline of the handlers, as poll_timeout answers
  closing,    \* the close channel has a message, or its sender is dropped
  (* history *)
  callback,   \* the latest callback the handlers saw
  wire,       \* what became of each message given to socket.write
  written, arrived   \* number of messages written, of bytes the peer sent

queue == <<transmits, written>>
socket == <<credit, inbox, peer, arrived>>
vars == <<pc, queue, current, socket, deadline, closing, callback, wire>>

Smaller(a, b) == IF a < b THEN a ELSE b

(* Every variable stays in its range; the send buffer never overflows and  *)
(* a message is in socket.write exactly while the task waits there.        *)
TypeOK ==
  /\ pc \in {"start", "turn", "timers", "write", "select", "leave", "done"}
  /\ transmits \in Seq(Messages) /\ written \in 0 .. MaxWrites
  /\ current \in Messages \cup {None} /\ (current # None <=> pc = "write")
  /\ credit \in 0 .. SendBuf /\ inbox \in 0 .. arrived /\ arrived \in 0 .. MaxReads
  /\ peer \in {"open", "closed", "reset"}
  /\ deadline \in Deadlines /\ closing \in BOOLEAN
  /\ callback \in {"none", "active", "read", "timeout", "eof", "inactive"}
  /\ wire \in Seq([msg : Messages, n : Nat \cup {Failed}])

Init ==
  /\ pc = "start" /\ transmits = <<>> /\ written = 0 /\ current = None
  /\ credit = SendBuf /\ inbox = 0 /\ peer = "open" /\ arrived = 0
  /\ deadline = "none" /\ closing = FALSE /\ callback = "none" /\ wire = <<>>

-----------------------------------------------------------------------------
(* Pipeline::write appends to the queue and does nothing else: in          *)
(* particular it does not wake the task.                                   *)
Push == /\ written < MaxWrites
        /\ written' = written + 1 /\ transmits' = Append(transmits, written + 1)

(* A callback into the pipeline: its handlers may write and rearm. *)
Callback(e, deadlines) ==
  /\ callback' = e
  /\ deadline' \in deadlines
  /\ Push \/ UNCHANGED queue

(* transport_active, unless an address of the socket cannot be had: then   *)
(* the task returns and the handlers never hear of the connection.         *)
Start ==
  /\ pc = "start"
  /\ \/ pc' = "turn" /\ Callback("active", Rearm \cup {deadline})
     \/ pc' = "done" /\ UNCHANGED <<queue, deadline, callback>>
  /\ UNCHANGED <<current, socket, closing, wire>>

\* Mutant: the newest message is sent first.
PollTransmitNewest ==
  /\ pc = "turn" /\ transmits # <<>>
  /\ pc' = "write" /\ current' = transmits[Len(transmits)] /\ transmits' = Front(transmits)
  /\ UNCHANGED <<written, socket, deadline, closing, callback, wire>>

(* while let Some(transmit) = pipeline.poll_transmit() *)
PollTransmit ==
  /\ pc = "turn" /\ transmits # <<>>
  /\ pc' = "write" /\ current' = Head(transmits) /\ transmits' = Tail(transmits)
  /\ UNCHANGED <<written, socket, deadline, closing, callback, wire>>

\* Mutant: one message per turn, "if let" for "while let".
DrainedEarly ==
  /\ pc = "turn" /\ (transmits # <<>> => wire # <<>>)
  /\ pc' = "timers"
  /\ UNCHANGED <<queue, current, socket, deadline, closing, callback, wire>>

Drained ==
  /\ pc = "turn" /\ transmits = <<>>
  /\ pc' = "timers"
  /\ UNCHANGED <<queue, current, socket, deadline, closing, callback, wire>>

(* socket.write(&transmit.message).await: waits while the send buffer is   *)
(* full, then takes what fits.  The loop only logs the count.              *)
WriteOk ==
  /\ pc = "write" /\ peer # "reset"
  /\ credit > 0 \/ Size[current] = 0
  /\ LET n == Smaller(Size[current], credit)
     IN credit' = credit - n /\ wire' = Append(wire, [msg |-> current, n |-> n])
  /\ pc' = "turn" /\ current' = None
  /\ UNCHANGED <<queue, inbox, peer, arrived, deadline, closing, callback>>

(* On an error the inner loop ends: the message is gone, the queue stays. *)
WriteError ==
  /\ pc = "write" /\ peer = "reset"
  /\ wire' = Append(wire, [msg |-> current, n |-> Failed])
  /\ pc' = "timers" /\ current' = None
  /\ UNCHANGED <<queue, socket, deadline, closing, callback>>

\* Mutant: no continue after handle_timeout.
ExpiredThenWaits ==
  /\ pc = "timers" /\ deadline = "due"
  /\ pc' = "select" /\ Callback("timeout", Rearm)
  /\ UNCHANGED <<current, socket, closing, wire>>

(* poll_timeout answered a deadline that is past: handle_timeout, continue. *)
Expired ==
  /\ pc = "timers" /\ deadline = "due"
  /\ pc' = "turn" /\ Callback("timeout", Rearm)
  /\ UNCHANGED <<current, socket, closing, wire>>

Wait ==
  /\ pc = "timers" /\ deadline # "due"
  /\ pc' = "select"
  /\ UNCHANGED <<queue, current, socket, deadline, closing, callback, wire>>

-----------------------------------------------------------------------------
(* The branches of tokio::select!; it takes any one that is ready. *)

\* Mutants: the loop does not end when the bootstrap is stopped, at the end
\* of file; a handler's deadline does not limit the wait.
CloseBranchContinues ==
  /\ pc = "select" /\ closing
  /\ pc' = "turn"
  /\ UNCHANGED <<queue, current, socket, deadline, closing, callback, wire>>
TimerBranchDay ==
  /\ pc = "select" /\ deadline = "none"
  /\ pc' = "turn" /\ Callback("timeout", Rearm)
  /\ UNCHANGED <<current, socket, closing, wire>>
EofBranchContinues ==
  /\ pc = "select" /\ peer \in {"closed", "reset"} /\ inbox = 0
  /\ pc' = "turn" /\ Callback("eof", Rearm \cup {deadline})
  /\ UNCHANGED <<current, socket, closing, wire>>

CloseBranch ==
  /\ pc = "select" /\ closing
  /\ pc' = "leave"
  /\ UNCHANGED <<queue, current, socket, deadline, closing, callback, wire>>

(* The timer is set to the earliest deadline, or to MAX_DURATION_IN_SECS   *)
(* (a day) when the handlers want none.                                    *)
TimerBranch ==
  /\ pc = "select" /\ deadline \in {"due", "none"}
  /\ pc' = "turn" /\ Callback("timeout", Rearm)
  /\ UNCHANGED <<current, socket, closing, wire>>

ReadBranch ==
  /\ pc = "select" /\ inbox > 0
  /\ inbox' = inbox - Smaller(inbox, MaxPayload)
  /\ pc' = "turn" /\ Callback("read", Rearm \cup {deadline})
  /\ UNCHANGED <<current, credit, peer, arrived, closing, wire>>

(* A reset that a write has reported already reads as an end of file. *)
EofBranch ==
  /\ pc = "select" /\ peer \in {"closed", "reset"} /\ inbox = 0
  /\ pc' = "leave" /\ Callback("eof", Rearm \cup {deadline})
  /\ UNCHANGED <<current, socket, closing, wire>>

(* A read error ends the loop, the handlers get no handle_exception. *)
ReadError ==
  /\ pc = "select" /\ peer = "reset"
  /\ pc' = "leave"
  /\ UNCHANGED <<queue, current, socket, deadline, closing, callback, wire>>

Leave ==
  /\ pc = "leave"
  /\ pc' = "done" /\ Callback("inactive", Rearm \cup {deadline})
  /\ UNCHANGED <<current, socket, closing, wire>>

Task == \/ Start \/ PollTransmit \/ Drained \/ WriteOk \/ WriteError \/ Expired \/ Wait
        \/ CloseBranch \/ TimerBranch \/ ReadBranch \/ EofBranch \/ ReadError \/ Leave

-----------------------------------------------------------------------------
(* The application: it writes to the pipeline connect() returned (or that  *)
(* another connection's handler kept), also after the task is over, and it *)
(* stops the bootstrap or drops it.                                        *)
Awaiting == pc \in {"start", "write", "select", "done"}

AppWrite == /\ Awaiting /\ Push
            /\ UNCHANGED <<pc, current, socket, deadline, closing, callback, wire>>

Stop == /\ Awaiting /\ ~closing
        /\ closing' = TRUE
        /\ UNCHANGED <<pc, queue, current, socket, deadline, callback, wire>>

(* The peer, the kernel and the clock. *)
PeerSend == /\ peer = "open" /\ arrived < MaxReads
            /\ arrived' = arrived + 1 /\ inbox' = inbox + 1
            /\ UNCHANGED <<pc, queue, current, credit, peer, deadline, closing, callback, wire>>

PeerClose == /\ peer = "open"
             /\ peer' = "closed"
             /\ UNCHANGED <<pc, queue, current, credit, inbox, arrived, deadline, closing, callback, wire>>

PeerReset == /\ peer # "reset"
             /\ peer' = "reset"
             /\ UNCHANGED <<pc, queue, current, credit, inbox, arrived, deadline, closing, callback, wire>>

PeerDrains == /\ peer # "reset" /\ credit < SendBuf
              /\ credit' = credit + 1
              /\ UNCHANGED <<pc, queue, current, inbox, peer, arrived, deadline, closing, callback, wire>>

TimePasses == /\ deadline = "armed"
              /\ deadline' = "due"
              /\ UNCHANGED <<pc, queue, current, socket, closing, callback, wire>>

Others == AppWrite \/ Stop \/ PeerSend \/ PeerClose \/ PeerReset \/ PeerDrains

Next == Task \/ Others \/ TimePasses

Spec == Init /\ [][Next]_vars

-----------------------------------------------------------------------------
(* Fairness.  The executor polls every task that was woken, so the steps   *)
(* between awaits and a write that can proceed are taken (WF).  select!    *)
(* starts at a random branch: one that is ready again and again is taken   *)
(* in the end (SF).  Time passes.  Nothing is assumed of the application;  *)
(* that the peer reads what it is sent is an assumption of its own.        *)
TaskFairness ==
  /\ WF_vars(Start) /\ WF_vars(PollTransmit) /\ WF_vars(Drained) /\ WF_vars(WriteOk)
  /\ WF_vars(WriteError) /\ WF_vars(Expired) /\ WF_vars(Wait) /\ WF_vars(Leave)
  /\ SF_vars(CloseBranch) /\ SF_vars(TimerBranch) /\ SF_vars(ReadBranch)
  /\ SF_vars(EofBranch) /\ SF_vars(ReadError)
  /\ SF_vars(TimePasses)

FairSpec == Spec /\ TaskFairness
FairPeerSpec == FairSpec /\ WF_vars(PeerDrains)

-----------------------------------------------------------------------------
(* Properties *)

Attempted(m) == \E i \in DOMAIN wire : wire[i].msg = m
Ended == pc = "done"

(* Messages reach socket.write in the order they were written, each once:  *)
(* those that were given to it, the one that waits in it and those in the  *)
(* queue are the messages 1 .. written, whatever the write errors, the     *)
(* timeouts and the writes during an await (mod.rs:155).                   *)
Sending == IF current = None THEN 0 ELSE 1
WireOrder ==
  /\ \A i \in DOMAIN wire : wire[i].msg = i
  /\ current # None => current = Len(wire) + 1
  /\ \A i \in DOMAIN transmits : transmits[i] = Len(wire) + Sending + i
  /\ written = Len(wire) + Sending + Len(transmits)

(* The handlers know of the connection exactly while its task is in the    *)
(* loop: however the loop ends, they have seen transport_inactive, and a   *)
(* connection that did not start shows them nothing (mod.rs:152, 216).     *)
ActiveWhileRunning == callback \in {"none", "inactive"} <=> pc \in {"start", "done"}

(* What the handlers see is a life cycle, reads after an end of file or    *)
(* after transport_inactive never happen: the task refines the abstract    *)
(* connection (ConnectionLifecycle).                                       *)
Lifecycle == INSTANCE ConnectionLifecycle WITH callback <- callback
RefinesLifecycle == Lifecycle!Spec

(* The task starts to wait for its peer only with an empty queue, or just  *)
(* after a write failed: whatever handlers queued, in a read or a timeout, *)
(* has gone to the socket first (mod.rs:154, "prioritize socket.write").   *)
DrainedBeforeWaiting ==
  [][pc # "select" /\ pc' = "select" =>
       transmits' = <<>> \/ (wire' # <<>> /\ wire'[Len(wire')].n = Failed)]_vars

(* Handlers whose next deadline is always past when the loop looks at it:  *)
(* the task then serves timeouts for ever, and nothing else (mod.rs:175).  *)
Hurried == []<><<Expired>>_vars

(* If the peer reads what it is sent, stop() ends the task, whatever else  *)
(* happens: only hurried handlers can keep it (mod.rs:175, 189).           *)
StopEnds == Hurried \/ (closing ~> Ended)

(* A deadline that passes is served, or the task is over: neither reads    *)
(* nor writes starve the timer.                                            *)
DeadlineServed == Hurried \/ (deadline = "due" ~> (deadline # "due" \/ Ended))

(* What a handler wrote in a callback after which the loop goes on (an     *)
(* activation, a read, a timeout) is given to the socket, even if stop()   *)
(* was called or the peer closed meanwhile, short of a reset: the loop     *)
(* looks at the queue before it waits (mod.rs:155).  What is written in    *)
(* handle_read_eof or transport_inactive is dropped with the queue         *)
(* (mod.rs:190-194, 216).                                                  *)
RepliesGoOut == \A m \in Messages :
  (pc = "turn" /\ m \in ToSet(transmits)) ~> (Attempted(m) \/ peer = "reset")

-----------------------------------------------------------------------------
(* What the documentation says, and the code does not do. *)

(* "writes it to the pipeline, which will send the message outbound"       *)
(* (lib.rs:140): a message that is sent is sent whole.                     *)
WholeMessages == \A i \in DOMAIN wire : wire[i].n \in {Failed, Size[wire[i].msg]}
=============================================================================
