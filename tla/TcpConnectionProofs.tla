------------------------ MODULE TcpConnectionProofs -------------------------
(***************************************************************************)
(* The safety of a connection's task, for any number and size of messages, *)
(* any buffer and any handlers, and its refinement of the life cycle that  *)
(* the handlers are promised.                                              *)
(***************************************************************************)
EXTENDS TcpConnection, TLAPS

(* What the handlers have seen at each point of the task. *)
Phase ==
  /\ pc = "start" => callback = "none"
  /\ pc \in {"turn", "timers", "write", "select"} => callback \in {"active", "read", "timeout"}
  /\ pc = "leave" => callback \in {"active", "read", "timeout", "eof"}
  /\ pc = "done" => callback \in {"none", "inactive"}

IInv == TypeOK /\ WireOrder /\ Phase

-----------------------------------------------------------------------------
(* One more message is written: the queue stays in order. *)
LEMMA PushTypeOK ==
  ASSUME TypeOK, Push
  PROVE  transmits' \in Seq(Messages) /\ written' \in 0 .. MaxWrites
<1>1. written + 1 \in Messages /\ written' \in 0 .. MaxWrites
  BY TcpAssumption DEF Push, TypeOK, Messages
<1> QED
  BY <1>1 DEF Push, TypeOK

LEMMA PushOrder ==
  ASSUME TypeOK, WireOrder, Push, UNCHANGED <<wire, current>>
  PROVE  WireOrder'
<1>1. /\ Len(transmits') = Len(transmits) + 1 /\ Len(transmits) \in Nat
      /\ DOMAIN transmits' = 1 .. Len(transmits) + 1
      /\ \A i \in DOMAIN transmits' :
           transmits'[i] = IF i = Len(transmits) + 1 THEN written + 1 ELSE transmits[i]
  BY DEF Push, TypeOK
<1>2. Len(wire) \in Nat /\ Sending \in {0, 1} /\ Sending' = Sending
  BY DEF TypeOK, Sending
<1>3. written = Len(wire) + Sending + Len(transmits) /\ written' = written + 1
  BY DEF WireOrder, Push
<1>4. \A i \in DOMAIN transmits' : transmits'[i] = Len(wire') + Sending' + i
  <2> TAKE i \in DOMAIN transmits'
  <2>1. CASE i = Len(transmits) + 1
    BY <1>1, <1>2, <1>3, <2>1
  <2>2. CASE i # Len(transmits) + 1
    <3>1. i \in DOMAIN transmits
      BY <1>1, <2>2 DEF TypeOK
    <3>2. transmits[i] = Len(wire) + Sending + i
      BY <3>1 DEF WireOrder
    <3> QED
      BY <1>1, <1>2, <2>2, <3>2
  <2> QED
    BY <2>1, <2>2
<1>5. written' = Len(wire') + Sending' + Len(transmits')
  BY <1>1, <1>2, <1>3
<1> QED
  BY <1>4, <1>5 DEF WireOrder

(* A callback changes the queue by writes only. *)
LEMMA CallbackKeeps ==
  ASSUME TypeOK, WireOrder, NEW e, NEW D, D \subseteq Deadlines,
         Callback(e, D), UNCHANGED <<wire, current>>
  PROVE  /\ transmits' \in Seq(Messages) /\ written' \in 0 .. MaxWrites
         /\ deadline' \in Deadlines /\ callback' = e
         /\ WireOrder'
<1>1. deadline' \in Deadlines /\ callback' = e
  BY DEF Callback
<1>2. CASE Push
  BY <1>1, <1>2, PushTypeOK, PushOrder
<1>3. CASE UNCHANGED queue
  BY <1>1, <1>3 DEF queue, TypeOK, WireOrder, Sending
<1> QED
  BY <1>2, <1>3 DEF Callback

LEMMA RearmDeadlines == TypeOK => Rearm \subseteq Deadlines /\ Rearm \cup {deadline} \subseteq Deadlines
BY TcpAssumption DEF TypeOK

-----------------------------------------------------------------------------
LEMMA InitIInv == Init => IInv
<1> SUFFICES ASSUME Init PROVE IInv
  OBVIOUS
<1>1. TypeOK
  <2>1. transmits \in Seq(Messages) /\ wire \in Seq([msg : Messages, n : Nat \cup {Failed}])
    BY DEF Init
  <2>2. current = None /\ pc = "start" /\ 0 \in 0 .. MaxWrites /\ 0 \in 0 .. MaxReads
        /\ SendBuf \in 0 .. SendBuf
    BY TcpAssumption DEF Init
  <2>3. inbox \in 0 .. arrived /\ arrived \in 0 .. MaxReads /\ written \in 0 .. MaxWrites
        /\ credit \in 0 .. SendBuf
    BY <2>2 DEF Init
  <2>4. current \in Messages \cup {None} /\ (current # None <=> pc = "write")
    BY <2>2
  <2>5. deadline \in Deadlines /\ closing \in BOOLEAN
    BY DEF Init, Deadlines
  <2> QED
    BY <2>1, <2>3, <2>4, <2>5 DEF Init, TypeOK
<1>2. WireOrder /\ Phase
  BY DEF Init, WireOrder, Sending, Phase
<1> QED
  BY <1>1, <1>2 DEF IInv

(* The inductive step: the queue moves to the wire in order, and the task  *)
(* tells the handlers what its place in the loop says.                     *)
LEMMA NextIInv == IInv /\ [Next]_vars => IInv'
<1> SUFFICES ASSUME TypeOK, WireOrder, Phase, [Next]_vars PROVE TypeOK' /\ WireOrder' /\ Phase'
  BY DEF IInv
<1> USE TcpAssumption
<1>1. CASE Start
  <2>1. CASE pc' = "turn" /\ Callback("active", Rearm \cup {deadline})
    <3>1. /\ transmits' \in Seq(Messages) /\ written' \in 0 .. MaxWrites
          /\ deadline' \in Deadlines /\ callback' = "active" /\ WireOrder'
      BY <1>1, <2>1, CallbackKeeps, RearmDeadlines DEF Start
    <3> QED
      BY <1>1, <2>1, <3>1 DEF Start, socket, TypeOK, Phase
  <2>2. CASE pc' = "done" /\ UNCHANGED <<queue, deadline, callback>>
    BY <1>1, <2>2 DEF Start, socket, queue, TypeOK, Phase, WireOrder, Sending
  <2> QED
    BY <1>1, <2>1, <2>2 DEF Start
<1>2. CASE PollTransmit
  <2>1. /\ transmits' \in Seq(Messages) /\ current' \in Messages
    BY <1>2 DEF PollTransmit, TypeOK
  <2>2. current' # None
    BY <2>1 DEF Messages
  <2>3. TypeOK' /\ Phase'
    BY <1>2, <2>1, <2>2 DEF PollTransmit, socket, TypeOK, Phase
  <2>4. current = None /\ current' = Head(transmits) /\ transmits' = Tail(transmits)
        /\ Head(transmits) = transmits[1] /\ Len(transmits) \in Nat \ {0}
        /\ UNCHANGED <<wire, written>> /\ Len(wire) \in Nat
    BY <1>2 DEF PollTransmit, TypeOK
  <2>5. /\ Len(transmits') = Len(transmits) - 1
        /\ \A i \in DOMAIN transmits' : i + 1 \in DOMAIN transmits /\ transmits'[i] = transmits[i + 1]
    BY <2>4 DEF TypeOK
  <2>6. Sending = 0 /\ Sending' = 1
    BY <2>2, <2>4 DEF Sending
  <2>7. WireOrder'
    <3>1. transmits[1] = Len(wire) + 1 /\ current' = Len(wire') + 1
      BY <2>4, <2>6 DEF WireOrder, TypeOK
    <3>2. \A i \in DOMAIN transmits' : transmits'[i] = Len(wire') + Sending' + i
      <4> TAKE i \in DOMAIN transmits'
      <4>1. i \in Nat
        BY <2>1
      <4>2. transmits'[i] = Len(wire) + 0 + (i + 1)
        BY <2>5, <2>6 DEF WireOrder
      <4> QED
        BY <2>4, <2>6, <4>1, <4>2
    <3>3. written' = Len(wire') + Sending' + Len(transmits')
      BY <2>4, <2>5, <2>6 DEF WireOrder
    <3> QED
      BY <2>4, <3>1, <3>2, <3>3 DEF WireOrder
  <2> QED
    BY <2>3, <2>7
<1>3. CASE Drained \/ Wait
  BY <1>3 DEF Drained, Wait, socket, queue, TypeOK, Phase, WireOrder, Sending
<1>4. CASE WriteOk \/ WriteError
  <2>1. current \in Messages /\ current = Len(wire) + 1 /\ current' = None
        /\ UNCHANGED <<transmits, written>> /\ Len(wire) \in Nat
    BY <1>4 DEF WriteOk, WriteError, TypeOK, WireOrder, queue
  <2>2. PICK n \in Nat \cup {Failed} :
          wire' = Append(wire, [msg |-> current, n |-> n]) /\ credit' \in 0 .. SendBuf
    <3>1. CASE WriteOk
      <4> DEFINE k == Smaller(Size[current], credit)
      <4>1. k \in Nat /\ credit - k \in 0 .. SendBuf
        BY <2>1 DEF Smaller, TypeOK
      <4> QED
        BY <3>1, <4>1 DEF WriteOk
    <3>2. CASE WriteError
      BY <3>2 DEF WriteError, socket, TypeOK
    <3> QED
      BY <1>4, <3>1, <3>2
  <2>3. /\ wire' \in Seq([msg : Messages, n : Nat \cup {Failed}])
        /\ Len(wire') = Len(wire) + 1
        /\ \A i \in DOMAIN wire' : wire'[i].msg = IF i = Len(wire) + 1 THEN current ELSE wire[i].msg
    BY <2>1, <2>2 DEF TypeOK
  <2>4. TypeOK' /\ Phase'
    BY <1>4, <2>1, <2>2, <2>3 DEF WriteOk, WriteError, queue, socket, TypeOK, Phase
  <2>5. WireOrder'
    <3>1. Sending = 1 /\ Sending' = 0
      BY <2>1, TcpAssumption DEF Sending, Messages
    <3>2. \A i \in DOMAIN wire' : wire'[i].msg = i
      BY <2>1, <2>3 DEF WireOrder, TypeOK
    <3>3. \A i \in DOMAIN transmits' : transmits'[i] = Len(wire') + Sending' + i
      BY <2>1, <2>3, <3>1 DEF WireOrder
    <3>4. written' = Len(wire') + Sending' + Len(transmits')
      BY <2>1, <2>3, <3>1 DEF WireOrder
    <3> QED
      BY <2>1, <3>2, <3>3, <3>4 DEF WireOrder
  <2> QED
    BY <2>4, <2>5
<1>5. CASE Expired \/ TimerBranch
  <2>1. /\ transmits' \in Seq(Messages) /\ written' \in 0 .. MaxWrites
        /\ deadline' \in Deadlines /\ callback' = "timeout" /\ WireOrder'
    BY <1>5, CallbackKeeps, RearmDeadlines DEF Expired, TimerBranch
  <2> QED
    BY <1>5, <2>1 DEF Expired, TimerBranch, socket, TypeOK, Phase
<1>6. CASE CloseBranch \/ ReadError
  BY <1>6 DEF CloseBranch, ReadError, socket, queue, TypeOK, Phase, WireOrder, Sending
<1>7. CASE ReadBranch
  <2>1. /\ transmits' \in Seq(Messages) /\ written' \in 0 .. MaxWrites
        /\ deadline' \in Deadlines /\ callback' = "read" /\ WireOrder'
    BY <1>7, CallbackKeeps, RearmDeadlines DEF ReadBranch
  <2>2. inbox' \in 0 .. arrived
    BY <1>7 DEF ReadBranch, Smaller, TypeOK
  <2> QED
    BY <1>7, <2>1, <2>2 DEF ReadBranch, TypeOK, Phase
<1>8. CASE EofBranch
  <2>1. /\ transmits' \in Seq(Messages) /\ written' \in 0 .. MaxWrites
        /\ deadline' \in Deadlines /\ callback' = "eof" /\ WireOrder'
    BY <1>8, CallbackKeeps, RearmDeadlines DEF EofBranch
  <2> QED
    BY <1>8, <2>1 DEF EofBranch, socket, TypeOK, Phase
<1>9. CASE Leave
  <2>1. /\ transmits' \in Seq(Messages) /\ written' \in 0 .. MaxWrites
        /\ deadline' \in Deadlines /\ callback' = "inactive" /\ WireOrder'
    BY <1>9, CallbackKeeps, RearmDeadlines DEF Leave
  <2> QED
    BY <1>9, <2>1 DEF Leave, socket, TypeOK, Phase
<1>10. CASE AppWrite
  <2>1. transmits' \in Seq(Messages) /\ written' \in 0 .. MaxWrites /\ WireOrder'
    BY <1>10, PushTypeOK, PushOrder DEF AppWrite
  <2> QED
    BY <1>10, <2>1 DEF AppWrite, socket, TypeOK, Phase
<1>11. CASE Stop \/ TimePasses
  <2>1. WireOrder' /\ Phase'
    BY <1>11 DEF Stop, TimePasses, queue, Phase, WireOrder, Sending
  <2>2. TypeOK'
    BY <1>11 DEF Stop, TimePasses, socket, queue, TypeOK, Deadlines
  <2> QED
    BY <2>1, <2>2
<1>12. CASE PeerSend \/ PeerClose \/ PeerReset \/ PeerDrains
  <2>1. WireOrder' /\ Phase'
    BY <1>12 DEF PeerSend, PeerClose, PeerReset, PeerDrains, queue, Phase, WireOrder, Sending
  <2>2. credit' \in 0 .. SendBuf /\ inbox' \in 0 .. arrived' /\ arrived' \in 0 .. MaxReads
    BY <1>12 DEF PeerSend, PeerClose, PeerReset, PeerDrains, TypeOK
  <2>3. TypeOK'
    BY <1>12, <2>2 DEF PeerSend, PeerClose, PeerReset, PeerDrains, queue, TypeOK
  <2> QED
    BY <2>1, <2>3
<1>13. CASE UNCHANGED vars
  BY <1>13 DEF vars, socket, queue, TypeOK, Phase, WireOrder, Sending
<1> QED
  BY <1>1, <1>2, <1>3, <1>4, <1>5, <1>6, <1>7, <1>8, <1>9, <1>10, <1>11, <1>12, <1>13
     DEF Next, Task, Others

(* The strengthened invariant. *)
THEOREM Invariant == Spec => []IInv
BY InitIInv, NextIInv, PTL DEF Spec

(* Every variable stays in its range; the send buffer never overflows.     *)
THEOREM TypeCorrect == Spec => []TypeOK
<1>1. IInv => TypeOK
  BY DEF IInv
<1> QED
  BY Invariant, <1>1, PTL

(* Messages reach socket.write in the order they were written, each once.  *)
THEOREM OrderKept == Spec => []WireOrder
<1>1. IInv => WireOrder
  BY DEF IInv
<1> QED
  BY Invariant, <1>1, PTL

(* The handlers know of the connection exactly while its task is in the    *)
(* loop.                                                                   *)
THEOREM ActiveExactly == Spec => []ActiveWhileRunning
<1>1. IInv => ActiveWhileRunning
  BY DEF IInv, Phase, TypeOK, ActiveWhileRunning
<1> QED
  BY Invariant, <1>1, PTL

-----------------------------------------------------------------------------
(* A step of the task is a step of the life cycle or leaves it alone. *)
LEMMA StepRefines == Phase /\ [Next]_vars => [Lifecycle!Next]_callback
<1> SUFFICES ASSUME Phase, [Next]_vars PROVE Lifecycle!Next \/ UNCHANGED callback
  OBVIOUS
<1> USE DEF Lifecycle!Next, Lifecycle!Activate, Lifecycle!Deliver, Lifecycle!Deactivate, Phase
<1>1. CASE Start
  BY <1>1 DEF Start, Callback
<1>2. CASE Expired \/ TimerBranch \/ ReadBranch \/ EofBranch
  BY <1>2 DEF Expired, TimerBranch, ReadBranch, EofBranch, Callback
<1>3. CASE Leave
  BY <1>3 DEF Leave, Callback
<1>4. CASE \/ PollTransmit \/ Drained \/ WriteOk \/ WriteError \/ Wait \/ CloseBranch
           \/ ReadError \/ Others \/ TimePasses \/ UNCHANGED vars
  BY <1>4 DEF PollTransmit, Drained, WriteOk, WriteError, Wait, CloseBranch, ReadError, Others,
              AppWrite, Stop, PeerSend, PeerClose, PeerReset, PeerDrains, TimePasses, vars
<1> QED
  BY <1>1, <1>2, <1>3, <1>4 DEF Next, Task

(* The task implements the life cycle of ConnectionLifecycle: it is what   *)
(* the handlers of process_pipeline's pipeline see, whatever happens.      *)
THEOREM Refinement == Spec => RefinesLifecycle
<1>1. Init => Lifecycle!Init
  BY DEF Init, Lifecycle!Init
<1>2. IInv => Phase
  BY DEF IInv
<1> QED
  BY <1>1, <1>2, StepRefines, Invariant, PTL DEF Spec, RefinesLifecycle, Lifecycle!Spec

-----------------------------------------------------------------------------
(* Between the last write and the wait nothing is queued: the task owns    *)
(* the thread there, so neither the application nor a handler can write.   *)
Flushed ==
  pc = "timers" => transmits = <<>> \/ (wire # <<>> /\ wire[Len(wire)].n = Failed)

LEMMA NextFlushed == IInv /\ Flushed /\ [Next]_vars => Flushed'
<1> SUFFICES ASSUME TypeOK, Flushed, [Next]_vars, pc' = "timers"
             PROVE  transmits' = <<>> \/ (wire' # <<>> /\ wire'[Len(wire')].n = Failed)
  BY DEF IInv, Flushed
<1>1. CASE Drained
  BY <1>1 DEF Drained, queue
<1>2. CASE WriteError
  <2> DEFINE e == [msg |-> current, n |-> Failed]
  <2>1. wire' = Append(wire, e) /\ e.n = Failed
    BY <1>2 DEF WriteError
  <2>2. current \in Messages /\ wire \in Seq([msg : Messages, n : Nat \cup {Failed}])
    BY <1>2, TcpAssumption DEF WriteError, TypeOK
  <2>3. e \in [msg : Messages, n : Nat \cup {Failed}]
    BY <2>2
  <2> HIDE DEF e
  <2>4. Len(wire') = Len(wire) + 1 /\ Len(wire) \in Nat /\ wire'[Len(wire) + 1] = e
    BY <2>1, <2>2, <2>3
  <2>5. wire' # <<>> /\ wire'[Len(wire')] = e
    BY <2>4
  <2> QED
    BY <2>1, <2>5
<1>3. CASE UNCHANGED <<pc, transmits, wire>>
  BY <1>3 DEF Flushed
<1>4. CASE AppWrite
  BY <1>4 DEF AppWrite, Awaiting
<1>5. CASE Stop \/ PeerSend \/ PeerClose \/ PeerReset \/ PeerDrains \/ TimePasses \/ UNCHANGED vars
  BY <1>3, <1>5 DEF Stop, PeerSend, PeerClose, PeerReset, PeerDrains, TimePasses, queue, vars
<1>6. CASE \/ Start \/ PollTransmit \/ WriteOk \/ Expired \/ Wait \/ CloseBranch \/ TimerBranch
           \/ ReadBranch \/ EofBranch \/ ReadError \/ Leave
  BY <1>6 DEF Start, PollTransmit, WriteOk, Expired, Wait, CloseBranch, TimerBranch, ReadBranch,
              EofBranch, ReadError, Leave
<1> QED
  BY <1>1, <1>2, <1>4, <1>5, <1>6 DEF Next, Task, Others

(* Only the end of a turn of the loop starts a wait.                       *)
LEMMA WaitStarts ==
  ASSUME [Next]_vars, pc # "select", pc' = "select"
  PROVE  Wait
<1>1. CASE Others \/ TimePasses \/ UNCHANGED vars
  BY <1>1 DEF Others, AppWrite, Stop, PeerSend, PeerClose, PeerReset, PeerDrains, TimePasses, vars
<1>2. CASE Task
  BY <1>2 DEF Task, Start, PollTransmit, Drained, WriteOk, WriteError, Expired, CloseBranch,
              TimerBranch, ReadBranch, EofBranch, ReadError, Leave
<1> QED
  BY <1>1, <1>2 DEF Next

(* The task waits for its peer only when all that was queued went to the   *)
(* socket, or just after a write failed.                                   *)
THEOREM WritesComeFirst == Spec => DrainedBeforeWaiting
<1>1. Init => Flushed
  BY DEF Init, Flushed
<1>2. ASSUME Flushed, [Next]_vars, pc # "select", pc' = "select"
      PROVE  transmits' = <<>> \/ (wire' # <<>> /\ wire'[Len(wire')].n = Failed)
  BY <1>2, WaitStarts DEF Wait, Flushed, queue
<1> QED
  BY <1>1, <1>2, NextFlushed, Invariant, PTL DEF Spec, DrainedBeforeWaiting
=============================================================================
