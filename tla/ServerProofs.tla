---------------------------- MODULE ServerProofs ----------------------------
(***************************************************************************)
(* The safety of a TCP server for any number of binds, sockets and         *)
(* callers, and of a UDP bootstrap for any number of tasks and callers:    *)
(* channels and wait groups implement Bootstrap, and a stop that has       *)
(* returned has cut off none of the handlers it waited for.                *)
(***************************************************************************)
EXTENDS Server, UdpBootstrap, FiniteSetTheorems, TLAPS

(* What both share: nothing of a generation that was not opened exists,    *)
(* the bootstrap keeps the only sender that lives, and a wait is for a     *)
(* generation that was opened, until its worker is dropped.                *)
Held ==
  /\ ControlTypeOK
  /\ \A g \in Generations : message[g] \/ workers[g] = 1 => g <= opened
  /\ \A g \in Generations : sender[g] <=> g = close_tx
  /\ close_tx # None => close_tx <= opened
  /\ wg # None => wg <= opened
  /\ \A k \in Callers :
       /\ awaits[k] # None => awaits[k] <= opened
       /\ caller[k] = "waiting" => awaits[k] # None
       /\ caller[k] = "returned" /\ awaits[k] # None => workers[awaits[k]] = 0

LEMMA HeldInit == ControlInit => Held
<1> SUFFICES ASSUME ControlInit PROVE Held
  OBVIOUS
<1>1. 0 \in 0 .. MaxOpens /\ 0 \in 0 .. 1
  BY OpensAssumption
<1>2. workers \in [Generations -> 0 .. 1]
  BY <1>1 DEF ControlInit
<1>3. ControlTypeOK
  BY <1>1, <1>2, OpensAssumption DEF ControlInit, ControlTypeOK
<1>4. \A g \in Generations : message[g] = FALSE /\ workers[g] = 0 /\ sender[g] = FALSE /\ g # None
  BY OpensAssumption DEF ControlInit, Generations
<1>5. \A k \in Callers : caller[k] = "free" /\ awaits[k] = None
  BY DEF ControlInit
<1> QED
  BY <1>3, <1>4, <1>5 DEF ControlInit, Held

(* It is kept by a bind or connect, by a worker that is dropped, and by    *)
(* the calls of the application.                                           *)
LEMMA HeldRenew == ASSUME Held, Renew PROVE Held'
<1> USE OpensAssumption DEF Generations
<1>1. /\ opened \in Nat /\ opened + 1 \in Generations /\ opened' = opened + 1
      /\ close_tx' = opened + 1 /\ wg' = opened + 1
      /\ workers' = [workers EXCEPT ![opened + 1] = 1]
      /\ UNCHANGED <<message, caller, awaits, ended>>
  BY DEF Held, ControlTypeOK, Renew, callers
<1>2. sender' \in [Generations -> BOOLEAN] /\ \A g \in Generations : sender'[g] <=> g = close_tx'
  BY <1>1 DEF Held, Renew
<1>3. ControlTypeOK'
  BY <1>1, <1>2 DEF Held, ControlTypeOK
<1>4. \A k \in Callers :
        /\ awaits'[k] # None => awaits'[k] <= opened'
        /\ caller'[k] = "waiting" => awaits'[k] # None
        /\ caller'[k] = "returned" /\ awaits'[k] # None => workers'[awaits'[k]] = 0
  BY <1>1 DEF Held, ControlTypeOK
<1>5. \A g \in Generations : message'[g] \/ workers'[g] = 1 => g <= opened'
  BY <1>1 DEF Held, ControlTypeOK
<1> QED
  BY <1>1, <1>2, <1>3, <1>4, <1>5 DEF Held

LEMMA HeldDrop ==
  ASSUME Held, NEW g \in Generations, workers[g] = 1, DropsWorker(g)
  PROVE  Held'
<1>1. workers' = [workers EXCEPT ![g] = 0]
  BY DEF DropsWorker, Held, ControlTypeOK
<1> QED
  BY <1>1, OpensAssumption DEF DropsWorker, Held, ControlTypeOK, channel, callers, Generations

LEMMA HeldUnchanged == ASSUME Held, UNCHANGED control PROVE Held'
BY DEF Held, ControlTypeOK, control, channel, callers

LEMMA TakeSenderKeeps ==
  ASSUME Held, TakeSender, opened' = opened
  PROVE  /\ close_tx' = None
         /\ sender' \in [Generations -> BOOLEAN] /\ message' \in [Generations -> BOOLEAN]
         /\ \A g \in Generations : message'[g] => g <= opened'
         /\ \A g \in Generations : sender'[g] <=> g = close_tx'
<1>1. /\ close_tx' = None
      /\ message' = [g \in Generations |-> message[g] \/ g = close_tx]
      /\ sender' = [g \in Generations |-> sender[g] /\ g # close_tx]
  BY DEF TakeSender
<1>2. sender' \in [Generations -> BOOLEAN] /\ message' \in [Generations -> BOOLEAN]
  BY <1>1 DEF Held, ControlTypeOK
<1>3. ASSUME NEW g \in Generations, message'[g] PROVE g <= opened'
  <2>1. message[g] \/ g = close_tx
    BY <1>1, <1>3
  <2>2. g # None
    BY OpensAssumption DEF Generations
  <2> QED
    BY <2>1, <2>2 DEF Held
<1>4. ASSUME NEW g \in Generations PROVE sender'[g] <=> g = close_tx'
  <2>1. sender'[g] <=> sender[g] /\ g # close_tx
    BY <1>1
  <2>2. g # None
    BY OpensAssumption DEF Generations
  <2> QED
    BY <1>1, <2>1, <2>2 DEF Held
<1> QED
  BY <1>1, <1>2, <1>3, <1>4

LEMMA HeldCall == ASSUME Held, Call PROVE Held'
<1> USE OpensAssumption DEF Held, ControlTypeOK, Generations
<1>1. CASE RunEnds
  BY <1>1 DEF RunEnds, channel, callers
<1>4. CASE Stop
  <2>1. TakeSender /\ UNCHANGED <<opened, wg, workers, caller, awaits, ended>>
    BY <1>4 DEF Stop, callers
  <2> QED
    BY <2>1, TakeSenderKeeps
<1>2. ASSUME NEW k \in Callers, WaitForStop(k) \/ GracefulStop(k) PROVE Held'
  <2>1. TakeSender \/ UNCHANGED <<close_tx, sender, message>>
    BY <1>2 DEF WaitForStop, GracefulStop, channel
  <2>2. /\ wg' = None /\ UNCHANGED <<opened, workers, ended>>
        /\ caller' = [caller EXCEPT ![k] = IF wg = None THEN "returned" ELSE "waiting"]
        /\ awaits' = [awaits EXCEPT ![k] = wg]
    BY <1>2 DEF WaitForStop, GracefulStop, TakeGroup
  <2>3. /\ close_tx' \in Generations \cup {None} /\ (close_tx' # None => close_tx' <= opened')
        /\ sender' \in [Generations -> BOOLEAN] /\ message' \in [Generations -> BOOLEAN]
        /\ \A g \in Generations : message'[g] => g <= opened'
        /\ \A g \in Generations : sender'[g] <=> g = close_tx'
    <3>1. CASE TakeSender
      BY <2>2, <3>1, TakeSenderKeeps
    <3>2. CASE UNCHANGED <<close_tx, sender, message>>
      BY <2>2, <3>2
    <3> QED
      BY <2>1, <3>1, <3>2
  <2>4. \A j \in Callers :
          /\ awaits'[j] # None => awaits'[j] <= opened'
          /\ caller'[j] = "waiting" => awaits'[j] # None
          /\ caller'[j] = "returned" /\ awaits'[j] # None => workers'[awaits'[j]] = 0
    BY <2>2
  <2>5. caller' \in [Callers -> {"free", "waiting", "returned"}] /\ awaits' \in [Callers -> Generations \cup {None}]
    BY <2>2
  <2> QED
    BY <2>2, <2>3, <2>4, <2>5
<1>3. ASSUME NEW k \in Callers, Return(k) PROVE Held'
  BY <1>3 DEF Return, channel
<1>5. ASSUME NEW k \in Callers, Cancel(k) PROVE Held'
  BY <1>5 DEF Cancel, channel
<1> QED
  BY <1>1, <1>2, <1>3, <1>4, <1>5 DEF Call

-----------------------------------------------------------------------------
(* What Bootstrap sees of the channels. *)
Closed == [g \in Generations |-> g <= opened /\ Received(g)]

(* Taking the sender out, or opening over it, closes its channel only. *)
LEMMA TakeCloses ==
  ASSUME Held, TakeSender, opened' = opened
  PROVE  Closed' = [g \in Generations |-> Closed[g] \/ g = close_tx]
<1>1. \A g \in Generations : Received(g)' <=> Received(g) \/ g = close_tx
  BY DEF Held, ControlTypeOK, TakeSender, Received
<1>2. \A g \in Generations : g = close_tx => g <= opened
  BY OpensAssumption DEF Held, Generations
<1> QED
  BY <1>1, <1>2 DEF Closed

LEMMA RenewCloses ==
  ASSUME Held, Renew
  PROVE  Closed' = [g \in Generations |-> Closed[g] \/ g = close_tx]
<1> USE OpensAssumption DEF Generations
<1>1. opened \in Nat /\ opened' = opened + 1 /\ message' = message
  BY DEF Held, ControlTypeOK, Renew
<1>2. \A g \in Generations : g <= opened => (Received(g)' <=> Received(g) \/ g = close_tx)
  BY <1>1 DEF Held, ControlTypeOK, Renew, Received
<1>3. \A g \in Generations : g = opened + 1 => ~Received(g)'
  BY <1>1 DEF Held, ControlTypeOK, Renew, Received
<1>4. \A g \in Generations : g = close_tx => g <= opened
  BY DEF Held
<1>5. \A g \in Generations : g <= opened' /\ Received(g)' <=> (g <= opened /\ Received(g)) \/ g = close_tx
  BY <1>1, <1>2, <1>3, <1>4
<1> QED
  BY <1>5 DEF Closed

(* What a call does to the channels. *)
LEMMA CallCloses ==
  ASSUME Held
  PROVE  /\ Stop => Closed' = [g \in Generations |-> Closed[g] \/ g = close_tx]
         /\ \A k \in Callers : GracefulStop(k) => Closed' = [g \in Generations |-> Closed[g] \/ g = close_tx]
         /\ \A k \in Callers : WaitForStop(k) \/ Return(k) \/ Cancel(k) => Closed' = Closed
         /\ RunEnds => Closed' = Closed
<1>1. Stop => TakeSender /\ opened' = opened
  BY DEF Stop
<1>2. \A k \in Callers : GracefulStop(k) => TakeSender /\ opened' = opened
  BY DEF GracefulStop
<1>3. UNCHANGED <<opened, sender, message>> => Closed' = Closed
  BY DEF Closed, Received
<1>4. RunEnds => UNCHANGED <<opened, sender, message>>
  BY DEF RunEnds, channel
<1>5. \A k \in Callers : WaitForStop(k) \/ Return(k) \/ Cancel(k) => UNCHANGED <<opened, sender, message>>
  BY DEF WaitForStop, Return, Cancel, channel
<1> QED
  BY <1>1, <1>2, <1>3, <1>4, <1>5, TakeCloses

-----------------------------------------------------------------------------
(* The TCP server. *)
Alive == {"spawned", "running", "leaving"}
Living(g) == {c \in Conns : task[c] \in Alive /\ gen[c] = g}

(* A wait group has one worker for each task that holds one. *)
Counted ==
  /\ \A g \in Generations : child_workers[g] = Cardinality(Living(g))
  /\ \A g \in Generations : workers[g] = IF loop[g] \in {"accepting", "draining"} THEN 1 ELSE 0
  /\ \A g \in Generations : loop[g] = "gone" => Living(g) = {}

(* What was never bound has no loop and no sockets. *)
Opened ==
  /\ \A g \in Generations : loop[g] = "unborn" <=> g > opened
  /\ \A c \in Conns : task[c] = "unborn" <=> gen[c] = None
  /\ \A c \in Conns : gen[c] # None => gen[c] <= opened

(* What a task has told its handlers. *)
Phase == \A c \in Conns :
  /\ task[c] \in {"unborn", "spawned"} => callback[c] = "none"
  /\ task[c] = "running" => callback[c] \in {"active", "read"}
  /\ task[c] = "leaving" => callback[c] = "eof"
  /\ task[c] = "done" => callback[c] \in {"none", "inactive"}

IInv == TypeOK /\ Held /\ Counted /\ Opened /\ Phase

LEMMA InitIInv == Init => IInv
<1> SUFFICES ASSUME Init PROVE IInv
  OBVIOUS
<1>1. Held
  BY HeldInit DEF Init
<1>2. TypeOK
  <2>1. child_workers \in [Generations -> Nat]
    BY DEF Init
  <2> QED
    BY <1>1, <2>1 DEF Held, Init, TypeOK
<1>3. Counted
  <2>1. \A g \in Generations : Living(g) = {} /\ workers[g] = 0 /\ child_workers[g] = 0
    BY DEF Living, Alive, Init, ControlInit
  <2> QED
    BY <2>1, FS_EmptySet DEF Counted, Init
<1>4. Opened /\ Phase
  BY OpensAssumption DEF Opened, Phase, Generations, Init, ControlInit
<1> QED
  BY <1>1, <1>2, <1>3, <1>4 DEF IInv

(* The sets that are counted are finite. *)
LEMMA LivingFinite ==
  \A g : IsFiniteSet(Living(g)) /\ Cardinality(Living(g)) \in Nat
BY ServerAssumption, FS_Subset, FS_CardinalityType DEF Living

(* A new child, a child that is done, and one that goes on. *)
LEMMA LivingAccept ==
  ASSUME TypeOK, Opened, NEW g \in Generations, NEW c \in Conns, Accept(g, c)
  PROVE  \A h \in Generations : Living(h)' = IF h = g THEN Living(h) \cup {c} ELSE Living(h)
BY DEF Accept, TypeOK, Opened, Living, Alive

LEMMA LivingDrop ==
  ASSUME TypeOK, NEW c \in Conns, task[c] \in Alive, DropWorker(c)
  PROVE  \A h \in Generations : Living(h)' = IF h = gen[c] THEN Living(h) \ {c} ELSE Living(h)
BY DEF DropWorker, TypeOK, Living, Alive

LEMMA LivingTell ==
  ASSUME TypeOK, NEW c \in Conns, task[c] \in Alive, NEW what, NEW next \in Alive, Tell(c, what, next)
  PROVE  \A h : Living(h)' = Living(h)
BY DEF Tell, TypeOK, Living, Alive

-----------------------------------------------------------------------------
(* The inductive step, one lemma for each kind of action. *)
LEMMA CallStep == ASSUME IInv, Bind \/ Calls PROVE IInv'
<1>0. TypeOK /\ Held /\ Counted /\ Opened /\ Phase
  BY DEF IInv
<1>1. CASE Bind
  <2>1. Held'
    BY <1>0, <1>1, HeldRenew DEF Bind
  <2>2. /\ opened \in Nat /\ opened' = opened + 1 /\ opened + 1 \in Generations
        /\ loop' = [loop EXCEPT ![opened + 1] = "accepting"] /\ loop[opened + 1] = "unborn"
        /\ workers' = [workers EXCEPT ![opened + 1] = 1]
        /\ UNCHANGED <<child_workers, task, gen, callback>>
    BY <1>0, <1>1, OpensAssumption DEF Bind, Renew, TypeOK, ControlTypeOK, Opened, Generations
  <2>3. TypeOK'
    BY <1>0, <2>1, <2>2 DEF Held, TypeOK
  <2>4. Counted'
    <3>1. \A g : Living(g)' = Living(g)
      BY <2>2 DEF Living
    <3> QED
      BY <1>0, <2>2, <3>1 DEF Counted, TypeOK, ControlTypeOK
  <2>5. Opened' /\ Phase'
    BY <1>0, <2>2, OpensAssumption DEF Opened, Phase, TypeOK, ControlTypeOK, Generations
  <2> QED
    BY <2>1, <2>3, <2>4, <2>5 DEF IInv
<1>2. CASE Calls
  <2>1. Held'
    BY <1>0, <1>2, HeldCall DEF Calls
  <2>2. UNCHANGED <<opened, workers, loop, child_workers, task, gen, callback>>
    BY <1>2 DEF Calls, tasks, Call, Stop, RunEnds, WaitForStop, GracefulStop, Return, Cancel
  <2>3. TypeOK'
    BY <1>0, <2>1, <2>2 DEF Held, TypeOK
  <2>4. Counted' /\ Opened' /\ Phase'
    BY <1>0, <2>2 DEF Counted, Living, Opened, Phase
  <2> QED
    BY <2>1, <2>3, <2>4 DEF IInv
<1> QED
  BY <1>1, <1>2

LEMMA LoopStep ==
  ASSUME IInv, NEW g \in Generations,
         \/ LoopCloses(g) \/ AcceptFails(g) \/ LoopDrained(g) \/ \E c \in Conns : Accept(g, c)
  PROVE  IInv'
<1>0. TypeOK /\ Held /\ Counted /\ Opened /\ Phase
  BY DEF IInv
<1>1. CASE LoopBreaks(g)
  <2>1. Held' /\ TypeOK'
    BY <1>0, <1>1, HeldUnchanged DEF LoopBreaks, Held, TypeOK
  <2>2. Counted' /\ Opened' /\ Phase'
    BY <1>0, <1>1 DEF LoopBreaks, control, Counted, Living, Opened, Phase, TypeOK
  <2> QED
    BY <2>1, <2>2 DEF IInv
<1>2. CASE LoopDrained(g)
  <2>1. loop[g] = "draining" /\ workers[g] = 1
    BY <1>0, <1>2 DEF LoopDrained, Counted
  <2>2. Held'
    BY <1>0, <1>2, <2>1, HeldDrop DEF LoopDrained
  <2>3. /\ loop' = [loop EXCEPT ![g] = "gone"] /\ workers' = [workers EXCEPT ![g] = 0]
        /\ UNCHANGED <<opened, child_workers, task, gen, callback>>
    BY <1>0, <1>2, <2>1 DEF LoopDrained, DropsWorker, TypeOK, ControlTypeOK
  <2>4. TypeOK'
    BY <1>0, <2>2, <2>3 DEF Held, TypeOK
  <2>5. Counted'
    <3>1. Living(g) = {}
      BY <1>0, <1>2, LivingFinite, FS_EmptySet DEF LoopDrained, Counted
    <3>2. \A h : Living(h)' = Living(h)
      BY <2>3 DEF Living
    <3> QED
      BY <1>0, <2>3, <3>1, <3>2 DEF Counted, TypeOK, ControlTypeOK
  <2>6. Opened' /\ Phase'
    BY <1>0, <2>1, <2>3 DEF Opened, Phase, TypeOK
  <2> QED
    BY <2>2, <2>4, <2>5, <2>6 DEF IInv
<1>3. ASSUME NEW c \in Conns, Accept(g, c) PROVE IInv'
  <2>1. Held' /\ UNCHANGED <<opened, workers>>
    BY <1>0, <1>3, HeldUnchanged DEF Accept, control
  <2>2. TypeOK'
    BY <1>0, <1>3, <2>1 DEF Accept, Held, TypeOK
  <2>3. Counted'
    <3>1. \A h \in Generations : Living(h)' = IF h = g THEN Living(h) \cup {c} ELSE Living(h)
      BY <1>0, <1>3, LivingAccept
    <3>2. c \notin Living(g)
      BY <1>3 DEF Accept, Living, Alive
    <3>3. Cardinality(Living(g) \cup {c}) = Cardinality(Living(g)) + 1
      BY <3>2, LivingFinite, FS_AddElement
    <3>4. /\ child_workers' = [child_workers EXCEPT ![g] = @ + 1]
          /\ loop[g] = "accepting" /\ UNCHANGED <<loop, workers>>
      BY <1>3, <2>1 DEF Accept
    <3> QED
      BY <1>0, <3>1, <3>3, <3>4 DEF Counted, TypeOK
  <2>4. Opened' /\ Phase'
    <3>1. g <= opened /\ g # None
      BY <1>0, <1>3, OpensAssumption DEF Accept, Opened, TypeOK, ControlTypeOK, Generations
    <3> QED
      BY <1>0, <1>3, <2>1, <3>1 DEF Accept, Opened, Phase, TypeOK
  <2> QED
    BY <2>1, <2>2, <2>3, <2>4 DEF IInv
<1> QED
  BY <1>1, <1>2, <1>3 DEF LoopCloses, AcceptFails

LEMMA ConnectionStep ==
  ASSUME IInv, NEW c \in Conns, Connection(c)
  PROVE  IInv'
<1>0. TypeOK /\ Held /\ Counted /\ Opened /\ Phase
  BY DEF IInv
<1>1. ASSUME task[c] \in Alive, DropWorker(c),
             \/ callback' = callback /\ task[c] = "spawned"
             \/ callback' = [callback EXCEPT ![c] = "inactive"]
      PROVE  IInv'
  <2>0. Held' /\ UNCHANGED <<opened, workers, loop, gen>> /\ task' = [task EXCEPT ![c] = "done"]
    BY <1>0, <1>1, HeldUnchanged DEF DropWorker, control
  <2>1. gen[c] \in Generations /\ c \in Living(gen[c])
    BY <1>0, <1>1 DEF Opened, Living, Alive, TypeOK
  <2>2. \A h \in Generations : Living(h)' = IF h = gen[c] THEN Living(h) \ {c} ELSE Living(h)
    BY <1>0, <1>1, LivingDrop
  <2>3. Cardinality(Living(gen[c]) \ {c}) = Cardinality(Living(gen[c])) - 1
    BY <2>1, LivingFinite, FS_RemoveElement
  <2>4. child_workers' = [child_workers EXCEPT ![gen[c]] = @ - 1] /\ UNCHANGED <<loop, workers>>
    BY <1>1, <2>0 DEF DropWorker
  <2>5. Counted'
    BY <1>0, <2>1, <2>2, <2>3, <2>4 DEF Counted, TypeOK
  <2>6. TypeOK'
    <3>1. child_workers' \in [Generations -> Nat]
      <4>1. child_workers'[gen[c]] \in Nat
        <5>1. child_workers'[gen[c]] = Cardinality(Living(gen[c]) \ {c})
          BY <1>0, <2>1, <2>3, <2>4 DEF Counted, TypeOK
        <5>2. IsFiniteSet(Living(gen[c]) \ {c})
          BY LivingFinite, FS_Subset
        <5> QED
          BY <5>1, <5>2, FS_CardinalityType
      <4> QED
        BY <1>0, <2>4, <4>1 DEF TypeOK
    <3> QED
      BY <1>0, <1>1, <2>0, <3>1 DEF Held, TypeOK
  <2>7. Opened' /\ Phase'
    BY <1>0, <1>1, <2>0 DEF Opened, Phase, Alive, TypeOK
  <2> QED
    BY <2>0, <2>5, <2>6, <2>7 DEF IInv
<1>2. ASSUME NEW what, NEW next \in Alive, Tell(c, what, next),
             \/ task[c] = "spawned" /\ next = "running" /\ what = "active"
             \/ task[c] = "running" /\ next = "running" /\ what = "read"
             \/ task[c] = "running" /\ next = "leaving" /\ what = "eof"
      PROVE  IInv'
  <2>0. Held' /\ UNCHANGED <<opened, workers, child_workers, loop, gen>>
    BY <1>0, <1>2, HeldUnchanged DEF Tell, control
  <2>1. TypeOK'
    BY <1>0, <1>2, <2>0 DEF Tell, Alive, Held, TypeOK
  <2>2. Counted'
    BY <1>0, <1>2, <2>0, LivingTell DEF Alive, Counted
  <2>3. Opened' /\ Phase'
    BY <1>0, <1>2, <2>0 DEF Tell, Alive, Opened, Phase, TypeOK
  <2> QED
    BY <2>0, <2>1, <2>2, <2>3 DEF IInv
<1>3. CASE ConnectionFails(c)
  BY <1>1, <1>3 DEF ConnectionFails, Alive
<1>4. CASE ConnectionStarts(c)
  BY <1>2, <1>4 DEF ConnectionStarts, Alive
<1>5. CASE ConnectionReads(c)
  BY <1>2, <1>5 DEF ConnectionReads, Alive
<1>6. CASE ConnectionLeaves(c) \/ ConnectionCloses(c)
  BY <1>1, <1>6 DEF ConnectionLeaves, ConnectionCloses, Inactive, Alive
<1> QED
  BY <1>3, <1>4, <1>5, <1>6 DEF Connection

LEMMA NextIInv == IInv /\ [Next]_vars => IInv'
<1> SUFFICES ASSUME IInv, [Next]_vars PROVE IInv'
  OBVIOUS
<1>1. CASE UNCHANGED vars
  <2>1. Held'
    BY <1>1, HeldUnchanged DEF vars, IInv
  <2> QED
    BY <1>1, <2>1 DEF vars, control, tasks, IInv, Held, TypeOK, Counted, Living, Opened, Phase
<1>2. CASE Next
  BY <1>2, CallStep, LoopStep, ConnectionStep DEF Next
<1> QED
  BY <1>1, <1>2

(* The strengthened invariant. *)
THEOREM Invariant == Spec => []IInv
BY InitIInv, NextIInv, PTL DEF Spec

(* Every variable stays in its range, and no wait group is left with more  *)
(* or fewer workers than tasks that run.                                   *)
THEOREM TypeCorrect == Spec => []TypeOK
<1>1. IInv => TypeOK
  BY DEF IInv
<1> QED
  BY Invariant, <1>1, PTL

(* The wait for a wait group is over when the accept loop is. *)
LEMMA GoneLoop ==
  ASSUME IInv, NEW g \in Generations, g <= opened, workers[g] = 0
  PROVE  loop[g] = "gone"
<1>1. loop[g] \in {"unborn", "accepting", "draining", "gone"}
  BY DEF IInv, TypeOK
<1>2. loop[g] \notin {"accepting", "draining"}
  BY DEF IInv, Counted
<1>3. loop[g] # "unborn"
  BY OpensAssumption DEF IInv, TypeOK, ControlTypeOK, Opened, Generations
<1> QED
  BY <1>1, <1>2, <1>3

(* A stop that took a wait group returns after the handlers of every       *)
(* connection of that generation were told.                                *)
THEOREM AllTold == Spec => []HandlersTold
<1>1. IInv => HandlersTold
  <2> SUFFICES ASSUME IInv, NEW k \in Callers, NEW c \in Conns,
                      caller[k] = "returned", awaits[k] # None, gen[c] = awaits[k]
               PROVE  callback[c] \in {"none", "inactive"} /\ task[c] = "done"
    BY DEF HandlersTold
  <2>1. awaits[k] \in Generations /\ awaits[k] <= opened /\ workers[awaits[k]] = 0
    BY DEF IInv, TypeOK, ControlTypeOK, Held
  <2>2. task[c] \notin Alive
    BY <2>1, GoneLoop DEF IInv, Counted, Living
  <2>3. task[c] = "done"
    BY <2>2 DEF IInv, TypeOK, Opened, Alive
  <2> QED
    BY <2>3 DEF IInv, Phase
<1> QED
  BY Invariant, <1>1, PTL

-----------------------------------------------------------------------------
(* The refinement.  What Bootstrap sees of the tasks. *)
Root == [g \in Generations |-> IF g <= opened /\ workers[g] = 0 THEN "gone" ELSE loop[g]]
Child == [c \in Conns |-> IF task[c] \in {"spawned", "running", "leaving"} THEN "running" ELSE task[c]]

(* The workers say what the accept loop does. *)
LEMMA RootIsLoop == IInv => Root = loop
<1> SUFFICES ASSUME IInv PROVE Root = loop
  OBVIOUS
<1>1. loop = [g \in Generations |-> loop[g]]
  BY DEF IInv, TypeOK
<1>2. \A g \in Generations : g <= opened /\ workers[g] = 0 => loop[g] = "gone"
  BY GoneLoop
<1>3. Root = [g \in Generations |-> loop[g]]
  BY <1>2 DEF Root
<1> QED
  BY <1>1, <1>3

LEMMA RootIsLoopNext == (IInv => Root = loop)'
BY RootIsLoop, PTL

LEMMA RefinesInit == Init => B!Init
<1> SUFFICES ASSUME Init PROVE B!Init
  OBVIOUS
<1> USE OpensAssumption DEF Init, ControlInit, Generations
<1>1. Closed = [g \in Generations |-> FALSE]
  <2>1. \A g \in Generations : ~(g <= opened)
    OBVIOUS
  <2> QED
    BY <2>1 DEF Closed
<1>2. Root = [g \in Generations |-> "unborn"]
  BY DEF Root
<1>3. Child = [c \in Conns |-> "unborn"]
  BY DEF Child
<1> QED
  BY <1>1, <1>2, <1>3 DEF B!Init, B!Generations, Closed, Root, Child

(* The calls of the application. *)
LEMMA CallRefines == ASSUME IInv, IInv', Bind \/ Calls PROVE B!Next \/ UNCHANGED B!vars
<1> USE DEF Generations
<1>0. Root = loop /\ Root' = loop' /\ Held
  BY RootIsLoop, RootIsLoopNext DEF IInv
<1>1. CASE Bind
  <2>1. Closed' = [g \in Generations |-> Closed[g] \/ g = close_tx] /\ Child' = Child
    BY <1>0, <1>1, RenewCloses DEF Bind, Child
  <2>2. B!Open
    BY <1>0, <1>1, <2>1 DEF Bind, Renew, callers, B!Open, B!Close, B!Generations, B!callers, Closed, Root, Child
  <2> QED
    BY <2>2 DEF B!Next
<1>2. CASE Calls
  <2>0. Child' = Child /\ loop' = loop /\ gen' = gen
    BY <1>2 DEF Calls, tasks, Child
  <2>1. CASE Stop
    <3>1. B!Stop
      BY <1>0, <2>0, <2>1, CallCloses DEF Stop, TakeSender, callers, B!Stop, B!Signal, B!Close, B!Generations,
         B!tasks, B!callers, Closed, Root, Child
    <3> QED
      BY <3>1 DEF B!Next
  <2>2. CASE RunEnds
    BY <1>0, <2>0, <2>2, CallCloses DEF RunEnds, channel, callers, B!vars, B!Generations, B!tasks, B!callers,
       Closed, Root, Child
  <2>3. ASSUME NEW k \in Callers, WaitForStop(k) PROVE B!Next
    <3>1. B!WaitForStop(k)
      BY <1>0, <2>0, <2>3, CallCloses DEF WaitForStop, TakeGroup, channel, B!WaitForStop, B!Await, B!Generations,
         B!tasks, Closed, Root, Child
    <3> QED
      BY <3>1 DEF B!Next
  <2>4. ASSUME NEW k \in Callers, GracefulStop(k) PROVE B!Next
    <3>1. B!GracefulStop(k)
      BY <1>0, <2>0, <2>4, CallCloses DEF GracefulStop, TakeSender, TakeGroup, B!GracefulStop, B!Signal, B!Close,
         B!Await, B!Generations, B!tasks, Closed, Root, Child
    <3> QED
      BY <3>1 DEF B!Next
  <2>5. ASSUME NEW k \in Callers, Return(k) PROVE B!Next
    <3>1. Root[awaits[k]] = "gone"
      <4>1. awaits[k] \in Generations /\ awaits[k] <= opened /\ workers[awaits[k]] = 0
        BY <2>5, OpensAssumption DEF IInv, Held, ControlTypeOK, Return
      <4> QED
        BY <4>1 DEF Root
    <3>2. B!Return(k)
      BY <1>0, <2>0, <2>5, <3>1, CallCloses DEF Return, channel, B!Return, B!Generations, B!tasks, Closed, Root, Child
    <3> QED
      BY <3>2 DEF B!Next
  <2>6. ASSUME NEW k \in Callers, Cancel(k) PROVE B!Next
    <3>1. B!Cancel(k)
      BY <1>0, <2>0, <2>6, CallCloses DEF Cancel, channel, B!Cancel, B!Generations, B!tasks, Closed, Root, Child
    <3> QED
      BY <3>1 DEF B!Next
  <2> QED
    BY <1>2, <2>1, <2>2, <2>3, <2>4, <2>5, <2>6 DEF Calls, Call
<1> QED
  BY <1>1, <1>2

LEMMA LoopRefines ==
  ASSUME IInv, IInv', NEW g \in Generations,
         \/ LoopCloses(g) \/ AcceptFails(g) \/ LoopDrained(g) \/ \E c \in Conns : Accept(g, c)
  PROVE  B!Next
<1> USE DEF Generations
<1>0. Root = loop /\ Root' = loop'
  BY RootIsLoop, RootIsLoopNext
<1>1. CASE LoopBreaks(g)
  <2>1. Closed' = Closed /\ Child' = Child
    BY <1>1 DEF LoopBreaks, control, channel, Closed, Child, Received
  <2>2. B!AcceptFails(g)
    BY <1>0, <1>1, <2>1 DEF LoopBreaks, control, channel, callers, B!AcceptFails, B!Generations, B!callers, Closed, Root, Child
  <2> QED
    BY <2>2 DEF B!Next, B!Generations
<1>2. CASE LoopDrained(g)
  <2>1. Closed' = Closed /\ Child' = Child
    BY <1>2 DEF LoopDrained, DropsWorker, channel, Closed, Child, Received
  <2>2. \A c \in Conns : Child[c] = "running" => gen[c] # g
    <3>1. Living(g) = {}
      BY <1>2, LivingFinite, FS_EmptySet DEF IInv, LoopDrained, Counted
    <3> QED
      BY <3>1 DEF Living, Alive, Child, IInv, TypeOK
  <2>3. B!RootDrained(g)
    BY <1>0, <1>2, <2>1, <2>2 DEF LoopDrained, DropsWorker, channel, callers, B!RootDrained, B!Generations, B!callers,
       Closed, Root, Child
  <2> QED
    BY <2>3 DEF B!Next, B!Generations
<1>3. ASSUME NEW c \in Conns, Accept(g, c) PROVE B!Next
  <2>1. Closed' = Closed /\ Child' = [Child EXCEPT ![c] = "running"] /\ Child[c] = "unborn"
    <3>1. UNCHANGED <<opened, sender, message>> /\ task[c] = "unborn" /\ task' = [task EXCEPT ![c] = "spawned"]
      BY <1>3 DEF Accept, control, channel
    <3>2. task \in [Conns -> {"unborn", "spawned", "running", "leaving", "done"}]
      BY DEF IInv, TypeOK
    <3>3. Closed' = Closed /\ Child[c] = "unborn"
      BY <3>1 DEF Closed, Received, Child
    <3>4. Child' = [Child EXCEPT ![c] = "running"]
      BY <3>1, <3>2 DEF Child
    <3> QED
      BY <3>3, <3>4
  <2>2. B!Accept(g, c)
    BY <1>0, <1>3, <2>1 DEF Accept, control, channel, callers, B!Accept, B!Generations, B!callers, Closed, Root, Child
  <2> QED
    BY <2>2 DEF B!Next, B!Generations
<1> QED
  BY <1>1, <1>2, <1>3 DEF LoopCloses, AcceptFails

LEMMA ConnectionRefines ==
  ASSUME IInv, IInv', NEW c \in Conns, Connection(c)
  PROVE  B!Next \/ UNCHANGED B!vars
<1> USE DEF Generations
<1>0. Root = loop /\ Root' = loop'
  BY RootIsLoop, RootIsLoopNext
<1>1. ASSUME task[c] \in Alive, DropWorker(c) PROVE B!Next
  <2>1. Closed' = Closed
    BY <1>1 DEF DropWorker, control, channel, Closed, Received
  <2>2. Child' = [Child EXCEPT ![c] = "done"] /\ Child[c] = "running"
    <3>1. task' = [task EXCEPT ![c] = "done"]
      BY <1>1 DEF DropWorker
    <3>2. task \in [Conns -> {"unborn", "spawned", "running", "leaving", "done"}]
      BY DEF IInv, TypeOK
    <3> QED
      BY <1>1, <3>1, <3>2 DEF Child, Alive
  <2>3. B!ChildLeaves(c)
    BY <1>0, <1>1, <2>1, <2>2 DEF DropWorker, control, channel, callers, B!ChildLeaves, B!ChildGone, B!Generations, B!callers,
       Closed, Root, Child
  <2> QED
    BY <2>3 DEF B!Next
<1>2. ASSUME task[c] \in Alive, NEW what, NEW next \in Alive, Tell(c, what, next) PROVE UNCHANGED B!vars
  <2>1. Closed' = Closed /\ Child' = Child
    BY <1>2 DEF IInv, TypeOK, Tell, control, channel, Closed, Received, Child, Alive
  <2> QED
    BY <1>0, <1>2, <2>1 DEF Tell, control, channel, callers, B!vars, B!Generations, B!tasks, B!callers, Closed, Root, Child
<1>3. CASE ConnectionFails(c) \/ ConnectionLeaves(c) \/ ConnectionCloses(c)
  BY <1>1, <1>3 DEF ConnectionFails, ConnectionLeaves, ConnectionCloses, Inactive, Alive
<1>4. CASE ConnectionStarts(c) \/ ConnectionReads(c)
  BY <1>2, <1>4 DEF ConnectionStarts, ConnectionReads, Alive
<1> QED
  BY <1>3, <1>4 DEF Connection

LEMMA RefinesStep == IInv /\ IInv' /\ [Next]_vars => [B!Next]_(B!vars)
<1> SUFFICES ASSUME IInv, IInv', [Next]_vars PROVE B!Next \/ UNCHANGED B!vars
  OBVIOUS
<1>1. CASE UNCHANGED vars
  <2>1. Closed' = Closed /\ Root' = Root /\ Child' = Child
    BY <1>1 DEF vars, control, tasks, channel, Closed, Root, Child, Received
  <2> QED
    BY <1>1, <2>1 DEF vars, control, tasks, channel, callers, B!vars, B!Generations, B!tasks, B!callers,
       Closed, Root, Child, Generations
<1>2. CASE Next
  BY <1>2, CallRefines, LoopRefines, ConnectionRefines DEF Next
<1> QED
  BY <1>1, <1>2

(* The server, with its senders, messages and counts, implements           *)
(* Bootstrap.                                                              *)
THEOREM Refinement == Spec => RefinesBootstrap
BY Invariant, RefinesInit, RefinesStep, PTL DEF Spec, RefinesBootstrap, B!Spec

-----------------------------------------------------------------------------
(* What every connection of a server tells its handlers is a life cycle.   *)
LEMMA LifecycleStep ==
  IInv /\ [Next]_vars => [\A c \in Conns : Lifecycle(c)!Next \/ UNCHANGED callback[c]]_callback
<1> SUFFICES ASSUME IInv, [Next]_vars, callback' # callback, NEW c \in Conns
             PROVE  Lifecycle(c)!Next \/ UNCHANGED callback[c]
  OBVIOUS
<1>1. PICK d \in Conns : Connection(d)
  BY DEF Next, vars, tasks, Bind, Calls,
     LoopCloses, AcceptFails, LoopBreaks, LoopDrained, Accept
<1>2. \E what : callback' = [callback EXCEPT ![d] = what]
  BY <1>1 DEF Connection, ConnectionFails, ConnectionStarts, ConnectionReads, ConnectionLeaves, ConnectionCloses,
     Inactive, Tell, IInv, TypeOK
<1>3. CASE c # d
  BY <1>2, <1>3 DEF IInv, TypeOK
<1>4. CASE c = d
  <2>1. callback \in [Conns -> {"none", "active", "read", "eof", "inactive"}]
    BY DEF IInv, TypeOK
  <2>2. CASE ConnectionFails(c)
    BY <2>2 DEF ConnectionFails
  <2>3. CASE ConnectionStarts(c)
    BY <2>1, <2>3 DEF ConnectionStarts, Tell, IInv, Phase, Lifecycle!Next, Lifecycle!Activate
  <2>4. CASE ConnectionReads(c)
    BY <2>1, <2>4 DEF ConnectionReads, Tell, IInv, Phase, Lifecycle!Next, Lifecycle!Deliver
  <2>5. CASE ConnectionLeaves(c) \/ ConnectionCloses(c)
    BY <2>1, <2>5 DEF ConnectionLeaves, ConnectionCloses, Inactive, IInv, Phase, Lifecycle!Next, Lifecycle!Deactivate
  <2> QED
    BY <1>1, <1>4, <2>2, <2>3, <2>4, <2>5 DEF Connection
<1> QED
  BY <1>3, <1>4

(* Each connection of a server does to its handlers what the life cycle    *)
(* says: active first, inactive last and once.                             *)
THEOREM LifecycleRefinement == Spec => RefinesLifecycle
<1>1. Init => \A c \in Conns : Lifecycle(c)!Init
  BY DEF Init, Lifecycle!Init
<1> QED
  BY Invariant, <1>1, LifecycleStep, PTL DEF Spec, RefinesLifecycle

-----------------------------------------------------------------------------
(* The UDP bootstrap.  A task has a worker until it is done, and has told  *)
(* its handlers what its place in the loop says.                           *)
UdpPhase == \A g \in Generations :
  /\ udp_task[g] = "unborn" <=> g > opened
  /\ workers[g] = IF udp_task[g] \in Alive THEN 1 ELSE 0
  /\ udp_task[g] = "done" => udp_callback[g] = "inactive"

UdpIInv == UdpTypeOK /\ Held /\ UdpPhase

LEMMA UdpInitIInv == UdpInit => UdpIInv
<1> SUFFICES ASSUME UdpInit PROVE UdpIInv
  OBVIOUS
<1>1. Held
  BY HeldInit DEF UdpInit
<1>2. UdpTypeOK
  BY <1>1 DEF Held, UdpInit, UdpTypeOK
<1>3. UdpPhase
  BY OpensAssumption DEF UdpInit, ControlInit, UdpPhase, Alive, Generations
<1> QED
  BY <1>1, <1>2, <1>3 DEF UdpIInv

(* A new task, with a worker of a new wait group. *)
LEMMA SpawnStep == ASSUME UdpIInv, Spawn, socket' \in BOOLEAN PROVE UdpIInv'
<1>1. Held'
  BY HeldRenew DEF UdpIInv, Spawn
<1>2. /\ opened \in Nat /\ opened' = opened + 1 /\ opened + 1 \in Generations
      /\ udp_task' = [udp_task EXCEPT ![opened + 1] = "spawned"]
      /\ workers' = [workers EXCEPT ![opened + 1] = 1]
      /\ UNCHANGED <<role, udp_callback>>
  BY OpensAssumption DEF UdpIInv, UdpTypeOK, ControlTypeOK, Spawn, Renew, Generations
<1>3. UdpTypeOK'
  BY <1>1, <1>2 DEF UdpIInv, Held, UdpTypeOK
<1>4. UdpPhase'
  BY <1>2, OpensAssumption DEF UdpIInv, UdpTypeOK, ControlTypeOK, UdpPhase, Alive, Generations
<1> QED
  BY <1>1, <1>3, <1>4 DEF UdpIInv

(* The calls that leave the tasks alone. *)
LEMMA UdpCallStep ==
  ASSUME UdpIInv, UdpBind \/ ConnectFails \/ ConnectPanics \/ UdpCalls
  PROVE  UdpIInv'
<1>1. Held'
  <2>1. CASE UdpBind \/ ConnectFails
    BY <2>1, HeldUnchanged DEF UdpBind, ConnectFails, UdpIInv
  <2>2. CASE ConnectPanics
    BY <2>2 DEF ConnectPanics, UdpIInv, Held, ControlTypeOK, channel, callers
  <2>3. CASE UdpCalls
    BY <2>3, HeldCall DEF UdpCalls, UdpIInv
  <2> QED
    BY <2>1, <2>2, <2>3
<1>2. UNCHANGED <<opened, workers, role, udp_task, udp_callback>> /\ socket' \in BOOLEAN
  <2>1. CASE UdpBind \/ ConnectFails
    BY <2>1 DEF UdpBind, ConnectFails, control, udptasks
  <2>2. CASE ConnectPanics
    BY <2>2 DEF ConnectPanics, udptasks, UdpIInv, UdpTypeOK
  <2>3. CASE UdpCalls
    BY <2>3 DEF UdpCalls, udptasks, UdpIInv, UdpTypeOK,
                Call, Stop, RunEnds, WaitForStop, GracefulStop, Return, Cancel
  <2> QED
    BY <2>1, <2>2, <2>3
<1>3. UdpTypeOK' /\ UdpPhase'
  BY <1>1, <1>2 DEF UdpIInv, Held, UdpTypeOK, UdpPhase
<1> QED
  BY <1>1, <1>3 DEF UdpIInv

(* The steps of a task: it goes on, or it is done and drops its worker. *)
UdpTask(g) == TaskStarts(g) \/ TaskReads(g) \/ TaskLeaves(g) \/ TaskCloses(g)

LEMMA UdpTaskIs ==
  ASSUME NEW g \in Generations, UdpTask(g)
  PROVE  /\ udp_task[g] \in Alive /\ UNCHANGED <<role, socket>>
         /\ \/ /\ UNCHANGED control
               /\ \E what \in {"active", "read", "eof"}, next \in {"running", "leaving"} :
                    /\ udp_task' = [udp_task EXCEPT ![g] = next]
                    /\ udp_callback' = [udp_callback EXCEPT ![g] = what]
            \/ /\ DropsWorker(g)
               /\ udp_task' = [udp_task EXCEPT ![g] = "done"]
               /\ udp_callback' = [udp_callback EXCEPT ![g] = "inactive"]
<1>1. CASE TaskStarts(g)
  BY <1>1 DEF TaskStarts, Told, Alive
<1>2. CASE TaskReads(g)
  BY <1>2 DEF TaskReads, Told, Alive
<1>3. CASE TaskLeaves(g) \/ TaskCloses(g)
  BY <1>3 DEF TaskLeaves, TaskCloses, Told, Alive
<1> QED
  BY <1>1, <1>2, <1>3 DEF UdpTask

LEMMA UdpTaskStep == ASSUME UdpIInv, NEW g \in Generations, UdpTask(g) PROVE UdpIInv'
<1>0. UdpTypeOK /\ Held /\ UdpPhase /\ udp_task[g] \in Alive /\ UNCHANGED <<role, socket>>
  BY UdpTaskIs DEF UdpIInv
<1>1. ASSUME NEW what \in {"active", "read", "eof"}, NEW next \in {"running", "leaving"}, UNCHANGED control,
             udp_task' = [udp_task EXCEPT ![g] = next], udp_callback' = [udp_callback EXCEPT ![g] = what]
      PROVE  UdpIInv'
  <2>1. Held' /\ UNCHANGED <<opened, workers>>
    BY <1>0, <1>1, HeldUnchanged DEF control
  <2>2. UdpTypeOK'
    BY <1>0, <1>1, <2>1 DEF Held, UdpTypeOK
  <2>3. UdpPhase'
    BY <1>0, <1>1, <2>1 DEF UdpPhase, UdpTypeOK, Alive
  <2> QED
    BY <2>1, <2>2, <2>3 DEF UdpIInv
<1>2. ASSUME DropsWorker(g), udp_task' = [udp_task EXCEPT ![g] = "done"],
             udp_callback' = [udp_callback EXCEPT ![g] = "inactive"]
      PROVE  UdpIInv'
  <2>1. workers[g] = 1
    BY <1>0 DEF UdpPhase
  <2>2. Held' /\ workers' = [workers EXCEPT ![g] = 0] /\ opened' = opened
    <3>1. Held'
      BY <1>0, <1>2, <2>1, HeldDrop
    <3>2. workers \in [Generations -> 0 .. 1]
      BY <1>0 DEF Held, ControlTypeOK
    <3> QED
      BY <1>2, <2>1, <3>1, <3>2 DEF DropsWorker
  <2>3. UdpTypeOK'
    BY <1>0, <1>2, <2>2 DEF Held, UdpTypeOK
  <2>4. UdpPhase'
    BY <1>0, <1>2, <2>2 DEF UdpPhase, UdpTypeOK, ControlTypeOK, Alive
  <2> QED
    BY <2>2, <2>3, <2>4 DEF UdpIInv
<1> QED
  BY <1>1, <1>2, UdpTaskIs

LEMMA UdpNextIInv == UdpIInv /\ [UdpNext]_udpvars => UdpIInv'
<1> SUFFICES ASSUME UdpIInv, [UdpNext]_udpvars PROVE UdpIInv'
  OBVIOUS
<1>1. CASE Connect \/ ServerBind
  BY <1>1, SpawnStep DEF Connect, ServerBind, UdpIInv, UdpTypeOK
<1>2. CASE UdpBind \/ ConnectFails \/ ConnectPanics \/ UdpCalls
  BY <1>2, UdpCallStep
<1>3. CASE \E g \in Generations : TaskStarts(g) \/ TaskReads(g) \/ TaskLeaves(g) \/ TaskCloses(g)
  BY <1>3, UdpTaskStep DEF UdpTask
<1>4. CASE UNCHANGED udpvars
  <2>1. Held'
    BY <1>4, HeldUnchanged DEF udpvars, UdpIInv
  <2> QED
    BY <1>4, <2>1 DEF udpvars, udptasks, control, UdpIInv, Held, UdpTypeOK, UdpPhase
<1> QED
  BY <1>1, <1>2, <1>3, <1>4 DEF UdpNext

(* The strengthened invariant of the UDP bootstrap. *)
THEOREM UdpInvariant == UdpSpec => []UdpIInv
BY UdpInitIInv, UdpNextIInv, PTL DEF UdpSpec

(* The sender that lives is the one that the bootstrap keeps: stop() never *)
(* misses the task that runs.                                              *)
THEOREM UdpAlwaysStoppable == UdpSpec => []Stoppable
<1>1. UdpIInv => Stoppable
  BY DEF UdpIInv, Held, Stoppable, UB!Stoppable, UB!Generations, Generations, Received
<1> QED
  BY UdpInvariant, <1>1, PTL

(* A stop of a UDP bootstrap returns after the handlers of its task have   *)
(* seen transport_inactive, for any number of tasks and callers.           *)
THEOREM UdpAllTold == UdpSpec => []UdpHandlersTold
<1>1. UdpIInv => UdpHandlersTold
  <2> SUFFICES ASSUME UdpIInv, NEW k \in Callers, caller[k] = "returned", awaits[k] # None
               PROVE  udp_callback[awaits[k]] = "inactive" /\ udp_task[awaits[k]] = "done"
    BY DEF UdpHandlersTold
  <2>1. awaits[k] \in Generations /\ awaits[k] <= opened /\ workers[awaits[k]] = 0
    BY DEF UdpIInv, Held, ControlTypeOK
  <2>2. udp_task[awaits[k]] \notin Alive /\ udp_task[awaits[k]] # "unborn"
    BY <2>1, OpensAssumption DEF UdpIInv, UdpPhase, Held, ControlTypeOK, Generations
  <2>3. udp_task[awaits[k]] = "done"
    BY <2>1, <2>2 DEF UdpIInv, UdpTypeOK, Alive
  <2> QED
    BY <2>1, <2>3 DEF UdpIInv, UdpPhase
<1> QED
  BY UdpInvariant, <1>1, PTL

-----------------------------------------------------------------------------
(* Its refinement: what Bootstrap sees of the tasks. *)
UdpRoot == [g \in Generations |-> IF g > opened THEN "unborn"
                                  ELSE IF workers[g] = 0 THEN "gone" ELSE "connected"]

LEMMA UdpRefinesInit == UdpInit => UB!Init
<1> SUFFICES ASSUME UdpInit PROVE UB!Init
  OBVIOUS
<1> USE OpensAssumption DEF UdpInit, ControlInit, Generations
<1>1. Closed = [g \in Generations |-> FALSE]
  <2>1. \A g \in Generations : ~(g <= opened)
    OBVIOUS
  <2> QED
    BY <2>1 DEF Closed
<1>2. UdpRoot = [g \in Generations |-> "unborn"]
  <2>1. \A g \in Generations : g > opened
    OBVIOUS
  <2> QED
    BY <2>1 DEF UdpRoot
<1> QED
  BY <1>1, <1>2 DEF UB!Init, UB!Generations, Closed, UdpRoot

LEMMA UdpSpawnRefines == ASSUME UdpIInv, Borrowable, Spawn PROVE UB!Next
<1>1. Closed' = [g \in Generations |-> Closed[g] \/ g = close_tx]
  BY RenewCloses DEF Spawn, UdpIInv
<1>2. /\ opened \in Nat /\ opened' = opened + 1 /\ opened + 1 \in Generations
      /\ workers' = [workers EXCEPT ![opened + 1] = 1]
      /\ workers \in [Generations -> 0 .. 1]
  BY OpensAssumption DEF UdpIInv, UdpTypeOK, ControlTypeOK, Spawn, Renew, Generations
<1>3. UdpRoot' = [UdpRoot EXCEPT ![opened + 1] = "connected"]
  <2>1. \A g \in Generations : g \in Nat
    BY OpensAssumption DEF Generations
  <2>2. \A g \in Generations : workers'[g] = IF g = opened + 1 THEN 1 ELSE workers[g]
    BY <1>2
  <2>3. UdpRoot' = [g \in Generations |-> IF g = opened + 1 THEN "connected" ELSE UdpRoot[g]]
    BY <1>2, <2>1, <2>2 DEF UdpRoot
  <2> QED
    BY <2>3 DEF UdpRoot
<1>4. UB!Open
  BY <1>1, <1>2, <1>3 DEF Borrowable, Spawn, Renew, callers, UB!Open, UB!Close, UB!Generations, UB!callers,
     Closed, UdpRoot, Generations
<1> QED
  BY <1>4 DEF UB!Next

LEMMA UdpCallRefines == ASSUME UdpIInv, UdpCalls PROVE UB!Next \/ UNCHANGED UB!vars
<1>0. Held /\ UdpRoot' = UdpRoot
  BY DEF UdpIInv, UdpRoot, UdpCalls, Call, Stop, RunEnds, WaitForStop, GracefulStop, Return, Cancel
<1> USE DEF Generations
<1>1. CASE Stop
  <2>1. UB!Stop
    BY <1>0, <1>1, CallCloses DEF Stop, TakeSender, callers, UB!Stop, UB!Signal, UB!Close, UB!Generations,
       UB!tasks, UB!callers, Closed, UdpRoot
  <2> QED
    BY <2>1 DEF UB!Next
<1>2. CASE RunEnds
  BY <1>0, <1>2, CallCloses DEF RunEnds, channel, callers, UB!vars, UB!Generations, UB!tasks, UB!callers,
     Closed, UdpRoot
<1>3. ASSUME NEW k \in Callers, WaitForStop(k) PROVE UB!Next
  <2>1. UB!WaitForStop(k)
    BY <1>0, <1>3, CallCloses DEF WaitForStop, TakeGroup, channel, UB!WaitForStop, UB!Await, UB!Generations,
       UB!tasks, Closed, UdpRoot
  <2> QED
    BY <2>1 DEF UB!Next
<1>4. ASSUME NEW k \in Callers, GracefulStop(k) PROVE UB!Next
  <2>1. UB!GracefulStop(k)
    BY <1>0, <1>4, CallCloses DEF GracefulStop, TakeSender, TakeGroup, UB!GracefulStop, UB!Signal, UB!Close,
       UB!Await, UB!Generations, UB!tasks, Closed, UdpRoot
  <2> QED
    BY <2>1 DEF UB!Next
<1>5. ASSUME NEW k \in Callers, Return(k) PROVE UB!Next
  <2>1. UdpRoot[awaits[k]] = "gone"
    <3>1. awaits[k] \in Generations /\ awaits[k] <= opened /\ workers[awaits[k]] = 0 /\ opened \in Nat
      BY <1>5, OpensAssumption DEF UdpIInv, Held, ControlTypeOK, Return
    <3> QED
      BY <3>1 DEF UdpRoot
  <2>2. UB!Return(k)
    BY <1>0, <1>5, <2>1, CallCloses DEF Return, channel, UB!Return, UB!Generations, UB!tasks, Closed, UdpRoot
  <2> QED
    BY <2>2 DEF UB!Next
<1>6. ASSUME NEW k \in Callers, Cancel(k) PROVE UB!Next
  <2>1. UB!Cancel(k)
    BY <1>0, <1>6, CallCloses DEF Cancel, channel, UB!Cancel, UB!Generations, UB!tasks, Closed, UdpRoot
  <2> QED
    BY <2>1 DEF UB!Next
<1> QED
  BY <1>1, <1>2, <1>3, <1>4, <1>5, <1>6 DEF UdpCalls, Call

LEMMA UdpTaskRefines ==
  ASSUME UdpIInv, NEW g \in Generations, UdpTask(g)
  PROVE  UB!Next \/ UNCHANGED UB!vars
<1> USE DEF Generations
<1>1. CASE UNCHANGED control
  <2>1. Closed' = Closed /\ UdpRoot' = UdpRoot
    BY <1>1 DEF control, channel, Closed, Received, UdpRoot
  <2> QED
    BY <1>1, <2>1 DEF control, channel, callers, UB!vars, UB!Generations, UB!tasks, UB!callers, Closed, UdpRoot
<1>2. CASE DropsWorker(g)
  <2>1. workers[g] = 1 /\ g <= opened
    <3>1. workers[g] = 1
      BY UdpTaskIs DEF UdpIInv, UdpPhase
    <3> QED
      BY <3>1 DEF UdpIInv, Held
  <2>2. Closed' = Closed
    BY <1>2 DEF DropsWorker, channel, Closed, Received
  <2>3. UdpRoot' = [UdpRoot EXCEPT ![g] = "gone"] /\ UdpRoot[g] = "connected"
    <3>1. /\ workers' = [workers EXCEPT ![g] = 0] /\ opened' = opened /\ opened \in Nat
          /\ workers \in [Generations -> 0 .. 1]
      BY <1>2, <2>1 DEF DropsWorker, UdpIInv, UdpTypeOK, ControlTypeOK
    <3>2. \A h \in Generations : h \in Nat
      BY OpensAssumption
    <3>3. \A h \in Generations : workers'[h] = IF h = g THEN 0 ELSE workers[h]
      BY <3>1
    <3>4. UdpRoot[g] = "connected"
      BY <2>1, <3>1, <3>2 DEF UdpRoot
    <3>5. UdpRoot' = [h \in Generations |-> IF h = g THEN "gone" ELSE UdpRoot[h]]
      BY <2>1, <3>1, <3>2, <3>3 DEF UdpRoot
    <3> QED
      BY <3>4, <3>5 DEF UdpRoot
  <2>4. UB!ConnectionLeaves(g)
    BY <1>2, <2>2, <2>3 DEF DropsWorker, channel, callers, UB!ConnectionLeaves, UB!RootGone, UB!Generations,
       UB!callers, Closed, UdpRoot
  <2> QED
    BY <2>4 DEF UB!Next, UB!Generations
<1> QED
  BY <1>1, <1>2, UdpTaskIs

LEMMA UdpRefinesStep == UdpIInv /\ [UdpNext]_udpvars => [UB!Next]_(UB!vars)
<1> SUFFICES ASSUME UdpIInv, [UdpNext]_udpvars PROVE UB!Next \/ UNCHANGED UB!vars
  OBVIOUS
<1>1. CASE Connect \/ ServerBind
  BY <1>1, UdpSpawnRefines DEF Connect, ServerBind
<1>2. CASE UdpCalls
  BY <1>2, UdpCallRefines
<1>3. CASE UdpBind \/ ConnectFails \/ ConnectPanics \/ UNCHANGED udpvars
  <2>1. UNCHANGED <<opened, close_tx, sender, message, wg, workers, caller, awaits>>
    BY <1>3 DEF UdpBind, ConnectFails, ConnectPanics, udpvars, control, channel, callers
  <2>2. Closed' = Closed /\ UdpRoot' = UdpRoot
    BY <2>1 DEF Closed, Received, UdpRoot
  <2> QED
    BY <2>1, <2>2 DEF UB!vars, UB!Generations, UB!tasks, UB!callers, Closed, UdpRoot, Generations
<1>4. CASE \E g \in Generations : TaskStarts(g) \/ TaskReads(g) \/ TaskLeaves(g) \/ TaskCloses(g)
  BY <1>4, UdpTaskRefines DEF UdpTask
<1> QED
  BY <1>1, <1>2, <1>3, <1>4 DEF UdpNext

(* The UDP bootstrap, with its senders, messages and workers, implements   *)
(* Bootstrap, whose waits are exact.                                       *)
THEOREM UdpRefinement == UdpSpec => UdpRefinesBootstrap
BY UdpInvariant, UdpRefinesInit, UdpRefinesStep, PTL DEF UdpSpec, UdpRefinesBootstrap, UB!Spec
=============================================================================
