-------------------------- MODULE BootstrapProofs ---------------------------
(***************************************************************************)
(* The safety of starting and stopping a bootstrap, for any number of      *)
(* generations, tasks and callers, of a client and of a server.            *)
(***************************************************************************)
EXTENDS Bootstrap, TLAPS

(* A running child belongs to a generation that was opened and whose       *)
(* accept loop is there; senders and roots exist for opened ones only.     *)
Opened ==
  /\ \A g \in Generations : g > opened => root[g] = "unborn"
  /\ close_tx # None => close_tx <= opened

IInv == TypeOK /\ Opened /\ Stoppable /\ NoOrphans /\ WaitMeansGone

LEMMA InitIInv == Init => IInv
BY OpensAssumption DEF Init, IInv, TypeOK, Opened, Stoppable, NoOrphans, WaitMeansGone, Generations

(* Every variable keeps its type. *)
LEMMA TypeStep == TypeOK /\ [Next]_vars => TypeOK'
<1> SUFFICES ASSUME TypeOK, [Next]_vars PROVE TypeOK'
  OBVIOUS
<1> USE OpensAssumption DEF TypeOK, Generations
<1>1. CASE Open
  BY <1>1 DEF Open, Close, callers
<1>2. CASE Stop
  BY <1>2 DEF Stop, Signal, Close, tasks, callers
<1>3. ASSUME NEW k \in Callers, WaitForStop(k) PROVE TypeOK'
  BY <1>3 DEF WaitForStop, Await, tasks
<1>4. ASSUME NEW k \in Callers, GracefulStop(k) PROVE TypeOK'
  BY <1>4 DEF GracefulStop, Signal, Close, Await, tasks
<1>5. ASSUME NEW k \in Callers, Return(k) PROVE TypeOK'
  BY <1>5 DEF Return, tasks
<1>6. ASSUME NEW k \in Callers, Cancel(k) PROVE TypeOK'
  BY <1>6 DEF Cancel, tasks
<1>7. ASSUME NEW g \in Generations, NEW c \in Conns, Accept(g, c) PROVE TypeOK'
  BY <1>7 DEF Accept, callers
<1>8. ASSUME NEW g \in Generations,
             RootCloses(g) \/ AcceptFails(g) \/ RootDrained(g)
               \/ ConnectionCloses(g) \/ ConnectionLeaves(g)
      PROVE  TypeOK'
  BY <1>8 DEF RootCloses, AcceptFails, RootDrained, ConnectionCloses, ConnectionLeaves,
              RootGone, callers
<1>9. ASSUME NEW c \in Conns, ChildCloses(c) \/ ChildLeaves(c) PROVE TypeOK'
  BY <1>9 DEF ChildCloses, ChildLeaves, ChildGone, callers
<1>10. CASE UNCHANGED vars
  BY <1>10 DEF vars, tasks, callers
<1> QED
  BY <1>1, <1>2, <1>3, <1>4, <1>5, <1>6, <1>7, <1>8, <1>9, <1>10 DEF Next

(* The inductive step: every conjunct of IInv is kept by every action. *)
LEMMA NextIInv == IInv /\ [Next]_vars => IInv'
<1> SUFFICES ASSUME IInv, [Next]_vars PROVE IInv'
  OBVIOUS
<1>0. /\ TypeOK /\ Opened /\ Stoppable /\ NoOrphans /\ WaitMeansGone
      /\ TypeOK'
  BY TypeStep DEF IInv
<1> USE OpensAssumption DEF TypeOK, Generations
<1>1. CASE Open
  <2>1. Opened'
    BY <1>0, <1>1 DEF Open, Close, callers, Opened
  <2>2. Stoppable'
    <3> SUFFICES ASSUME NEW g \in Generations, g <= opened + 1, ~closed'[g]
                 PROVE  g = opened + 1
      BY <1>1 DEF Open, Stoppable
    <3>1. closed'[g] = (closed[g] \/ g = close_tx)
      BY <1>1 DEF Open, Close
    <3>2. ~closed[g] /\ g # close_tx
      BY <3>1
    <3> QED
      BY <1>0, <3>2 DEF Stoppable
  <2>3. NoOrphans'
    BY <1>0, <1>1 DEF Open, Close, callers, NoOrphans, Opened
  <2>4. WaitMeansGone'
    BY <1>0, <1>1 DEF Open, Close, callers, WaitMeansGone, Opened, NoOrphans
  <2> QED
    BY <1>0, <2>1, <2>2, <2>3, <2>4 DEF IInv
<1>2. CASE Stop
  <2>1. Opened'
    BY <1>0, <1>2 DEF Stop, Signal, Close, tasks, callers, Opened
  <2>2. Stoppable'
    BY <1>0, <1>2 DEF Stop, Signal, Close, tasks, callers, Opened, Stoppable
  <2>3. NoOrphans'
    BY <1>0, <1>2 DEF Stop, Signal, Close, tasks, callers, NoOrphans, Opened
  <2>4. WaitMeansGone'
    BY <1>0, <1>2 DEF Stop, Signal, Close, tasks, callers, WaitMeansGone, Opened, NoOrphans
  <2> QED
    BY <1>0, <2>1, <2>2, <2>3, <2>4 DEF IInv
<1>3. ASSUME NEW k \in Callers, WaitForStop(k) PROVE IInv'
  <2>1. Opened'
    BY <1>0, <1>3 DEF WaitForStop, Await, tasks, Opened
  <2>2. Stoppable'
    BY <1>0, <1>3 DEF WaitForStop, Await, tasks, Opened, Stoppable
  <2>3. NoOrphans'
    BY <1>0, <1>3 DEF WaitForStop, Await, tasks, NoOrphans, Opened
  <2>4. WaitMeansGone'
    BY <1>0, <1>3 DEF WaitForStop, Await, tasks, WaitMeansGone, Opened, NoOrphans
  <2> QED
    BY <1>0, <2>1, <2>2, <2>3, <2>4 DEF IInv
<1>4. ASSUME NEW k \in Callers, GracefulStop(k) PROVE IInv'
  <2>1. Opened'
    BY <1>0, <1>4 DEF GracefulStop, Signal, Close, Await, tasks, Opened
  <2>2. Stoppable'
    BY <1>0, <1>4 DEF GracefulStop, Signal, Close, Await, tasks, Opened, Stoppable
  <2>3. NoOrphans'
    BY <1>0, <1>4 DEF GracefulStop, Signal, Close, Await, tasks, NoOrphans, Opened
  <2>4. WaitMeansGone'
    BY <1>0, <1>4 DEF GracefulStop, Signal, Close, Await, tasks, WaitMeansGone, Opened, NoOrphans
  <2> QED
    BY <1>0, <2>1, <2>2, <2>3, <2>4 DEF IInv
<1>5. ASSUME NEW k \in Callers, Return(k) PROVE IInv'
  <2>1. Opened'
    BY <1>0, <1>5 DEF Return, tasks, Opened
  <2>2. Stoppable'
    BY <1>0, <1>5 DEF Return, tasks, Opened, Stoppable
  <2>3. NoOrphans'
    BY <1>0, <1>5 DEF Return, tasks, NoOrphans, Opened
  <2>4. WaitMeansGone'
    <3> SUFFICES ASSUME NEW j \in Callers, caller'[j] = "returned", awaits[j] # None
                 PROVE  /\ root[awaits[j]] = "gone"
                        /\ \A c \in Conns : child[c] = "running" => gen[c] # awaits[j]
      BY <1>5 DEF Return, tasks, WaitMeansGone
    <3>1. CASE j = k
      BY <1>0, <1>5, <3>1 DEF Return, NoOrphans
    <3>2. CASE j # k
      BY <1>0, <1>5, <3>2 DEF Return, WaitMeansGone
    <3> QED
      BY <3>1, <3>2
  <2> QED
    BY <1>0, <2>1, <2>2, <2>3, <2>4 DEF IInv
<1>6. ASSUME NEW k \in Callers, Cancel(k) PROVE IInv'
  <2>1. Opened'
    BY <1>0, <1>6 DEF Cancel, tasks, Opened
  <2>2. Stoppable'
    BY <1>0, <1>6 DEF Cancel, tasks, Opened, Stoppable
  <2>3. NoOrphans'
    BY <1>0, <1>6 DEF Cancel, tasks, NoOrphans, Opened
  <2>4. WaitMeansGone'
    BY <1>0, <1>6 DEF Cancel, tasks, WaitMeansGone, Opened, NoOrphans
  <2> QED
    BY <1>0, <2>1, <2>2, <2>3, <2>4 DEF IInv
<1>7. ASSUME NEW g \in Generations, NEW c \in Conns, Accept(g, c) PROVE IInv'
  <2>1. Opened'
    BY <1>0, <1>7 DEF Accept, callers, Opened
  <2>2. Stoppable'
    BY <1>0, <1>7 DEF Accept, callers, Opened, Stoppable
  <2>3. NoOrphans'
    BY <1>0, <1>7 DEF Accept, callers, NoOrphans, Opened
  <2>4. WaitMeansGone'
    BY <1>0, <1>7 DEF Accept, callers, WaitMeansGone, Opened, NoOrphans
  <2> QED
    BY <1>0, <2>1, <2>2, <2>3, <2>4 DEF IInv
<1>8. ASSUME NEW g \in Generations, RootCloses(g) \/ AcceptFails(g) PROVE IInv'
  <2>1. Opened'
    BY <1>0, <1>8 DEF RootCloses, AcceptFails, callers, Opened
  <2>2. Stoppable'
    BY <1>0, <1>8 DEF RootCloses, AcceptFails, callers, Opened, Stoppable
  <2>3. NoOrphans'
    BY <1>0, <1>8 DEF RootCloses, AcceptFails, callers, NoOrphans, Opened
  <2>4. WaitMeansGone'
    BY <1>0, <1>8 DEF RootCloses, AcceptFails, callers, WaitMeansGone, Opened, NoOrphans
  <2> QED
    BY <1>0, <2>1, <2>2, <2>3, <2>4 DEF IInv
<1>9. ASSUME NEW g \in Generations, RootDrained(g) PROVE IInv'
  <2>1. Opened'
    BY <1>0, <1>9 DEF RootDrained, callers, Opened
  <2>2. Stoppable'
    BY <1>0, <1>9 DEF RootDrained, callers, Opened, Stoppable
  <2>3. NoOrphans'
    BY <1>0, <1>9 DEF RootDrained, callers, NoOrphans, Opened
  <2>4. WaitMeansGone'
    BY <1>0, <1>9 DEF RootDrained, callers, WaitMeansGone, Opened, NoOrphans
  <2> QED
    BY <1>0, <2>1, <2>2, <2>3, <2>4 DEF IInv
<1>10. ASSUME NEW g \in Generations, ConnectionCloses(g) \/ ConnectionLeaves(g) PROVE IInv'
  <2>1. Opened'
    BY <1>0, <1>10 DEF ConnectionCloses, ConnectionLeaves, RootGone, callers, Opened
  <2>2. Stoppable'
    BY <1>0, <1>10 DEF ConnectionCloses, ConnectionLeaves, RootGone, callers, Opened, Stoppable
  <2>3. NoOrphans'
    <3>1. root[g] = "connected" /\ root' = [root EXCEPT ![g] = "gone"]
          /\ UNCHANGED <<child, gen>>
      BY <1>10 DEF ConnectionCloses, ConnectionLeaves, RootGone
    <3>2. \A c \in Conns : child[c] = "running" => gen[c] # g
      BY <1>0, <3>1 DEF NoOrphans
    <3> QED
      BY <1>0, <3>1, <3>2 DEF NoOrphans
  <2>4. WaitMeansGone'
    BY <1>0, <1>10 DEF ConnectionCloses, ConnectionLeaves, RootGone, callers, WaitMeansGone, Opened, NoOrphans
  <2> QED
    BY <1>0, <2>1, <2>2, <2>3, <2>4 DEF IInv
<1>11. ASSUME NEW c \in Conns, ChildCloses(c) \/ ChildLeaves(c) PROVE IInv'
  <2>1. Opened'
    BY <1>0, <1>11 DEF ChildCloses, ChildLeaves, ChildGone, callers, Opened
  <2>2. Stoppable'
    BY <1>0, <1>11 DEF ChildCloses, ChildLeaves, ChildGone, callers, Opened, Stoppable
  <2>3. NoOrphans'
    BY <1>0, <1>11 DEF ChildCloses, ChildLeaves, ChildGone, callers, NoOrphans, Opened
  <2>4. WaitMeansGone'
    BY <1>0, <1>11 DEF ChildCloses, ChildLeaves, ChildGone, callers, WaitMeansGone, Opened, NoOrphans
  <2> QED
    BY <1>0, <2>1, <2>2, <2>3, <2>4 DEF IInv
<1>12. CASE UNCHANGED vars
  BY <1>0, <1>12 DEF vars, tasks, callers, IInv, Opened, Stoppable, NoOrphans, WaitMeansGone
<1> QED
  BY <1>1, <1>2, <1>3, <1>4, <1>5, <1>6, <1>7, <1>8, <1>9, <1>10, <1>11, <1>12 DEF Next

(* The strengthened invariant holds for every instance of the bootstrap.   *)
THEOREM Invariant == Spec => []IInv
BY InitIInv, NextIInv, PTL DEF Spec

(* Every variable of a bootstrap stays in its range.                       *)
THEOREM TypeCorrect == Spec => []TypeOK
<1>1. IInv => TypeOK
  BY DEF IInv
<1> QED
  BY Invariant, <1>1, PTL

(* A generation whose channel is open is the one the bootstrap can stop.   *)
THEOREM AlwaysStoppable == Spec => []Stoppable
<1>1. IInv => Stoppable
  BY DEF IInv
<1> QED
  BY Invariant, <1>1, PTL

(* No connection outlives the accept loop that waits for it.               *)
THEOREM NeverOrphans == Spec => []NoOrphans
<1>1. IInv => NoOrphans
  BY DEF IInv
<1> QED
  BY Invariant, <1>1, PTL

(* A wait that took a wait group ends with every task of it gone.          *)
THEOREM WaitsAreExact == Spec => []WaitMeansGone
<1>1. IInv => WaitMeansGone
  BY DEF IInv
<1> QED
  BY Invariant, <1>1, PTL

=============================================================================
