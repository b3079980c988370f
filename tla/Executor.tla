------------------------------ MODULE Executor ------------------------------
(***************************************************************************)
(* The local executor (src/executor/mod.rs): tasks of one thread, run and  *)
(* spawn, spawn_local, try_yield_local and yield_local.                    *)
(*                                                                         *)
(* run(f) polls f itself, the "main" task, and the tasks in the queue in   *)
(* turn, until f is done.  A running task may run others inside of its own *)
(* poll (yield_local), which may do so as well: "stack" is the nest.  Only *)
(* tasks in the queue are run that way, never main.                        *)
(***************************************************************************)
EXTENDS Integers, Sequences, SequencesExt

CONSTANTS
  Tasks, Main,
  MaxYields, \* bound: number of calls of yield_local and try_yield_local
  MaxWakes   \* bound: number of times a task is woken while it is polled

ASSUME ExecutorAssumption == Main \in Tasks /\ MaxYields \in Nat /\ MaxWakes \in Nat

VARIABLES
  status,  \* of each task
  queue,   \* the runnable tasks of the LocalExecutor
  local,   \* those that its runner has taken out of the queue ahead of their polls
  stack,   \* the tasks being polled, the innermost last
  woken,   \* tasks woken while they are polled
  yields, wakes  \* history: number of yields, of wakes of polled tasks

history == <<yields, wakes>>
vars == <<status, queue, local, stack, woken, history>>

Polled == {"running", "yielding", "trying"}   \* in its own code, in yield_local, in try_yield_local

(* Every variable stays in its range. *)
TypeOK ==
  /\ status \in [Tasks -> {"unborn", "runnable", "waiting", "done", "dropped"} \cup Polled]
  /\ queue \in Seq(Tasks \ {Main}) /\ local \in Seq(Tasks \ {Main}) /\ stack \in Seq(Tasks) /\ woken \subseteq Tasks
  /\ yields \in 0 .. MaxYields /\ wakes \in 0 .. MaxWakes

Init ==
  /\ status = [t \in Tasks |-> IF t = Main THEN "runnable" ELSE "unborn"]
  /\ queue = <<>> /\ local = <<>> /\ stack = <<>> /\ woken = {} /\ yields = 0 /\ wakes = 0

Top(t) == stack # <<>> /\ Last(stack) = t
Running(t) == Top(t) /\ status[t] = "running"

-----------------------------------------------------------------------------
(* The runner of run() polls main and the queue by turns. *)
PollMain ==
  /\ stack = <<>> /\ status[Main] = "runnable"
  /\ stack' = <<Main>> /\ status' = [status EXCEPT ![Main] = "running"]
  /\ UNCHANGED <<queue, local, woken, history>>

Poll(t) ==
  /\ status' = [status EXCEPT ![t] = "running"] /\ stack' = Append(stack, t)
  /\ UNCHANGED <<woken, history>>

\* Mutant: the queue is a stack.
RunnerTicksNewest ==
  /\ stack = <<>> /\ status[Main] # "done" /\ queue # <<>>
  /\ Poll(Last(queue)) /\ queue' = Front(queue) /\ UNCHANGED local

(* The runner takes the first k tasks out of the queue, as many as it      *)
(* likes, and polls them before it comes back for more.                    *)
RunnerTicks ==
  /\ stack = <<>> /\ status[Main] # "done"
  /\ \/ /\ local # <<>>
        /\ Poll(Head(local)) /\ local' = Tail(local) /\ UNCHANGED queue
     \/ /\ local = <<>>
        /\ \E k \in 1 .. Len(queue) :
             /\ Poll(Head(queue))
             /\ local' = SubSeq(queue, 2, k) /\ queue' = SubSeq(queue, k + 1, Len(queue))

(* try_tick() in the task on top looks into the queue only. *)
NestedTick ==
  /\ stack # <<>> /\ status[Last(stack)] \in {"yielding", "trying"} /\ queue # <<>>
  /\ Poll(Head(queue)) /\ queue' = Tail(queue) /\ UNCHANGED local

(* yield_local() and try_yield_local() of the running task. *)
Yield(t, mode) ==
  /\ Running(t) /\ yields < MaxYields
  /\ yields' = yields + 1
  /\ status' = [status EXCEPT ![t] = mode]
  /\ UNCHANGED <<local, queue, stack, woken, wakes>>

(* try_tick() found nothing to run. *)
YieldReturns(t) ==
  /\ Top(t) /\ status[t] \in {"yielding", "trying"} /\ queue = <<>>
  /\ status' = [status EXCEPT ![t] = "running"]
  /\ UNCHANGED <<local, queue, stack, woken, history>>

(* spawn_local(): the task is runnable, nothing of it has run. *)
Spawn(t, u) ==
  /\ Running(t) /\ status[u] = "unborn"
  /\ status' = [status EXCEPT ![u] = "runnable"] /\ queue' = Append(queue, u)
  /\ UNCHANGED <<local, stack, woken, history>>

(* The poll of t is over: a task that tried to yield once goes on. *)
Below(t, becomes) ==
  /\ stack' = Front(stack)
  /\ status' = [u \in Tasks |->
       IF u = t THEN becomes
       ELSE IF stack' # <<>> /\ u = Last(stack') /\ status[u] = "trying" THEN "running"
       ELSE status[u]]

\* Mutant: a task that was woken while it was polled sleeps on.
SuspendForgets(t) ==
  /\ Running(t)
  /\ Below(t, "waiting") /\ woken' = woken \ {t}
  /\ UNCHANGED <<local, queue, history>>

Suspend(t) ==
  /\ Running(t)
  /\ Below(t, IF t \in woken THEN "runnable" ELSE "waiting")
  /\ queue' = IF t \in woken /\ t # Main THEN Append(queue, t) ELSE queue
  /\ woken' = woken \ {t}
  /\ UNCHANGED <<local, history>>

Complete(t) ==
  /\ Running(t)
  /\ Below(t, "done") /\ woken' = woken \ {t}
  /\ UNCHANGED <<local, queue, history>>

\* Mutant: a task that is polled is queued at once.
WakeAtOnce(t) ==
  /\ status[t] \in {"waiting"} \cup Polled
  /\ status' = [status EXCEPT ![t] = IF @ = "waiting" THEN "runnable" ELSE @]
  /\ queue' = IF t # Main THEN Append(queue, t) ELSE queue
  /\ UNCHANGED <<local, stack, woken, history>>

(* A waker, called by a task, by the reactor's thread or by a timer.  A    *)
(* task that is being polled is queued when its poll is over.              *)
Wake(t) ==
  /\ \/ /\ status[t] = "waiting"
        /\ status' = [status EXCEPT ![t] = "runnable"]
        /\ queue' = IF t # Main THEN Append(queue, t) ELSE queue
        /\ UNCHANGED <<woken, wakes>>
     \/ /\ status[t] \in Polled /\ t \notin woken /\ wakes < MaxWakes
        /\ woken' = woken \cup {t} /\ wakes' = wakes + 1 /\ UNCHANGED <<status, queue>>
  /\ UNCHANGED <<local, stack, yields>>

(* run() returns: the executor and the detached tasks in it are dropped. *)
Return ==
  /\ stack = <<>> /\ status[Main] = "done" /\ \E t \in Tasks : status[t] \in {"runnable", "waiting"}
  /\ status' = [t \in Tasks |-> IF status[t] \in {"runnable", "waiting"} THEN "dropped" ELSE status[t]]
  /\ queue' = <<>> /\ local' = <<>>
  /\ UNCHANGED <<stack, woken, history>>

PollEnds(t) == Suspend(t) \/ Complete(t)

Next ==
  \/ PollMain \/ RunnerTicks \/ NestedTick \/ Return
  \/ \E t \in Tasks : \/ Yield(t, "yielding") \/ Yield(t, "trying") \/ YieldReturns(t)
                      \/ PollEnds(t) \/ Wake(t)
                      \/ \E u \in Tasks : Spawn(t, u)

Spec == Init /\ [][Next]_vars

(* The runner goes on, by turns with main (SF), and a poll comes to an     *)
(* end if the calls of yield_local in it do.                               *)
FairSpec ==
  /\ Spec
  /\ WF_vars(PollMain) /\ WF_vars(Return) /\ SF_vars(RunnerTicks) /\ WF_vars(NestedTick)
  /\ \A t \in Tasks : WF_vars(PollEnds(t)) /\ WF_vars(YieldReturns(t))

-----------------------------------------------------------------------------
(* Properties *)

(* No task is polled inside of itself, however deep tasks yield to each    *)
(* other, and none is in the queue while it is polled: the callbacks a     *)
(* connection task makes into its pipeline are never entered again by it;  *)
(* and every variable stays in its range.                                  *)
NoReentry ==
  /\ TypeOK
  /\ IsInjective(stack) /\ IsInjective(queue \o local)
  /\ \A t \in Tasks : status[t] \in Polled <=> t \in ToSet(stack)
  /\ ToSet(queue \o local) = {t \in Tasks \ {Main} : status[t] = "runnable"}

(* The one way to starve the rest: tasks that wake each other keep the     *)
(* loop of a yield_local supplied, and it never returns (line 98).         *)
NestedForever == []<><<NestedTick>>_vars

(* A runnable task is polled in the end, or run() returns first: neither   *)
(* main nor the tasks the runner took starve the queue, only a yield_local *)
(* that never returns does.                                                *)
RunnableRuns == NestedForever \/ \A t \in Tasks \ {Main} :
  status[t] = "runnable" ~> status[t] # "runnable"

(* A wake is never lost: a task that is woken while it is polled will be   *)
(* polled again, unless it is done or run() returns; the same exception.   *)
WokenRuns == NestedForever \/ \A t \in Tasks \ {Main} :
  t \in woken ~> t \notin woken /\ status[t] \in {"runnable", "done", "dropped"}
=============================================================================
