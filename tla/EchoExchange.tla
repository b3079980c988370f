---------------------------- MODULE EchoExchange ----------------------------
(***************************************************************************)
(* A whole program on the executor: the echo test over TCP                 *)
(* (tests/echo_test.rs, test_echo_tcp).  One thread polls the test's own   *)
(* future "main", the client's part "app", the accept loop "listener", and *)
(* the connection tasks of both ends, "child" of the server and "client".  *)
(* app writes Iter lines and "bye" (the last) with a yield_local after     *)
(* each, waits for the echo of "bye" and stops the client; main then       *)
(* compares the counts and stops the server.                               *)
(*                                                                         *)
(* Scheduling is the module Executor, the connection tasks are those of    *)
(* TcpConnection for handlers that want no timeout.  The sockets are on    *)
(* the loopback and take what is written; the reactor's thread notices it  *)
(* later.  Lines are numbers, and the few there are fit into one read.     *)
(***************************************************************************)
EXTENDS Executor

CONSTANT Iter  \* ITER

(* The tasks of the program; there is a yield_local for each line. *)
EchoProgram ==
  /\ Tasks = {"main", "app", "listener", "child", "client"} /\ Main = "main"
  /\ Iter \in Nat /\ MaxYields > Iter

Ends == {"child", "client"}    \* the two ends of the connection
Other(e) == IF e = "child" THEN "client" ELSE "child"
Bye == Iter + 1

VARIABLES
  pc,         \* where each task is in its code
  closing,    \* closing[e]: the close channel of the bootstrap of e has its message
  transmits,  \* transmits[e]: messages in the pipeline of e, in its queue or its EchoHandler's
  inbox,      \* inbox[e]: lines in the socket of e, not read
  fired,      \* fired[e]: the timer of e's wait, a day, is over
  count,      \* count[e]: lines the handler of e has counted
  done,       \* the EchoHandlers whose "bye" was sent to the test
  heard       \* history: the lines the client's handler got

lines == <<transmits, inbox, count, done, heard>>
echovars == <<vars, pc, closing, lines, fired>>

(* Every variable stays in its range. *)
EchoTypeOK ==
  /\ TypeOK
  /\ pc \in [Tasks -> {"start", "bound", "count", "server", "connecting", "writing", "recv",
                       "accepting", "draining", "select", "stopping", "over"}]
  /\ closing \in [Ends -> BOOLEAN] /\ fired \in [Ends -> BOOLEAN]
  /\ transmits \in [Ends -> Seq(1 .. Bye)] /\ inbox \in [Ends -> Seq(1 .. Bye)]
  /\ count \in [Ends -> 0 .. Bye] /\ done \subseteq Ends /\ heard \in Seq(1 .. Bye)

EchoInit ==
  /\ Init
  /\ pc = [t \in Tasks |-> "start"]
  /\ closing = [e \in Ends |-> FALSE] /\ fired = [e \in Ends |-> FALSE]
  /\ transmits = [e \in Ends |-> <<>>] /\ inbox = [e \in Ends |-> <<>>]
  /\ count = [e \in Ends |-> 0] /\ done = {} /\ heard = <<>>

-----------------------------------------------------------------------------
Goto(t, next) == pc' = [pc EXCEPT ![t] = next]
At(t, here) == Running(t) /\ pc[t] = here

(* What a task waits for has come: by another task, which calls its waker  *)
(* at once, or by a socket or a timer, whose thread does so in its time.   *)
Called(t) == CASE
     t = "main"     -> \/ pc[t] = "count" /\ pc["app"] \in {"stopping", "over"}
                       \/ pc[t] = "server" /\ "child" \in done
                       \/ pc[t] = "stopping" /\ pc["listener"] = "over"
  [] t = "app"      -> \/ pc[t] = "recv" /\ "client" \in done
                       \/ pc[t] = "stopping" /\ pc["client"] = "over"
  [] t = "listener" -> \/ pc[t] = "accepting" /\ closing["child"]
                       \/ pc[t] = "draining" /\ (pc["child"] = "over" \/ status["child"] = "unborn")
  [] t \in Ends     -> closing[t]

Connected == pc["app"] # "start"
Signalled(t) == CASE
     t = "app"      -> pc[t] = "connecting" /\ Connected
  [] t = "listener" -> pc[t] = "accepting" /\ Connected /\ status["child"] = "unborn"
  [] t \in Ends     -> inbox[t] # <<>> \/ pc[Other(t)] = "over" \/ fired[t]
  [] OTHER          -> FALSE

WakesUp(t) == /\ status[t] = "waiting" /\ (Called(t) \/ Signalled(t))
              /\ Wake(t) /\ UNCHANGED <<pc, closing, lines, fired>>

(* The wakers a task has called are done before it goes on. *)
Settled == \A t \in Tasks : status[t] = "waiting" => ~Called(t)

Await(t) == Settled /\ Suspend(t)
Finish(t) == Settled /\ Complete(t) /\ Goto(t, "over")

-----------------------------------------------------------------------------
(* main: bind spawns the accept loop, then the test the client's part. *)
Bind == At("main", "start") /\ Spawn("main", "listener") /\ Goto("main", "bound")
        /\ UNCHANGED <<closing, lines, fired>>
SpawnApp == At("main", "bound") /\ Spawn("main", "app") /\ Goto("main", "count")
            /\ UNCHANGED <<closing, lines, fired>>

(* rx.recv(), server_done_rx.recv(), the assertions, graceful_stop(). *)
MainGoesOn ==
  /\ Called("main")
  /\ \/ At("main", "count") /\ Goto("main", "server") /\ UNCHANGED closing
     \/ At("main", "server") /\ Goto("main", "stopping")
        /\ closing' = [closing EXCEPT !["child"] = TRUE]
  /\ UNCHANGED <<vars, lines, fired>>

(* app: connect, then spawn the connection. *)
Connect == At("app", "start") /\ Await("app") /\ Goto("app", "connecting")
           /\ UNCHANGED <<closing, lines, fired>>
SpawnClient == At("app", "connecting") /\ Spawn("app", "client") /\ Goto("app", "writing")
               /\ UNCHANGED <<closing, lines, fired>>

(* pipeline.write(..); yield_local(); after "bye" recv() is next. *)
Write ==
  /\ At("app", "writing") /\ Yield("app", "yielding")
  /\ transmits' = [transmits EXCEPT !["client"] = Append(@, yields + 1)]
  /\ Goto("app", IF yields + 1 = Bye THEN "recv" ELSE "writing")
  /\ UNCHANGED <<closing, inbox, count, done, heard, fired>>

\* Mutant: the application does not wait for the echo of "bye".
ReceivedEarly ==
  /\ At("app", "recv")
  /\ Goto("app", "stopping") /\ closing' = [closing EXCEPT !["client"] = TRUE]
  /\ UNCHANGED <<vars, lines, fired>>

(* The count is sent to main, and graceful_stop() told the client. *)
Received ==
  /\ At("app", "recv") /\ Called("app")
  /\ Goto("app", "stopping") /\ closing' = [closing EXCEPT !["client"] = TRUE]
  /\ UNCHANGED <<vars, lines, fired>>

(* The waits above and in the tasks below. *)
Waits(t) ==
  /\ pc[t] \in {"count", "server", "recv", "stopping", "accepting", "draining", "select"}
  /\ Running(t) /\ ~Called(t) /\ ~Signalled(t)
  /\ Await(t) /\ UNCHANGED <<pc, closing, lines, fired>>

Stopped(t) ==
  /\ t \in {"main", "app"} /\ At(t, "stopping") /\ Called(t)
  /\ Finish(t) /\ UNCHANGED <<closing, lines, fired>>

-----------------------------------------------------------------------------
(* The accept loop: as in Bootstrap. *)
Listen == At("listener", "start") /\ Goto("listener", "accepting")
          /\ UNCHANGED <<vars, closing, lines, fired>>
Accept == At("listener", "accepting") /\ Signalled("listener") /\ Spawn("listener", "child")
          /\ UNCHANGED <<pc, closing, lines, fired>>
ListenerCloses == At("listener", "accepting") /\ closing["child"] /\ Goto("listener", "draining")
                  /\ UNCHANGED <<vars, closing, lines, fired>>
Drained == At("listener", "draining") /\ Called("listener")
           /\ Finish("listener") /\ UNCHANGED <<closing, lines, fired>>

-----------------------------------------------------------------------------
\* Mutant: the newest message is sent first.
FlushNewest(e, unread, echoes) ==
  /\ inbox' = [inbox EXCEPT ![e] = unread, ![Other(e)] = @ \o Reverse(transmits[e]) \o echoes]
  /\ transmits' = [transmits EXCEPT ![e] = <<>>]
(* The connection tasks: before one waits it writes all that is queued. *)
Flush(e, unread, echoes) ==
  /\ inbox' = [inbox EXCEPT ![e] = unread, ![Other(e)] = @ \o transmits[e] \o echoes]
  /\ transmits' = [transmits EXCEPT ![e] = <<>>]

Start(e) ==
  /\ At(e, "start") /\ Goto(e, "select")
  /\ Flush(e, inbox[e], <<>>)
  /\ UNCHANGED <<vars, closing, count, done, heard, fired>>

(* handle_read of the EchoHandler for each line: count it; the server      *)
(* echoes; "bye" is told to the test.                                      *)
ReadBranch(e) ==
  /\ At(e, "select") /\ inbox[e] # <<>>
  /\ count' = [count EXCEPT ![e] = @ + Len(inbox[e])]
  /\ heard' = IF e = "client" THEN heard \o inbox[e] ELSE heard
  /\ done' = IF Bye \in ToSet(inbox[e]) THEN done \cup {e} ELSE done
  /\ Flush(e, <<>>, IF e = "child" THEN inbox[e] ELSE <<>>)
  /\ UNCHANGED <<vars, pc, closing, fired>>

\* Mutant: the wait goes on without a look at the queue.
TimerBranchWaits(e) ==
  /\ At(e, "select") /\ fired[e] /\ fired' = [fired EXCEPT ![e] = FALSE]
  /\ UNCHANGED <<vars, pc, closing, lines>>

TimerBranch(e) ==
  /\ At(e, "select") /\ fired[e] /\ fired' = [fired EXCEPT ![e] = FALSE]
  /\ Flush(e, inbox[e], <<>>)
  /\ UNCHANGED <<vars, pc, closing, count, done, heard>>

(* The close channel, or the end of file: transport_inactive. *)
Leave(e) ==
  /\ At(e, "select") /\ (closing[e] \/ (inbox[e] = <<>> /\ pc[Other(e)] = "over"))
  /\ Finish(e) /\ UNCHANGED <<closing, lines, fired>>

(* A day goes by: that is longer than the rest takes to come to a halt. *)
Day(e) ==
  /\ stack = <<>> /\ \A t \in Tasks : status[t] = "waiting" => ~Called(t) /\ ~Signalled(t)
  /\ status[e] = "waiting" /\ pc[e] = "select"
  /\ \A t \in Tasks : status[t] # "runnable"
  /\ fired' = [fired EXCEPT ![e] = TRUE]
  /\ UNCHANGED <<vars, pc, closing, lines>>
-----------------------------------------------------------------------------
(* What the one thread does, which has at most one task to go on with. *)
Thread ==
  \/ (PollMain \/ RunnerTicks \/ NestedTick \/ YieldReturns("app") \/ Return)
     /\ UNCHANGED <<pc, closing, lines, fired>>
  \/ Bind \/ SpawnApp \/ MainGoesOn \/ Connect \/ SpawnClient \/ Write \/ Received
  \/ Listen \/ Accept \/ ListenerCloses \/ Drained
  \/ \E e \in Ends : Start(e) \/ ReadBranch(e) \/ TimerBranch(e) \/ Leave(e)
  \/ \E t \in Tasks : Waits(t) \/ Stopped(t)

EchoNext == Thread \/ \E t \in Tasks : WakesUp(t) \/ (t \in Ends /\ Day(t))

EchoSpec == EchoInit /\ [][EchoNext]_echovars

(* The thread goes on, the wakers are called, and if there is nothing else *)
(* to do, a day goes by.                                                   *)
EchoFairSpec ==
  /\ EchoSpec /\ WF_echovars(Thread)
  /\ \A t \in Tasks : WF_echovars(WakesUp(t))
  /\ \A e \in Ends : SF_echovars(Day(e))

-----------------------------------------------------------------------------
(* Properties *)

(* Whatever the tasks run inside of each other, every line that was        *)
(* written is in exactly one place on its way, and they are in order: what *)
(* the client has heard, is on its way back, waits in the server, is on    *)
(* its way there, or waits for a client that nobody has woken; and every   *)
(* variable stays in its range.                                            *)
LinesInOrder ==
  /\ EchoTypeOK
  /\ heard \o inbox["client"] \o transmits["child"] \o inbox["child"] \o transmits["client"]
       = [i \in 1 .. yields |-> i]

(* The order in which the test stops the two bootstraps loses nothing: no  *)
(* connection is told to stop, or finds its socket closed, with a line     *)
(* unread or a message unsent; main, when it compares the counts, finds    *)
(* Iter + 1 lines at each end (lines 341, 342); and run() cuts no task of  *)
(* the server short.  (It does cut the client's part short if that still   *)
(* waits when main is done.)                                               *)
NothingLost ==
  /\ \A e \in Ends : closing[e] \/ pc[e] = "over" => inbox[e] = <<>> /\ transmits[e] = <<>>
  /\ pc["main"] \in {"stopping", "over"} => \A e \in Ends : count[e] = Iter + 1
  /\ status["listener"] # "dropped" /\ status["child"] # "dropped"

(* The test ends: the echo of "bye" comes (line 329), and both stops       *)
(* return.  A message that nobody woke the client for is written at the    *)
(* latest when its timer of a day is over; without Day nothing would send  *)
(* it.                                                                     *)
TestEnds == <>(status["main"] = "done")
=============================================================================
