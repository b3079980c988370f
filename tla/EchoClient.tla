----------------------------- MODULE EchoClient -----------------------------
(***************************************************************************)
(* The example clients (examples/client_tcp.rs, examples/client_udp.rs,    *)
(* whose loops are the same): a thread reads lines from stdin and passes   *)
(* them on through a bounded channel; the future "main" writes them to the *)
(* pipeline and stops the bootstrap after "bye" or at the end of the       *)
(* input; the connection's task (TcpConnection) sends them and reads what  *)
(* the server echoes.                                                      *)
(*                                                                         *)
(* main and the task share a thread: the task goes on only while main      *)
(* awaits, and its states are those in which it awaits itself.  Lines are  *)
(* numbered as they are typed.                                             *)
(***************************************************************************)
EXTENDS ExampleTask

CONSTANTS
  MaxInput,  \* bound: number of lines the user types
  Capacity   \* lines the channel holds: its buffer of 8 and one for the sender

ASSUME EchoClientAssumption == MaxInput \in Nat /\ Capacity \in Nat \ {0}

VARIABLES
  input,      \* the kinds of the lines the user has typed
  reader,     \* the thread: "reading" or "ended", when its sender is dropped
  channel,    \* lines passed on and not taken
  main,       \* where main is: it awaits a line, is in its loop, awaits the stop, is done
  closed,     \* the close channel has its message
  echoes,     \* number of lines the server has echoed that are not read
  server      \* "up" or "closed"

app == <<main, closed>>
net == <<sent, echoes, server>>
clientvars == <<input, reader, channel, transmits, phase, app, net>>

Lines == 1 .. MaxInput

(* Every variable stays in its range; the channel does not overflow. *)
ClientTypeOK ==
  /\ input \in Seq({"text", "bye", "empty"}) /\ Len(input) <= MaxInput
  /\ reader \in {"reading", "ended"} /\ channel \in Seq(Lines) /\ Len(channel) <= Capacity
  /\ main \in {"awaiting", "looping", "stopping", "done"} /\ closed \in BOOLEAN
  /\ phase \in {"start", "select", "write", "done"}
  /\ transmits \in Seq(Lines) /\ sent \in Seq(Lines) /\ echoes \in 0 .. Len(sent)
  /\ server \in {"up", "closed"}

ClientInit ==
  /\ input = <<>> /\ reader = "reading" /\ channel = <<>> /\ main = "awaiting"
  /\ transmits = <<>> /\ phase = "start" /\ closed = FALSE
  /\ sent = <<>> /\ echoes = 0 /\ server = "up"

-----------------------------------------------------------------------------
(* The thread: an empty line, "bye" and a full channel end it.  The end of *)
(* the input reads as an empty line.                                       *)
PassOn(kind) ==
  IF Len(channel) = Capacity
    THEN reader' = "ended" /\ UNCHANGED channel
    ELSE /\ channel' = Append(channel, Len(input) + 1)
         /\ reader' = IF kind = "bye" THEN "ended" ELSE "reading"

Input(kind) ==
  /\ reader = "reading" /\ Len(input) < MaxInput
  /\ input' = Append(input, kind)
  /\ IF kind = "empty" THEN reader' = "ended" /\ UNCHANGED channel ELSE PassOn(kind)
  /\ UNCHANGED <<transmits, phase, app, net>>

-----------------------------------------------------------------------------
(* main *)
Wakes ==
  /\ main = "awaiting" /\ (channel # <<>> \/ reader = "ended")
  /\ main' = "looping"
  /\ UNCHANGED <<input, reader, channel, transmits, phase, closed, net>>

(* graceful_stop(), up to its wait. *)
GracefulStop == main' = "stopping" /\ closed' = TRUE

(* pipeline.write(..), which wakes nobody; close() does nothing more. *)
TakeLine ==
  /\ main = "looping" /\ channel # <<>>
  /\ channel' = Tail(channel)
  /\ transmits' = IF phase = "done" THEN transmits ELSE Append(transmits, Head(channel))
  /\ IF input[Head(channel)] = "bye" THEN GracefulStop ELSE UNCHANGED app
  /\ UNCHANGED <<input, reader, phase, net>>

Awaits ==
  /\ main = "looping" /\ channel = <<>> /\ reader = "reading"
  /\ main' = "awaiting"
  /\ UNCHANGED <<input, reader, channel, transmits, phase, closed, net>>

\* Mutant: the loop waits for "bye" also when the sender is gone.
LoopEndsNot ==
  /\ main = "looping" /\ channel = <<>> /\ reader = "ended"
  /\ main' = "awaiting"
  /\ UNCHANGED <<input, reader, channel, transmits, phase, closed, net>>

LoopEnds ==
  /\ main = "looping" /\ channel = <<>> /\ reader = "ended"
  /\ GracefulStop
  /\ UNCHANGED <<input, reader, channel, transmits, phase, net>>

Returns ==
  /\ main = "stopping" /\ phase = "done"
  /\ main' = "done"
  /\ UNCHANGED <<input, reader, channel, transmits, phase, closed, net>>

-----------------------------------------------------------------------------
(* The connection's task. *)
TaskRuns(from) == main # "looping" /\ phase = from
ClientProceed == phase' = IF transmits' = <<>> THEN "select" ELSE "write"
ClientEnd == phase' = "done" /\ transmits' = <<>>

ClientStarts ==
  /\ TaskRuns("start") /\ UNCHANGED transmits /\ ClientProceed
  /\ UNCHANGED <<input, reader, channel, app, net>>

\* Mutant: the newest message is sent first.
WriteNewest ==
  /\ TaskRuns("write")
  /\ sent' = Append(sent, Last(transmits)) /\ transmits' = Front(transmits) /\ ClientProceed
  /\ UNCHANGED <<input, reader, channel, app, echoes, server>>

ClientWrites ==
  /\ TaskRuns("write")
  /\ sent' = Append(sent, Head(transmits)) /\ transmits' = Tail(transmits) /\ ClientProceed
  /\ UNCHANGED <<input, reader, channel, app, echoes, server>>

(* The connection is gone: the line is lost, and those after it wait.      *)
ClientWriteError ==
  /\ TaskRuns("write") /\ server = "closed"
  /\ sent' = Append(sent, Head(transmits)) /\ transmits' = Tail(transmits)
  /\ phase' = "select"
  /\ UNCHANGED <<input, reader, channel, app, echoes, server>>

ClientReads ==
  /\ TaskRuns("select") /\ echoes > 0 /\ echoes' = 0
  /\ UNCHANGED transmits /\ ClientProceed
  /\ UNCHANGED <<input, reader, channel, app, sent, server>>

(* handle_read_eof of the EchoHandler only prints and fires close. *)
ClientEof ==
  /\ TaskRuns("select") /\ server = "closed" /\ echoes = 0 /\ ClientEnd
  /\ UNCHANGED <<input, reader, channel, app, net>>

ClientReadError ==
  /\ TaskRuns("select") /\ server = "closed" /\ ClientEnd
  /\ UNCHANGED <<input, reader, channel, app, net>>

CloseBranch ==
  /\ TaskRuns("select") /\ closed /\ ClientEnd
  /\ UNCHANGED <<input, reader, channel, app, net>>

ClientDay ==
  /\ TaskRuns("select") /\ transmits # <<>>
  /\ UNCHANGED transmits /\ ClientProceed
  /\ UNCHANGED <<input, reader, channel, app, net>>

(* The server echoes lines, or closes. *)
Echo ==
  /\ server = "up" /\ echoes < Len(sent) /\ echoes' = echoes + 1
  /\ UNCHANGED <<input, reader, channel, transmits, phase, app, sent, server>>
ServerCloses ==
  /\ server = "up" /\ server' = "closed"
  /\ UNCHANGED <<input, reader, channel, transmits, phase, app, sent, echoes>>

Program == Wakes \/ TakeLine \/ Awaits \/ LoopEnds \/ Returns
           \/ ClientStarts \/ ClientWrites \/ ClientWriteError
           \/ ClientReads \/ ClientReadError \/ ClientEof \/ CloseBranch

ClientNext ==
  \/ \E kind \in {"text", "bye", "empty"} : Input(kind)
  \/ Program \/ ClientDay \/ Echo \/ ServerCloses

ClientSpec == ClientInit /\ [][ClientNext]_clientvars

(* The executor goes on with what can; the server reads what it is sent;   *)
(* select! takes the close branch in the end.  Days need not pass.         *)
ClientFairSpec ==
  /\ ClientSpec /\ WF_clientvars(Program) /\ SF_clientvars(CloseBranch) /\ WF_clientvars(Wakes)

-----------------------------------------------------------------------------
(* Properties *)

(* As long as the connection lives every line that was passed on is in     *)
(* exactly one place, and they are in order, whatever the thread, main and *)
(* the task do in between; none is missing while the thread reads.  A      *)
(* write that fails counts as sent and overtakes nothing.  The channel     *)
(* stays within its bound, as every variable in its range.                 *)
EveryLineOnce ==
  /\ ClientTypeOK
  /\ phase # "done" =>
       LET lines == sent \o transmits \o channel
       IN  /\ lines = [i \in 1 .. Len(lines) |-> i]
           /\ Len(lines) \in {Len(input), Len(input) - 1}
           /\ reader = "reading" => Len(lines) = Len(input)

(* When the thread has ended, for whatever reason, the program does, with  *)
(* or without a "bye" in the channel and also after the server has closed  *)
(* (client_tcp.rs:156).  Only the thread ends it: a server that closes     *)
(* while stdin stays open ends the task, and main awaits the next line.    *)
ProgramEnds == reader = "ended" ~> main = "done"
=============================================================================
