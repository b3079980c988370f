# Retty in TLA+

This directory models retty, an asynchronous Rust framework for network
protocols: what its pipelines, connections, bootstraps, codecs and executor
promise, and what the programs in `examples` and `tests` get out of them;
checked with TLC on small instances and, for the safety properties that matter
most, proved with TLAPS for all values of the constants.  Paths are relative to
the crate `src/`; "tcp mod.rs" is `src/bootstrap/bootstrap_tcp/mod.rs`, "udp
mod.rs" is `src/bootstrap/bootstrap_udp/mod.rs`.

## The system

| Component | State | Operations | Meets |
|---|---|---|---|
| Pipeline (`src/channel/pipeline.rs`, `pipeline_internal.rs`) | three vectors (names, handlers, contexts), the queue `transmits` | `add_back`, `add_front`, `remove*`, `update`/`finalize`, the inbound events, `write`, `close`, `poll_transmit` | calls the first handler; called by the connection task and by the application |
| Handlers and contexts (`src/channel/handler.rs`) | the links `next_handler`, `next_context` of each context | `generate`, `fire_*`, the downcasts of `*_internal` | call each other in a chain, borrow each other's `RefCell` |
| TCP connection task (tcp mod.rs:138-219) | the socket, one position in its loop | the write loop, the timer, `select!` of close, timer and read | drives one pipeline; told to stop by the bootstrap |
| Bootstrap (`src/bootstrap/mod.rs`, tcp mod.rs:38-136) | `close_tx`, `wg`; in the accept loop a wait group of its own | `bind`, `connect`, `stop`, `wait_for_stop`, `graceful_stop`, the accept loop | spawns tasks, closes their channel, waits for their workers |
| UDP bootstrap (`src/bootstrap/bootstrap_udp`) | a stored socket, then one task | `bind`, `connect`, a loop over batches of datagrams | as TCP |
| Line decoder and codecs (`src/codec`) | `discarding`, `discarded_bytes`, `transport_active` | `decode`, the codec's loop over a buffer, the string codec | handlers of a pipeline |
| Local executor (`src/executor`) | a thread-local set of tasks | `run`, `spawn`, `spawn_local`, `try_yield_local`, `yield_local` | runs everything on one thread |
| Examples and tests | the chat servers' map of peers, the clients' channel from stdin | chat handlers, the clients' loops, the echo test | use all of the above |
| Transport context (`src/transport`) | none | plain data | carried by messages |

What is hard about it, and what each part has to get right:

- **Pipeline.** Three vectors edited in lockstep by index; links that are stale
  between an edit and the next `update()`; events that re-enter the library
  from inside handlers, under `RefCell` borrows that panic instead of blocking;
  messages whose types are only checked when they arrive.  Correct means:
  vectors aligned, no event ever reaches a handler that is already running,
  nothing changes under a running event, a finalized pipeline visits its
  handlers in order, the queue is first in, first out.
- **Connection tasks.** One thread, but the application, the peer, the kernel and
  the clock act at every `await`.  `select!` takes any branch that is ready.
  Correct means: messages go out in the order they were written, datagrams reach the
  handlers once, the handlers see a well-formed life cycle on every error path, a
  stop, a deadline, a reply and a datagram are all served in the end, as long as the loop goes on.
- **Bootstraps.** Stop may race with accept, with a second `bind`, with other
  waiters and with a waiter that gives up; `connect` fails half way, or is
  called without a socket.  Correct means: nothing runs that cannot be stopped, a
  wait that took a wait group is exact, it returns, and the end of `run()` cuts no handler off.
- **Codecs.** A line decoder with a mode that lasts over reads, and a codec that
  does not.  Correct means: what is delivered is a function of the bytes that
  can be stated without the loop.
- **Executor.** Tasks are polled inside of each other.  Correct means: none is
  polled inside of itself, no wake is lost, none starves.
- **Programs.** Handlers that share a map and write to the pipelines of tasks
  that wait elsewhere.  Correct means: map and handlers agree, all
  members hear one conversation, the programs end.

Nothing is persisted, so there is no recovery after a crash.  A panic ends the
executor's thread; the models treat it as the end.

## The modules

| Module | Models | Uses |
|---|---|---|
| `Pipeline` | pipeline, handlers, contexts | |
| `ConnectionLifecycle` | abstract: what the handlers of a connection see | |
| `TcpConnection` | `process_pipeline` | implements `ConnectionLifecycle` |
| `UdpConnection` | the loop of the UDP `connect` | implements `ConnectionLifecycle` |
| `Bootstrap` | abstract: generations, stop and wait, for every bootstrap; its guarantees are proved, that the next ones implement it is checked too | extends `Opens` |
| `Opens` | the generations and their bound | |
| `StopControl` | what every bootstrap keeps: senders, messages, wait groups, waiting callers, the end of `run()` | extends `Opens` |
| `Server` | a TCP server, its accept loops and connections | extends `StopControl`; implements `Bootstrap` and, per socket, `ConnectionLifecycle` |
| `UdpBootstrap` | a UDP client or server: its stored socket, its tasks | extends `StopControl`; implements `Bootstrap` |
| `LineDecoder` | line decoder, codec loop, string codec | |
| `Executor` | tasks, queues, nested ticks | |
| `EchoExchange` | `test_echo_tcp` of `tests/echo_test.rs` | extends `Executor` |
| `ChatServerTcp`, `ChatServerUdp` | the chat servers | |
| `EchoClient` | `client_tcp.rs`, `client_udp.rs` | |
| `ExampleTask` | the variables the three modules above share: where a task awaits, its queue, what it sent | |
| `MC*` | instances for TLC, with their configurations | |
| `*Proofs` | theorems of the module they are named after; `ServerProofs` also those of `UdpBootstrap`, `ExecutorProofs` those of `EchoExchange` | |
| `ExampleProofs` | theorems of the chat servers and `EchoClient`; a name of one of the programs has its prefix (`Udp`, `Client`) where the others have the like | |

**Pipeline.**  `names`, `handlers`, `contexts` are the vectors (a handler and its
context come out of one `generate()`, so one identifier names both), `nextHandler` and
`nextContext` the links, kept for removed handlers too, because other contexts
may still lead to them.  An event is a `stack` of frames, one per running
call, with the handler it borrows mutably and the context it borrows shared;
`Enter` is a call of a `*_internal` method with every way it can panic, `Fire`
a `ctx.fire_*`, `Return` the return, which for `poll_write` downcasts the
polled message.  `remove(name)` is a loop: `RemoveByName` collects the indices,
`RemoveNext` deletes one; nothing runs in between, the intermediate states are
there to check that an index is never out of range.  Panics set `fault`.  `stale`,
`rank`, `adds`, `written` and `sent` are history variables: no guard reads
them, except that each handler object is added once (it is moved) and that
`written` is bounded.  Events without a typed message behave alike; the instance
has one of them (`close`).  Handlers are arbitrary user code: in every call
they may fire any event any number of times, write, and try to edit the pipeline.
`poll_write` alone is narrower: a handler polls the next one once and
returns what it got, as the handlers of the library do.  (Those of the echo
examples answer from a queue of their own instead: their messages never enter
the pipeline's queue, so the properties of that queue say nothing of them.)
`Pipeline::write` goes to the queue directly and passes no handler.

**TcpConnection.**  `pc` follows the loop: `start` (spawned, not polled yet),
`turn` (the `while let` of tcp mod.rs:155), `write` (waits in `socket.write`), `timers`
(167-178), `select`, `leave` (`transport_inactive`), `done`.  The
application acts only where the task awaits (`Awaiting`): all of it is one
thread.  The socket is a send buffer (`credit`, in bytes), an inbox and the
peer's state.  A reset surfaces as an error of a read or a write, or, once
reported, as an end of file.  What handlers write in `handle_read_eof` or
`transport_inactive` is dropped: the loop is left without looking at the queue.
Deadlines are reduced to none, in the future and past.  `wire` records what each `socket.write` did.

**UdpConnection.**  The same loop over datagrams.  `metas` are the buffers of a
`recv`, which fills the first n and leaves the others as an earlier `recv`
left them; the kernel may coalesce datagrams into one buffer.  A batch is read
without an await, one callback each, so it is one step that writes up to n
messages.  A `recv` of zero datagrams and an error of the socket end the loop, whoever they concern.

**Bootstrap.**  A generation is one successful `bind` or `connect` with its
channel, wait group and root task.  `Open` replaces the sender, which closes
the channel of the generation before.  `stop()` does not suspend (`try_broadcast`), nor does
`wait_for_stop()` before it has taken the wait group: each is one step, and
`graceful_stop()` is both.  `Cancel` is a caller that drops the future.  UDP
servers and all clients have one task per generation: role `client`.

**StopControl, Server, UdpBootstrap.**  `StopControl` has what `Bootstrap` abstracts from: the sender
and the message of each channel (`sender`, `message`; a receiver ends on either), the number of
workers of the wait group of each generation (`workers`), and the end of `run()`.
The future given to `run()` is the caller `Main`; when it is over, `ended` is set
and the tasks that are left are dropped where they are.  `Server` adds the accept loops, each with a
wait group of its own (`child_workers`), sockets that are accepted, spawned, polled for the
first time and fail before `transport_active`, and the callbacks of each connection.
`UdpBootstrap` adds the stored `socket` and one task per generation with its callbacks.
A client's `connect` takes the socket first and may fail after that, or find none and
panic; a server's `bind` does both in one step.  Both calls take `&mut self`, so nobody waits on the
bootstrap meanwhile (`Borrowable`).  In both refinements a channel is closed
if it has its message or no sender, and a root task gone if its worker is: a task that
dropped its worker early, or a call that replaced a sender and then failed, would not implement `Bootstrap`.

**LineDecoder.**  A byte is one of four classes (line feed, carriage return,
text, not UTF-8).  `stream` is everything ever read and frames are positions in
it, so that "the right bytes" can be said without copying them.  The properties refer to
lines by their definition, not by the decoder's loop.

**Executor.**  `queue` holds runnable tasks, `local` those that the runner took out of it
ahead of their polls, `stack` the nest of polls.  `NestedTick` is the `try_tick` of
`yield_local` or `try_yield_local`.  A task woken while it is polled is queued when its poll ends.
What tasks do is arbitrary: spawn, wake, yield, suspend, complete.  smol's queue
is modelled from its use; its order between threads plays no part, there is one.

**EchoExchange** composes five tasks of the echo test with the executor: the steps of their code
are steps of `Executor`, constrained to what the code
of each does; a wake comes at once from another task and later from a socket.
`EchoProgram` fixes the constants of `Executor` to the test's: its five tasks, one `yield_local`
for each line.  It is evaluated in the run and the hypothesis of the theorems.

**ChatServerTcp, ChatServerUdp.**  Each step takes a task from one await to the
next.  A broadcast writes to the queues of other tasks and wakes none of
them.  A socket may be dead and its task not know it yet, while its peer comes back from the
same address.  Over UDP all peers share one decoder and one queue.  What `recv` puts into a buffer is
a sequence of pieces (lines, lines too long, a rest without its end), of one datagram or of
several that were coalesced; the codec decodes it line by line (`ReadLine`) until the
decoder has no more, and drops what is left (`ReadEnds`).  A send may fail (`failed` tells
the copies that did), and the end of the task drops its queue.

**EchoClient.**  The thread on stdin, the channel of bounded capacity, the future that writes and
stops, and the connection's task, with the errors of its socket.  A line whose write failed counts
as written: `EveryLineOnce` is about what the task gives to the socket.

## What is checked

| Run | Instance | Shows |
|---|---|---|
| `pipeline` | 4 handlers, 2 writes; 418 thousand states | `Aligned`, `ForwardLinks`, `NoInternalPanic`, `FinalizedOrder`, `TypedPipelineRuns`, `WriteOrder`, `NoneMeansDrained`, `RemoveExact`: whatever is edited, fired and written, in whatever order, only the panics a user can cause occur |
| `tcp` | 3 messages of 1, 2 and 3 bytes over a send buffer of 2, 2 bytes read one at a time; 37 thousand states | `WireOrder`, `RefinesLifecycle`, `DrainedBeforeWaiting`; live: `StopEnds`, `DeadlineServed`, `RepliesGoOut` |
| `udp` | 3 datagrams, 2 buffers of 2, a send buffer of 1; 141 thousand states | `DeliveredOnce`, `RefinesLifecycle`; live: `DatagramsServed`, `StopEnds` |
| `server` | 2 binds, 2 sockets, 2 callers; 143 thousand states | `HandlersTold`, `RefinesBootstrap`; live: `ClosedTells`, `StopReturns` |
| `udp_bootstrap` | client or server, 3 connects, 2 callers; 90 thousand states | `Stoppable`, `UdpHandlersTold`, `UdpRefinesBootstrap` |
| `executor` | main and 3 tasks, 3 yields, 2 wakes during polls; 45 thousand states | `NoReentry`; live: `RunnableRuns`, `WokenRuns` |
| `line_decoder` | streams of up to 5 bytes, `max_length` 2, all settings; 204 thousand states | `ExactLines`, `FrameContents`, `DiscardingExact`: the decoder against the definition of lines |
| `echo_exchange` | 4 lines and "bye"; 832 states | `LinesInOrder`, `NothingLost`; live: `TestEnds` |
| `chat_tcp` | 3 sockets of 2 addresses, 3 lines; 84 thousand states | `Entries`, `MembersHear` |
| `chat_udp` | 3 peers, 3 buffers of up to 2 pieces, batches of 2; 86 thousand states | `OneConversation`, `DamageBounded` |
| `echo_client` | 6 lines, a channel of 3; 5550 states | `EveryLineOnce`; live: `ProgramEnds` |
| `tcp_whole_messages` | as `tcp` | the counterexample of `WholeMessages`, see below |

Each module's `TypeOK` is proved or is the first conjunct of one of its invariants.

**Bounds.**
`pipeline`: one codec whose types differ on its two sides, two handlers of the same name, so that
`remove` finds two indices, and one with the reserved name; pipelines of up to three handlers are
long enough for a link to skip a position and for stale links of removed
handlers to meet new neighbours; two writes order a queue.
`tcp`: messages shorter than, equal to and longer than the send buffer reach a
full buffer, a partial write and an error with two messages left; two reads
of one byte reach reads after replies; deadlines of all three kinds.
`udp`: three datagrams over two buffers let a second `recv` fill one buffer
and leave an old datagram in the other, and two in a buffer are coalesced; the handlers always want
a later timeout, which may be past or not when the loop looks at it; the `tcp` run has handlers that want one at once
or none.
`server`: two binds are needed to replace one, two
sockets to have a child accepted before and after the stop, two callers to
compete for the wait group.  `udp_bootstrap`: three connects, so that one task runs, one ends and one is
started while a connect in between fails.  `executor`: three tasks besides main are the fewest with which two can
keep a third one's `yield_local` busy for ever.
`line_decoder`: five bytes hold a line too long, its delimiter and a line after
it, cut into reads everywhere.  `chat_tcp`: an address comes back while its old socket and another
member are there.  `chat_udp`: every kind of buffer, three in a row: one that is damaged, the one lost with it, one that must not be.
`echo_client`: more lines than the channel holds.  All counters stop at a named
bound; the sets of addresses and sockets of the chats are symmetric (safety only).

**Deadlock** is not checked: every system here comes to rest, the connection when its task is
done, the pipeline in a panic, the programs at their end.  That they do not stop early is what the
liveness properties say.

**Fairness.**  The executor polls woken tasks, so steps between awaits and a
write that can proceed are weakly fair.  `tokio::select!` starts at a random
branch, so a branch that is ready again and again is taken in the end: strong
fairness of each branch.  A deadline passes in the end (`TimePasses`, strong, because
handlers may move it) and the kernel sends what is in a UDP socket's buffer.  Two
assumptions are of the environment and written where they are used:
`FairPeerSpec` adds that the TCP peer reads what it is sent, and
`Hurried` is an alternative in the properties themselves: handlers whose next deadline is always past
when the loop looks at it keep it from ever awaiting (tcp mod.rs:175, udp mod.rs:119).
Likewise `NestedForever` for the executor: a `yield_local` whose tasks
keep waking each other never returns.  The runner of `run()` takes turns with main:
strong fairness of `RunnerTicks`.  `Server` assumes that a connection told to close
ends, strongly, because it may be between two reads; that is `StopEnds` of `TcpConnection`, with its
provisos: the peer reads, the handlers are not `Hurried`.  The like of a UDP task is `StopEnds` of `UdpConnection`,
where the kernel sends.  `Bootstrap` and `UdpBootstrap` assume no fairness: what is said of them is safety.  `EchoExchange` assumes that its
loopback sockets take what is written and that a day passes when nothing
else happens; `EchoClient` that the thread and the tasks go on, not that the
user types or the server answers.

## What is proved

All for any handlers, names, message types, sizes, buffers, sockets, tasks, callers and bounds.

- `PipelineProofs`: `TypeOK`, `Aligned`, `ForwardLinks`, `NoInternalPanic`.  The
  inductive invariant adds `Positions` (ranks are within the number of adds,
  every handler in the vectors or behind a link has one), `Removing` (the
  indices that a removal has left hold the name it removes, and no event runs
  meanwhile) and `Path` (the frames of the running event are in order, each
  with its own context, the first one at the head of the vectors).  Links
  cannot be described by the vectors alone, since they outlive edits; a fixed
  position for every handler ever added makes "forward" a relation no edit can change.  From
  `ForwardLinks` and `Path` the next handler lies after all running ones, so its borrow succeeds.

  On this rest `WriteOrder`, `EventFreezesPipeline`, `NoDeadEnd`, and with `Linked` (while no edit has come since
  `update()`, the link of every context in the vectors is its neighbour there) `FinalizedOrder`,
  `TypedPipelineRuns` and `NoneMeansDrained`.  `RemoveExact` needs `Marked`: while a removal runs, every handler
  of the name has its index among those still to be deleted; to delete the
  highest of them moves only handlers that are not.
- `TcpConnectionProofs`: `TypeOK`, `WireOrder`, `ActiveWhileRunning`, and `RefinesLifecycle`:
  each step maps to a step of the life cycle or to a stutter, given `Phase`, what the handlers have seen at each
  place of the loop.  `DrainedBeforeWaiting` follows from `Flushed`: at the timers the queue is empty
  or the last write failed.
- `UdpConnectionProofs`: `RefinesLifecycle`, by the same argument; `Phase` is
  inductive by itself, since what a batch holds decides only whether there is a callback.
  `DeliveredOnce` is inductive once it is said of the datagrams handed to the handlers and
  those in the socket together, as one increasing sequence (`Datagrams`).  The hard
  step is a batch: its coalesced buffers are consecutive parts of the inbox, and what the batch
  delivers is their concatenation without the empty datagrams.
- `BootstrapProofs`: `TypeOK`, `Stoppable`, `NoOrphans`, `WaitMeansGone` of the abstract bootstrap; the
  invariant adds that generations not opened yet have no task (`Opened`).
- `ServerProofs`: `HandlersTold`, that a server implements `Bootstrap` and that each of
  its connections implements `ConnectionLifecycle`.  The invariant adds `Counted`
  (each count is the number of tasks that hold a worker), `Opened`, `Phase` (what the handlers of a task have
  seen) and `Waits` (a wait that is over was for an accept loop that is gone).  Of `UdpBootstrap`:
  `Stoppable`, `UdpHandlersTold` and `UdpRefinesBootstrap`.  What both share is `Held`: the only sender that lives is the one the
  bootstrap keeps, nothing of a generation exists before it is opened, and a wait is for
  an opened one until its worker is gone.  `UdpPhase` adds that a generation has its worker as long as its task lives.
- `LineDecoderProofs`: `ExactLines`, `FrameContents`, `DiscardingExact`, so that what is
  delivered is what the definition of lines says, for streams of any length and any cut into
  reads.  The invariant adds `Loop`: inside of the codec's loop the decoder either discards and has not moved, or stands
  behind a line and has delivered the lines up to it; and `Behind`.  Where the
  code searches for the next or the last end of a line, the proof takes the least or
  greatest element of a set of numbers (`LeastExists`, by well-foundedness) instead of an induction.
- `ExecutorProofs`: `NoReentry`.  The invariant says that the nest holds the tasks being polled
  (`Nest`) and the two queues together the runnable ones (`Queues`), each once.  It
  rests on lemmas about sequences without repetition: appending, cutting and concatenating them.
  Of the echo test: each step is one of the executor or leaves the scheduling alone
  (`EchoIsScheduled`), so that invariant carries over.  `LinesInOrder` and `NothingLost` then need
  `Flow` (the lines on their way are those written, in order, and each handler has counted what went by),
  `Control` (who stops whom only after "bye" came back) and `Endings` (the order in which the tasks end).
- `ExampleProofs`, chat over TCP: `Entries`, `MembersHear`.  The invariant adds what a handler knows of its
  address (`Known`), that a line's socket has one (`Spoken`), and that a handler which never joined is told nothing
  (`Strangers`).  The client: `EveryLineOnce`.  Chat over UDP: `DamageBounded` and `OneConversation`.  The
  invariant adds `Midst`: the decoder discards exactly if the next buffer will be lost, and inside of a buffer
  all before its place is whole; and `Mode`: the map holds exactly the peers that take part.  `DamageBounded` is split
  into `Sorted`, `Sound` and `Complete`, `OneConversation` into the order of the copies and
  which of them there are (`Hears`).  A broadcast iterates over the map in any order; that it
  lists each member once is a lemma of its own (`ListsAll`), by cardinality.

The assumptions are the named `ASSUME` of each module, evaluated by TLC in every
run that extends it; of the echo test also `EchoProgram`.  Every invariant and action property of the runs is
proved.  Only model-checked: what needs fairness or ENABLED, which is out of the prover's
reach: `StopEnds` (over TCP and UDP), `DeadlineServed`, `RepliesGoOut`, `DatagramsServed`, `ClosedTells`, `StopReturns`,
`RunnableRuns`, `WokenRuns`, `TestEnds`, `ProgramEnds`.

## Where the code and its documentation differ

One difference is kept as a run, because it is a bug on an ordinary path.
`tcp_whole_messages`: `socket.write` may take a part of a message when the send
buffer is nearly full; the loop logs the count and drops the rest (tcp mod.rs:156),
while the documentation says that the pipeline "will send the message outbound" (`src/lib.rs:140`).

The others are visible in the models and show in how the properties are stated:

- "Stops the client" (`bootstrap_tcp_client.rs:45`): `stop()` has no effect while the task waits in
  `socket.write`; the close channel is looked at in `select!` only.  `StopEnds` assumes a peer that reads.
- `write()` (`pipeline_internal.rs:148`) wakes nobody.  A message written while the
  task waits in `select!` is sent after the next read or deadline, a day at the latest, and is
  lost if the bootstrap is stopped first: "write, then `graceful_stop()`" (`lib.rs:239-253`) may
  send nothing.  `RepliesGoOut` holds of what handlers write in a callback after which the loop goes on, unless the peer resets.  The echo test meets the same: without its
  timer of a day it could wait for the echo of "bye" for ever (`tests/echo_test.rs:329`, `TestEnds`).
- What a handler writes in `handle_read_eof` never goes out: the loop breaks at once (tcp mod.rs:190-194, udp
  mod.rs:142-145) and the queue is dropped with the pipeline, although the TCP peer may only have closed
  its half.  The same holds of messages left after a write error when a stop comes first.
- "prioritize socket.write than socket.read" (tcp mod.rs:154, udp mod.rs:98): once per turn, not
  over the reads of a batch nor after a write error; `DrainedBeforeWaiting` is what holds.
- "Waits for stop of the server" (`bootstrap_tcp_server.rs:47`): only the first waiter waits, the
  second finds no wait group and returns at once (`src/bootstrap/mod.rs:76-79`).
- A second `bind` replaces the wait group of the generation before (tcp mod.rs:54): `graceful_stop()`
  does not wait for that one, and the end of `run()` may drop its connections.  `HandlersTold` is about
  the generation whose wait group was taken.
- UDP `connect` ignores its `peer_addr` (udp mod.rs:49), "Connects to the remote peer" (`bootstrap_udp_client.rs:42`).
- "until there is no other pending task" (`src/executor/mod.rs:95`): `yield_local` does not run
  the tasks which the runner has already taken out of the queue.
- "splits on line-endings" (`lib.rs:134`): a line that spans two reads is lost, each buffer is decoded
  by itself (codec `mod.rs:57`); a line of exactly `max_length` bytes is refused, since the delimiter is looked for
  below `max_length` (`line_based_frame_decoder.rs:44`) and the test of line 69 never holds.  `ExactLines` states both.
- "every peer, except for the sender" (`chat_server_tcp.rs:47`): a handler that ends with a
  read error never leaves the map; a peer that comes back from the same address finds the old
  entry, does not join (line 111) and is told nothing.  `MembersHear` is about those who joined.
- All peers of the UDP chat server share one decoder (`chat_server_udp.rs:193`), and a decoder that finds a line
  too long drops the rest of the buffer, as it does when it finds the end of that line
  (`line_based_frame_decoder.rs:85-111`, codec `mod.rs:57-69`).  A line too long of one peer thus costs the lines
  behind it in its buffer and later buffers up to and including the next one that begins with a line, with all lines in
  it, whoever sent them (`DamageBounded`).
- A failed send of the UDP chat ends the drain (udp mod.rs:111-114): what is queued for other peers waits for the next
  event, and is dropped if that is a stop.  `OneConversation` says what is left of the conversation then.
- A full channel from stdin ends the client in the middle of its input (`client_tcp.rs:145`).  A server that closes does not end it: `main` awaits the
  next line of stdin (line 156), and `ProgramEnds` is about the end of the thread that reads it.

## Not modelled

- The contents of messages, addresses, logging, socket options and the setters
  that configure a bootstrap, which store a value before the start; `src/transport`, plain data.
- The echo servers of `examples`, which are the server of the echo test, and the UDP and handler tests.
- A handler object shared by the pipelines of several connections: the deadline
  of one pipeline changes only in its own callbacks.
- In `EchoExchange` sockets are ideal; what they do otherwise is in `TcpConnection`.

## What is left

1. The echo exchange over UDP, where a lost "bye" keeps the test waiting.
2. `TcpConnection` and `Server` in one module, so that `HandlersTold` covers the queue of each connection.
