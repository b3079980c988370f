------------------------------ MODULE Pipeline ------------------------------
(***************************************************************************)
(* The channel subsystem: a Pipeline<R, W> and the chain of handlers that  *)
(* events walk through (src/channel).                                      *)
(*                                                                         *)
(* PipelineInternal keeps three vectors that are edited together: the      *)
(* names, the handlers and the contexts.  Handler::generate makes one      *)
(* handler and one context out of a user's handler object, so the model    *)
(* uses one identifier for both.  A context also holds a link to the next  *)
(* handler and the next context; the links are written by finalize() only, *)
(* so between an edit of the vectors and the next update() they are stale. *)
(*                                                                         *)
(* An event is a chain of nested calls.  "stack" holds the calls that are  *)
(* running; every frame keeps its handler mutably and its context shared   *)
(* borrowed (RefCell), and the bottom one keeps Pipeline.internal shared   *)
(* borrowed.  A failed borrow, a failed downcast and a reserved name are   *)
(* panics: "fault" is set and nothing runs any more.                       *)
(***************************************************************************)
EXTENDS Integers, Sequences, SequencesExt

CONSTANTS
  Handlers,   \* the handler objects the user may add, each at most once (they are moved)
  LastHandler,     \* the handler every pipeline ends with
  Name,       \* Name[h]: what Handler::name() of h returns
  Reserved,   \* RESERVED_RETTY_PIPELINE_HANDLE_NAME
  Sig,        \* Sig[h]: the associated types [rin, rout, win, wout] of h
  Transport,  \* the type parameter R of the pipeline
  Events,     \* the events that carry no typed message: transport_active, close, ...
  MaxWrites,  \* bound: number of messages ever written
  None        \* Option::None

AllHandlers == Handlers \cup {LastHandler}
Names == {Name[h] : h \in AllHandlers}
Types == UNION {{Sig[h].rin, Sig[h].rout, Sig[h].win, Sig[h].wout} : h \in AllHandlers}
Ops == Events \cup {"read", "poll_write"}
Faults == {"reserved name", "internal borrowed", "head borrowed", "next borrowed",
           "context downcast", "message downcast"}
Unset == 0                      \* poll_write: nothing polled yet
Values == Nat \cup {None}       \* what poll_write returns; messages are numbered from 1

ASSUME PipelineAssumption ==
  /\ LastHandler \notin Handlers /\ None \notin AllHandlers
  /\ Name \in [AllHandlers -> Names] /\ Name[LastHandler] = Reserved /\ None \notin Names
  /\ Sig \in [AllHandlers -> [rin : Types, rout : Types, win : Types, wout : Types]]
  /\ Events \cap {"read", "poll_write"} = {} /\ None \notin Ops \cup Faults
  /\ MaxWrites \in Nat /\ None \notin Nat

VARIABLES
  names, handlers, contexts,    \* the three vectors of PipelineInternal
  nextHandler, nextContext,     \* the links of each context
  transmits,                    \* messages written and not polled yet
  removing, doomed,             \* remove(): the name, and the indices not removed yet
  event, stack, polled,         \* the event dispatched, its nested calls, the value poll_write returns
  fault,                        \* None, or why the program panicked
  (* history *)
  stale,                        \* the vectors were edited since the last finalize()
  rank, adds,                   \* a position for every handler ever added (0: never), number of adds
  written, sent                 \* number of messages written, messages poll_transmit returned

vectors == <<names, handlers, contexts>>
links == <<nextHandler, nextContext>>
loop == <<removing, doomed>>
call == <<event, stack, polled>>
history == <<stale, rank, adds>>
traffic == <<transmits, written, sent>>
vars == <<vectors, links, loop, call, fault, history, traffic>>

-----------------------------------------------------------------------------
Frame == [h : AllHandlers, c : AllHandlers]

(* Every variable stays in its range; in particular the indices remove() *)
(* still has to delete are indices of the vectors (Vec::remove panics on   *)
(* any other) and never that of the LastHandler.                           *)
TypeOK ==
  /\ names \in Seq(Names) /\ handlers \in Seq(AllHandlers) /\ contexts \in Seq(AllHandlers)
  /\ nextHandler \in [AllHandlers -> AllHandlers \cup {None}]
  /\ nextContext \in [AllHandlers -> AllHandlers \cup {None}]
  /\ removing \in Names \cup {None} /\ doomed \in SUBSET (1 .. Len(names) - 1)
  /\ event \in Ops \cup {None} /\ stack \in Seq(Frame) /\ polled \in Values
  /\ fault \in Faults \cup {None}
  /\ stale \in BOOLEAN /\ rank \in [Handlers -> Int] /\ adds \in Nat
  /\ transmits \in Seq(Nat) /\ written \in Nat /\ sent \in Seq(Nat)

(* A new pipeline holds the LastHandler alone, and it is not finalized. *)
Init ==
  /\ names = <<Name[LastHandler]>> /\ handlers = <<LastHandler>> /\ contexts = <<LastHandler>>
  /\ nextHandler = [c \in AllHandlers |-> None]
  /\ nextContext = [c \in AllHandlers |-> None]
  /\ removing = None /\ doomed = {}
  /\ event = None /\ stack = <<>> /\ polled = Unset
  /\ fault = None
  /\ stale = TRUE /\ rank = [h \in Handlers |-> 0] /\ adds = 0
  /\ transmits = <<>> /\ written = 0 /\ sent = <<>>

-----------------------------------------------------------------------------
(* Who may call into the pipeline: the application when no event runs, or  *)
(* the handler on top of the stack.  The LastHandler calls nothing.        *)
Top == stack[Len(stack)]
UserCode == /\ fault = None /\ removing = None
            /\ stack # <<>> => Top.h # LastHandler

BorrowedHandlers == {stack[i].h : i \in DOMAIN stack}
BorrowedContexts == {stack[i].c : i \in DOMAIN stack}

(* Pipeline.internal.borrow_mut() succeeds only if no event holds it. *)
Exclusive == stack = <<>>

Panic(why) == /\ fault' = why
              /\ UNCHANGED <<vectors, links, loop, call, history, traffic>>

Insert(h, i) ==
  /\ names' = InsertAt(names, i, Name[h])
  /\ handlers' = InsertAt(handlers, i, h)
  /\ contexts' = InsertAt(contexts, i, h)
  /\ stale' = TRUE /\ adds' = adds + 1

\* Mutant: the context of a removed handler stays behind.
DeleteKeepsContext(i) ==
  /\ names' = RemoveAt(names, i)
  /\ handlers' = RemoveAt(handlers, i)
  /\ UNCHANGED <<contexts, rank, adds>> /\ stale' = TRUE

Delete(i) ==
  /\ names' = RemoveAt(names, i)
  /\ handlers' = RemoveAt(handlers, i)
  /\ contexts' = RemoveAt(contexts, i)
  /\ stale' = TRUE /\ UNCHANGED <<rank, adds>>

AddBack(h) ==
  /\ UserCode /\ Exclusive /\ rank[h] = 0 /\ Name[h] # Reserved
  /\ Insert(h, Len(names))
  /\ rank' = [rank EXCEPT ![h] = adds + 1]
  /\ UNCHANGED <<links, loop, call, fault, traffic>>

AddFront(h) ==
  /\ UserCode /\ Exclusive /\ rank[h] = 0 /\ Name[h] # Reserved
  /\ Insert(h, 1)
  /\ rank' = [rank EXCEPT ![h] = -(adds + 1)]
  /\ UNCHANGED <<links, loop, call, fault, traffic>>

(* add_back and add_front refuse the name of the LastHandler. *)
AddReserved(h) ==
  /\ UserCode /\ Exclusive /\ rank[h] = 0 /\ Name[h] = Reserved
  /\ Panic("reserved name")

(* Removing from an empty pipeline is an Err and changes nothing. *)
RemoveBack ==
  /\ UserCode /\ Exclusive /\ Len(names) # 1
  /\ Delete(Len(names) - 1)
  /\ UNCHANGED <<links, loop, call, fault, traffic>>

RemoveFront ==
  /\ UserCode /\ Exclusive /\ Len(names) # 1
  /\ Delete(1)
  /\ UNCHANGED <<links, loop, call, fault, traffic>>

(* remove(handler_name): the first loop collects the indices to remove; a  *)
(* reserved or an unknown name is an Err and changes nothing.              *)
RemoveByName(n) ==
  /\ UserCode /\ Exclusive /\ n # Reserved
  /\ doomed' = {i \in DOMAIN names : names[i] = n} /\ doomed' # {}
  /\ removing' = n
  /\ UNCHANGED <<vectors, links, call, fault, history, traffic>>

\* Mutant: the indices are removed in ascending order.
RemoveNextAscending ==
  /\ removing # None
  /\ \E i \in doomed :
       /\ \A j \in doomed : i <= j
       /\ Delete(i)
       /\ doomed' = doomed \ {i}
       /\ removing' = IF doomed' = {} THEN None ELSE removing
  /\ UNCHANGED <<links, call, fault, traffic>>

(* The second loop removes them, the highest index first.                  *)
(* Pipeline.internal is borrowed mutably until it ends: nothing else runs. *)
RemoveNext ==
  /\ removing # None
  /\ \E i \in doomed :
       /\ \A j \in doomed : j <= i
       /\ Delete(i)
       /\ doomed' = doomed \ {i}
       /\ removing' = IF doomed' = {} THEN None ELSE removing
  /\ UNCHANGED <<links, call, fault, traffic>>

(* add_*, remove_* and remove called by a handler while an event runs. *)
EditDuringEvent == UserCode /\ ~Exclusive /\ Panic("internal borrowed")

-----------------------------------------------------------------------------
\* Mutants: the chain is closed to a ring; contexts that have a link keep it;
\* the loop ends one context early.
SuccessorRing(v, c, old) ==
  IF \E j \in DOMAIN contexts : contexts[j] = c
  THEN LET j == CHOOSE j \in DOMAIN contexts : contexts[j] = c
       IN IF j < Len(contexts) THEN v[j + 1] ELSE v[1]
  ELSE old[c]
SuccessorOnce(v, c, old) ==
  IF old[c] = None /\ \E j \in DOMAIN contexts : contexts[j] = c
  THEN LET j == CHOOSE j \in DOMAIN contexts : contexts[j] = c
       IN IF j < Len(contexts) THEN v[j + 1] ELSE None
  ELSE old[c]
SuccessorShort(v, c, old) ==
  IF \E j \in DOMAIN contexts : contexts[j] = c
  THEN LET j == CHOOSE j \in DOMAIN contexts : contexts[j] = c
       IN IF j + 1 < Len(contexts) THEN v[j + 1] ELSE None
  ELSE old[c]

(* finalize(): the context at position j is linked to the handler and the  *)
(* context at position j + 1, the last one to nothing.  Contexts that are  *)
(* not in the pipeline keep the links they had.                            *)
Successor(v, c, old) ==
  IF \E j \in DOMAIN contexts : contexts[j] = c
  THEN LET j == CHOOSE j \in DOMAIN contexts : contexts[j] = c
       IN IF j < Len(contexts) THEN v[j + 1] ELSE None
  ELSE old[c]

Update ==
  /\ UserCode /\ \A j \in DOMAIN contexts : contexts[j] \notin BorrowedContexts
  /\ nextHandler' = [c \in AllHandlers |-> Successor(handlers, c, nextHandler)]
  /\ nextContext' = [c \in AllHandlers |-> Successor(contexts, c, nextContext)]
  /\ stale' = FALSE
  /\ UNCHANGED <<vectors, loop, call, fault, rank, adds, traffic>>

(* An event always keeps the first context borrowed, and finalize() starts *)
(* with that one: update() from a handler panics before it writes a link.  *)
UpdateDuringEvent ==
  /\ UserCode /\ contexts[1] \in BorrowedContexts
  /\ Panic("internal borrowed")

-----------------------------------------------------------------------------
(* A call enters handler h with context c, e being the event and t the     *)
(* type of the message a read carries: the *_internal methods downcast     *)
(* both, after the caller has borrowed the handler.                        *)
Enter(h, c, e, t, borrowed) ==
  \/ h \in BorrowedHandlers /\ Panic(borrowed)
  \/ h \notin BorrowedHandlers /\ Sig[c] # Sig[h] /\ Panic("context downcast")
  \/ /\ h \notin BorrowedHandlers /\ Sig[c] = Sig[h] /\ e = "read" /\ Sig[h].rin # t
     /\ Panic("message downcast")
  \/ /\ h \notin BorrowedHandlers /\ Sig[c] = Sig[h] /\ (e = "read" => Sig[h].rin = t)
     /\ event' = IF stack = <<>> THEN e ELSE event
     /\ stack' = Append(stack, [h |-> h, c |-> c])
     /\ UNCHANGED <<vectors, links, loop, polled, fault, history, traffic>>

(* The methods of InboundPipeline and OutboundPipeline::close: borrow the  *)
(* first handler and the first context, and call the handler.              *)
Dispatch(e) == UserCode /\ Enter(handlers[1], contexts[1], e, Transport, "head borrowed")

(* Context::fire_*: the running handler passes the event on, or fires      *)
(* another one (a decoder fires an exception out of a read, a client close *)
(* out of an end of file), as often as it likes (a decoder fires every     *)
(* frame).  For poll_write the handlers are assumed to poll the next one   *)
(* once and to return what it returns, as those of the repository do.      *)
Fire(e) ==
  /\ fault = None /\ removing = None /\ stack # <<>>
  /\ event = "poll_write" <=> e = "poll_write"
  /\ e = "poll_write" => Top.h # LastHandler /\ polled = Unset
  /\ nextHandler[Top.c] # None /\ nextContext[Top.c] # None
  /\ Enter(nextHandler[Top.c], nextContext[Top.c], e, Sig[Top.c].rout, "next borrowed")

\* Mutant: the newest message is polled first.
PollNewest ==
  /\ fault = None /\ stack # <<>> /\ event = "poll_write" /\ Top.h = LastHandler /\ polled = Unset
  /\ polled' = IF transmits = <<>> THEN None ELSE transmits[Len(transmits)]
  /\ transmits' = IF transmits = <<>> THEN transmits ELSE Front(transmits)
  /\ UNCHANGED <<vectors, links, loop, event, stack, fault, history, written, sent>>

(* The ends of a poll: the LastHandler pops the oldest message; a context  *)
(* without links answers None.                                             *)
PollLast ==
  /\ fault = None /\ stack # <<>> /\ event = "poll_write" /\ Top.h = LastHandler /\ polled = Unset
  /\ polled' = IF transmits = <<>> THEN None ELSE Head(transmits)
  /\ transmits' = IF transmits = <<>> THEN transmits ELSE Tail(transmits)
  /\ UNCHANGED <<vectors, links, loop, event, stack, fault, history, written, sent>>

PollEnd ==
  /\ UserCode /\ stack # <<>> /\ event = "poll_write" /\ polled = Unset
  /\ nextHandler[Top.c] = None \/ nextContext[Top.c] = None
  /\ polled' = None
  /\ UNCHANGED <<vectors, links, loop, event, stack, fault, history, traffic>>

\* Mutant: the calling context's own output type is expected.
ExpectedWout == IF Len(stack) = 1 THEN Transport ELSE Sig[stack[Len(stack) - 1].c].wout

(* The running handler returns; for poll_write it returns what it polled,  *)
(* which the caller downcasts to its own type: the calling context to Win, *)
(* PipelineInternal::poll_write to R.                                      *)
Expected == IF Len(stack) = 1 THEN Transport ELSE Sig[stack[Len(stack) - 1].c].win
Mistyped == event = "poll_write" /\ polled # None /\ Sig[Top.h].wout # Expected

Return ==
  /\ fault = None /\ stack # <<>>
  /\ event = "poll_write" => polled # Unset
  /\ \/ Mistyped /\ Panic("message downcast")
     \/ /\ ~Mistyped
        /\ stack' = SubSeq(stack, 1, Len(stack) - 1)
        /\ IF Len(stack) > 1
           THEN UNCHANGED <<event, polled, sent>>
           ELSE /\ event' = None /\ polled' = Unset
                /\ sent' = IF polled \in {Unset, None} THEN sent ELSE Append(sent, polled)
        /\ UNCHANGED <<vectors, links, loop, fault, history, transmits, written>>

(* OutboundPipeline::write, by the application or from within a handler:   *)
(* it touches the queue only, so it may run during an event.               *)
Write ==
  /\ UserCode /\ written < MaxWrites
  /\ written' = written + 1 /\ transmits' = Append(transmits, written + 1)
  /\ UNCHANGED <<vectors, links, loop, call, fault, history, sent>>

Next ==
  \/ \E h \in Handlers : AddBack(h) \/ AddFront(h) \/ AddReserved(h)
  \/ RemoveBack \/ RemoveFront \/ RemoveNext \/ EditDuringEvent
  \/ \E n \in Names : RemoveByName(n)
  \/ Update \/ UpdateDuringEvent
  \/ \E e \in Ops : Dispatch(e) \/ Fire(e)
  \/ PollLast \/ PollEnd \/ Return \/ Write

Spec == Init /\ [][Next]_vars

-----------------------------------------------------------------------------
(* Properties *)

(* The position of a handler never changes while it lives, and removed     *)
(* handlers keep theirs: a precedes b in the order events walk.            *)
Precedes(a, b) == a # LastHandler /\ (b = LastHandler \/ rank[a] < rank[b])

(* The three vectors are edited in lockstep: position i of each belongs to *)
(* the same generate(), no handler occurs twice, handlers stand in the     *)
(* order the add_back and add_front calls asked for, and the LastHandler,  *)
(* which alone has the reserved name, is the last one.                     *)
Aligned ==
  /\ Len(names) = Len(handlers) /\ contexts = handlers
  /\ \A i \in DOMAIN handlers : names[i] = Name[handlers[i]]
  /\ \A i, j \in DOMAIN handlers : i < j => Precedes(handlers[i], handlers[j])
  /\ Len(handlers) > 0 /\ handlers[Len(handlers)] = LastHandler

(* Links lead forward only, those of removed handlers and those left by    *)
(* edits without update() included: no event can come back to a handler    *)
(* it is already in, whatever the history of edits (Context::fire_read ...). *)
ForwardLinks ==
  \A c \in AllHandlers : /\ nextHandler[c] # None => Precedes(c, nextHandler[c])
                         /\ nextContext[c] = nextHandler[c]

(* Passing an event on never panics on a borrowed handler or on a context  *)
(* that is not the handler's own: the two panics of fire_* and *_internal  *)
(* that no user can cause.                                                 *)
NoInternalPanic == fault \notin {"next borrowed", "context downcast"}

(* Once finalized, and until the next edit, an event enters exactly the    *)
(* handlers of the pipeline, in their order, without skipping one.         *)
FinalizedOrder ==
  ~stale => /\ Len(stack) <= Len(handlers)
            /\ \A i \in DOMAIN stack : stack[i].h = handlers[i]

(* A link never leads into a dead end: from a linked handler the chain     *)
(* goes on to the LastHandler, so removing handlers without update() may   *)
(* run removed ones but never cuts the others off the transmit queue.      *)
NoDeadEnd ==
  \A c \in AllHandlers :
    nextHandler[c] \in Handlers => nextHandler[nextHandler[c]] # None

(* A finalized pipeline whose neighbours agree on their types, the ends    *)
(* included, never panics on the type of a message, read or polled.        *)
WellTyped ==
  /\ Sig[handlers[1]].rin = Transport /\ Sig[handlers[1]].wout = Transport
  /\ \A i \in 1 .. Len(handlers) - 1 :
       /\ Sig[handlers[i]].rout = Sig[handlers[i + 1]].rin
       /\ Sig[handlers[i]].win = Sig[handlers[i + 1]].wout
TypedPipelineRuns == ~stale /\ WellTyped => fault # "message downcast"

(* What write() queued comes out of poll_transmit() in the same order,     *)
(* nothing lost and nothing twice, with writes from inside handlers and a  *)
(* poll in progress: those that came out, the one that is on its way       *)
(* through the handlers and those in the queue are 1 .. written.           *)
OnItsWay == polled \notin {Unset, None}
InFlight == IF OnItsWay THEN 1 ELSE 0
WriteOrder ==
  /\ \A i \in DOMAIN sent : sent[i] = i
  /\ OnItsWay => polled = Len(sent) + 1
  /\ \A i \in DOMAIN transmits : transmits[i] = Len(sent) + InFlight + i
  /\ written = Len(sent) + InFlight + Len(transmits)

(* A poll of a finalized pipeline answers None only if no message is       *)
(* queued: the I/O loops take None for "drained" (bootstrap_tcp/mod.rs).   *)
NoneMeansDrained ==
  [][~stale /\ polled = Unset /\ polled' = None => transmits = <<>>]_vars

(* remove(name) removes every handler of that name and no other one,       *)
(* although it deletes by index from vectors that shrink meanwhile.        *)
RemoveExact ==
  [][removing # None =>
       /\ removing' = None => removing \notin ToSet(names')
       /\ \A i \in DOMAIN names :
            names[i] # removing => handlers[i] \in ToSet(handlers')]_vars

(* While an event runs nobody changes the handlers or the links under it:  *)
(* calls that would are panics, not silent corruption.                     *)
EventFreezesPipeline == [][stack # <<>> => UNCHANGED <<vectors, links>>]_vars
=============================================================================
