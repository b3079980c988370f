--------------------------- MODULE ChatServerUdp ----------------------------
(***************************************************************************)
(* The chat server over UDP (examples/chat_server_udp.rs): one task        *)
(* (UdpConnection), one pipeline and one line decoder (LineDecoder) for    *)
(* all peers.  Whoever sends a line joins, "bye" leaves.                   *)
(*                                                                         *)
(* A buffer that recv has filled holds a datagram, or several of one       *)
(* sender that the kernel coalesced; the codec decodes it as a whole.  The *)
(* reads of a batch follow each other without an await ("batch"), then the *)
(* task drains its queue ("send").  Nothing else writes to it.  Lines that *)
(* are not UTF-8 are left out; the string codec drops them one by one.     *)
(***************************************************************************)
EXTENDS ExampleTask

(* What a buffer holds, piece by piece: a line, the line "bye", a line     *)
(* (with or without its end) that is longer than max_length, and, as the   *)
(* last piece only, bytes without the end of a line.                       *)
Kinds == {"line", "bye", "long", "rest"}
EndsLine == {"line", "bye"}

CONSTANTS
  Peers,       \* the addresses of the peers
  MaxBuffers,  \* bound: number of buffers that are ever filled
  MaxBatch,    \* BATCH_SIZE
  Contents     \* what the buffers may hold

ASSUME ChatUdpAssumption ==
  /\ MaxBuffers \in Nat /\ MaxBatch \in Nat \ {0}
  /\ \A d \in Contents : d \in Seq(Kinds) /\ d # <<>> /\ \A i \in 1 .. Len(d) - 1 : d[i] # "rest"

VARIABLES
  members,     \* the keys of Shared.peers; the pipeline kept with them is the same
  discarding,  \* of the decoder
  unread,      \* number of buffers received and not read to their end
  at,          \* number of lines of the next of them that were decoded
  batch,       \* number of buffers of this batch that were read
  (* history *)
  arrived,     \* the buffers
  handled,     \* the lines the ChatHandler got
  failed       \* the places in sent of the copies that the socket refused

handler == <<members, discarding, at, handled>>
udpvars == <<handler, phase, transmits, unread, batch, arrived, sent, failed>>

Places == [buf : 1 .. Len(arrived), at : Nat \ {0}]

(* What is queued and sent: the line, by its place in handled, and to whom. *)
Copies == [line : 1 .. Len(handled), to : Peers]

(* Every variable stays in its range, and batches stay within the buffers. *)
UdpTypeOK ==
  /\ members \subseteq Peers /\ discarding \in BOOLEAN
  /\ phase \in {"select", "batch", "send", "done"}
  /\ transmits \in Seq(Copies) /\ sent \in Seq(Copies) /\ failed \subseteq 1 .. Len(sent)
  /\ unread \in 0 .. Len(arrived) /\ at \in Nat /\ batch \in 0 .. MaxBatch
  /\ arrived \in Seq([from : Peers, lines : Contents]) /\ handled \in Seq(Places)

UdpInit ==
  /\ members = {} /\ phase = "select" /\ discarding = FALSE /\ transmits = <<>>
  /\ unread = 0 /\ at = 0 /\ batch = 0
  /\ arrived = <<>> /\ handled = <<>> /\ sent = <<>> /\ failed = {}

-----------------------------------------------------------------------------
(* The next buffer, and the piece of it that the decoder finds. *)
Number == Len(arrived) - unread + 1
Buffer == arrived[Number]
Pieces == DOMAIN Buffer.lines
Piece == Buffer.lines[at + 1]

(* LineBasedFrameDecoder::decode finds a line that it passes on. *)
Decodes == ~discarding /\ at + 1 \in Pieces /\ Piece \in EndsLine

\* Mutant: the decoder forgets that it is inside of a long line.
discardingNextNever == FALSE

(* It finds none: what is left of the buffer is dropped.  Too many bytes   *)
(* start the discarding; the first end of a line within max_length bytes   *)
(* of a buffer ends it.                                                    *)
discardingNext == IF discarding THEN Buffer.lines[1] \notin EndsLine
                                ELSE at + 1 \in Pieces /\ Piece = "long"

\* Mutant: the sender is told too.
broadcastToAll(keys) ==
  \E order \in SetToSeqs(keys) :
    transmits' = transmits \o [i \in DOMAIN order |-> [line |-> Len(handled) + 1, to |-> order[i]]]

(* The map is iterated in any order. *)
broadcastUdp(keys) ==
  \E order \in SetToSeqs(keys \ {Buffer.from}) :
    transmits' = transmits \o [i \in DOMAIN order |-> [line |-> Len(handled) + 1, to |-> order[i]]]

(* handle_read of the ChatHandler. *)
handle_read ==
  /\ handled' = Append(handled, [buf |-> Number, at |-> at + 1])
  /\ IF Piece = "bye"
       THEN members' = members \ {Buffer.from} /\ UNCHANGED transmits
       ELSE members' = members \cup {Buffer.from} /\ broadcastUdp(members')

(* recv has filled at least one buffer; each is read by the pipeline, and  *)
(* the codec decodes line after line until decode has none.                *)
Reading == phase \in {"select", "batch"} /\ unread > 0 /\ batch < MaxBatch /\ phase' = "batch"

ReadLine ==
  /\ Reading /\ Decodes
  /\ handle_read /\ at' = at + 1
  /\ UNCHANGED <<discarding, unread, batch, arrived, sent, failed>>

ReadEnds ==
  /\ Reading /\ ~Decodes
  /\ at' = 0 /\ discarding' = discardingNext
  /\ unread' = unread - 1 /\ batch' = batch + 1
  /\ UNCHANGED <<members, handled, transmits, arrived, sent, failed>>

(* The loop drains the queue before it waits again: when a batch is read,  *)
(* a send has succeeded, a day has passed.                                 *)
UdpProceed == phase' = (IF transmits' = <<>> THEN "select" ELSE "send") /\ batch' = 0

BatchRead ==
  /\ phase = "batch" /\ at = 0 /\ UNCHANGED transmits /\ UdpProceed
  /\ UNCHANGED <<handler, unread, arrived, sent, failed>>

Send ==
  /\ phase = "send"
  /\ sent' = Append(sent, Head(transmits)) /\ transmits' = Tail(transmits)
  /\ UdpProceed
  /\ UNCHANGED <<handler, unread, arrived, failed>>

(* The copy that failed is lost, the others wait in the queue. *)
SendError ==
  /\ phase = "send"
  /\ sent' = Append(sent, Head(transmits)) /\ transmits' = Tail(transmits)
  /\ failed' = failed \cup {Len(sent) + 1}
  /\ phase' = "select"
  /\ UNCHANGED <<handler, unread, batch, arrived>>

UdpDay ==
  /\ phase = "select" /\ UNCHANGED transmits /\ UdpProceed
  /\ UNCHANGED <<handler, unread, arrived, sent, failed>>

(* stop(), an error of recv, or a recv of nothing: the task drops the      *)
(* pipeline with its queue.                                                *)
UdpEnd ==
  /\ phase = "select" /\ phase' = "done" /\ transmits' = <<>>
  /\ UNCHANGED <<handler, unread, batch, arrived, sent, failed>>

Arrive(p, d) ==
  /\ Len(arrived) < MaxBuffers
  /\ arrived' = Append(arrived, [from |-> p, lines |-> d]) /\ unread' = unread + 1
  /\ UNCHANGED <<handler, phase, transmits, batch, sent, failed>>

UdpNext ==
  \/ ReadLine \/ ReadEnds \/ BatchRead \/ Send \/ SendError \/ UdpDay \/ UdpEnd
  \/ \E p \in Peers, d \in Contents : Arrive(p, d)

UdpSpec == UdpInit /\ [][UdpNext]_udpvars

-----------------------------------------------------------------------------
(* Properties *)

(* The k-th line that is handled: who said it, and if it is not "bye".     *)
(* Before it p takes part: it has said something, and "bye" was not the    *)
(* last.                                                                   *)
From(k) == arrived[handled[k].buf].from
Speaks(k) == arrived[handled[k].buf].lines[handled[k].at] = "line"
SaidBefore(p, k) == {j \in 1 .. k - 1 : From(j) = p}
TakesPart(p, k) == \E j \in SaidBefore(p, k) : Speaks(j) /\ \A i \in SaidBefore(p, k) : i <= j
Heard(p) == {k \in DOMAIN handled : Speaks(k) /\ From(k) # p /\ TakesPart(p, k)}

(* The lines of which a sequence of copies holds one for p. *)
Given(p, copies) == {copies[i].line : i \in {j \in DOMAIN copies : copies[j].to = p}}

(* Each peer is given the lines of the others that are handled while it    *)
(* takes part, each once and in the order they were handled, over joins    *)
(* and leaves, and nothing else (lines 106-123).  While the task lives a   *)
(* send that fails costs its own copy only: the others are sent or queued. *)
(* A stop drops what is queued, which are the last ones; without a failed  *)
(* send nothing is queued when the task waits, and so nothing then.        *)
HearsOnly(p) ==
  LET wire == sent \o transmits
  IN  /\ \A i, j \in DOMAIN wire :
           i < j /\ wire[i].to = p /\ wire[j].to = p => wire[i].line < wire[j].line
      /\ Given(p, wire) \subseteq Heard(p)
      /\ \A k \in Heard(p), l \in Given(p, wire) : k < l => k \in Given(p, wire)
      /\ phase # "done" => Heard(p) \subseteq Given(p, wire)
      /\ failed = {} /\ phase \in {"select", "done"} => Given(p, sent) = Heard(p)
OneConversation == \A p \in Peers : HearsOnly(p)

(* The damage of a line too long, whoever sent it, is the rest of its      *)
(* buffer and every later one up to the next that begins with a line of    *)
(* fair length, which is lost as a whole, whoever sends it.  All other     *)
(* lines are handled, each once and in order; and every variable stays in  *)
(* its range.                                                              *)
Begins(i) == arrived[i].lines[1] \in EndsLine
Damages(j) == /\ \E a \in DOMAIN arrived[j].lines : arrived[j].lines[a] = "long"
              /\ Begins(j) => \E h \in DOMAIN handled : handled[h] = [buf |-> j, at |-> 1]
Lost(i) == \E j \in 1 .. i - 1 : Damages(j) /\ \A k \in j + 1 .. i - 1 : ~Begins(k)
Whole(i) == {a \in DOMAIN arrived[i].lines : \A b \in 1 .. a : arrived[i].lines[b] \in EndsLine}

DamageBounded ==
  /\ UdpTypeOK
  /\ \A j, k \in DOMAIN handled : j < k =>
       \/ handled[j].buf < handled[k].buf
       \/ handled[j].buf = handled[k].buf /\ handled[j].at < handled[k].at
  /\ \A k \in DOMAIN handled : ~Lost(handled[k].buf) /\ handled[k].at \in Whole(handled[k].buf)
  /\ \A i \in 1 .. Len(arrived) : \A a \in Whole(i) :
       ~Lost(i) /\ (i < Number \/ (i = Number /\ a <= at)) => [buf |-> i, at |-> a] \in ToSet(handled)
=============================================================================
