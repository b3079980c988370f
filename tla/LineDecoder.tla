----------------------------- MODULE LineDecoder -----------------------------
(***************************************************************************)
(* What becomes of the bytes a connection reads: the handler               *)
(* TaggedByteToMessageCodec (src/codec/byte_to_message_decoder/mod.rs)     *)
(* with a LineBasedFrameDecoder (line_based_frame_decoder.rs), and         *)
(* TaggedStringCodec (src/codec/string_codec/mod.rs) behind it.            *)
(*                                                                         *)
(* A byte is its class: a line feed, a carriage return, another byte, or   *)
(* one that makes the frame it is in invalid UTF-8.  Each read hands the   *)
(* codec a buffer; "stream" is all that was ever read, and the buffer is   *)
(* the part of it after "head".                                            *)
(***************************************************************************)
EXTENDS Integers, Sequences, SequencesExt

CONSTANTS
  max_length,  \* the setting of the decoder
  MaxRead,     \* the most bytes one read brings
  MaxBytes     \* bound: number of bytes ever read

ASSUME LineAssumption == max_length \in Nat /\ MaxRead \in Nat /\ MaxBytes \in Nat

Bytes == {"lf", "cr", "text", "bad"}
TerminatorType == {"BOTH", "NEWLINE", "CarriageNewline"}

VARIABLES
  terminator_type, strip_delimiter,  \* the other settings
  transport_active,                  \* of the codec
  discarding, discarded_bytes,       \* of the decoder
  pc,                                \* "idle", or "decode": in the codec's loop
  stream, head,
  seen,                              \* what the handler behind the codecs got
  base, resync    \* history: where the last read began, and discarding then

settings == <<terminator_type, strip_delimiter>>
vars == <<settings, transport_active, discarding, discarded_bytes, pc, stream, head, seen, base, resync>>

(* A frame is the bytes from + 1 .. to of the stream; the next one starts  *)
(* after "next".                                                           *)
Frames == [what : {"line", "invalid", "over"}, from : Nat, to : Nat, next : Nat]

(* Every variable stays in its range, the decoder counts discarded bytes   *)
(* exactly while it discards, and nothing is left over between two reads.  *)
TypeOK ==
  /\ terminator_type \in TerminatorType /\ strip_delimiter \in BOOLEAN
  /\ transport_active \in BOOLEAN
  /\ discarding \in BOOLEAN /\ discarded_bytes \in Nat /\ (discarding <=> discarded_bytes > 0)
  /\ pc \in {"idle", "decode"}
  /\ stream \in Seq(Bytes) /\ head \in base .. Len(stream)
  /\ pc = "idle" => head = Len(stream)
  /\ seen \in Seq(Frames)
  /\ base \in 0 .. Len(stream) /\ resync \in BOOLEAN

Init ==
  /\ terminator_type \in TerminatorType /\ strip_delimiter \in BOOLEAN
  /\ transport_active = FALSE /\ discarding = FALSE /\ discarded_bytes = 0
  /\ pc = "idle" /\ stream = <<>> /\ head = 0 /\ seen = <<>> /\ base = 0 /\ resync = FALSE

-----------------------------------------------------------------------------
(* Once, as the connection begins (ConnectionLifecycle). *)
TransportActive ==
  /\ pc = "idle" /\ ~transport_active /\ stream = <<>> /\ transport_active' = TRUE
  /\ UNCHANGED <<settings, discarding, discarded_bytes, pc, stream, head, seen, base, resync>>

TransportInactive ==
  /\ pc = "idle" /\ transport_active /\ transport_active' = FALSE
  /\ UNCHANGED <<settings, discarding, discarded_bytes, pc, stream, head, seen, base, resync>>

(* handle_read with a buffer of at least one byte: the transports never    *)
(* deliver an empty one, nor any before transport_active or after          *)
(* transport_inactive.                                                     *)
HandleRead(chunk) ==
  /\ pc = "idle" /\ transport_active
  /\ stream' = stream \o chunk
  /\ pc' = "decode" /\ head' = Len(stream) /\ base' = Len(stream) /\ resync' = discarding
  /\ UNCHANGED <<settings, transport_active, discarding, discarded_bytes, seen>>

-----------------------------------------------------------------------------
(* The buffer, indexed from 0 as in the code. *)
Left == Len(stream) - head
Buf(i) == stream[head + 1 + i]

\* Mutant: a delimiter right behind the longest frame counts too.
EolsLonger == {i \in 0 .. Left - 1 :
  /\ i <= max_length
  /\ \/ Buf(i) = "lf" /\ terminator_type # "CarriageNewline"
     \/ terminator_type # "NEWLINE" /\ Buf(i) = "cr" /\ i + 1 < Left /\ Buf(i + 1) = "lf"}

(* find_end_of_line() answers the least of these. *)
Eols == {i \in 0 .. Left - 1 :
  /\ i < max_length
  /\ \/ Buf(i) = "lf" /\ terminator_type # "CarriageNewline"
     \/ terminator_type # "NEWLINE" /\ Buf(i) = "cr" /\ i + 1 < Left /\ Buf(i + 1) = "lf"}
FirstEol(i) == i \in Eols /\ \A j \in Eols : i <= j
DelimLength(i) == IF Buf(i) = "cr" THEN 2 ELSE 1

(* The codec returns: the buffer and what is left in it are dropped. *)
Return == pc' = "idle" /\ head' = Len(stream)

(* TaggedStringCodec passes a frame on if it is UTF-8, and an exception if *)
(* not; a line too long for the decoder is an exception of the codec.      *)
Valid(from, to) == \A p \in from + 1 .. to : stream[p] # "bad"
Fire(what, from, to, next) ==
  seen' = Append(seen, [what |-> what, from |-> from, to |-> to, next |-> next])

\* Mutant: the delimiter is left in the buffer when it is stripped.
DecodeLeavesDelimiter ==
  /\ pc = "decode" /\ ~discarding
  /\ \E eol \in Eols :
       /\ FirstEol(eol)
       /\ LET next == head + eol + DelimLength(eol)
              to == IF strip_delimiter THEN head + eol ELSE next
          IN /\ head' = to
             /\ Fire(IF Valid(head, to) THEN "line" ELSE "invalid", head, to, next)
  /\ UNCHANGED <<settings, transport_active, discarding, discarded_bytes, pc, stream, base, resync>>

(* Ok(Some(frame)): passed on, and the loop decodes the rest. *)
DecodeFrame ==
  /\ pc = "decode" /\ ~discarding
  /\ \E eol \in Eols :
       /\ FirstEol(eol)
       /\ LET next == head + eol + DelimLength(eol)
              to == IF strip_delimiter THEN head + eol ELSE next
          IN /\ head' = next
             /\ Fire(IF Valid(head, to) THEN "line" ELSE "invalid", head, to, next)
  /\ UNCHANGED <<settings, transport_active, discarding, discarded_bytes, pc, stream, base, resync>>

\* Mutant: the decoder does not remember that it is inside of a long line.
DecodeOverForgets ==
  /\ pc = "decode" /\ ~discarding /\ Eols = {} /\ Left > max_length
  /\ Fire("over", head, Len(stream), Len(stream)) /\ Return
  /\ UNCHANGED <<settings, transport_active, discarding, discarded_bytes, stream, base, resync>>

(* Err: the whole buffer is discarded, whatever lines follow in it. *)
DecodeOver ==
  /\ pc = "decode" /\ ~discarding /\ Eols = {} /\ Left > max_length
  /\ discarding' = TRUE /\ discarded_bytes' = Left
  /\ Fire("over", head, Len(stream), Len(stream)) /\ Return
  /\ UNCHANGED <<settings, transport_active, stream, base, resync>>

(* Ok(None): no complete line is left. *)
DecodeNone ==
  /\ pc = "decode" /\ ~discarding /\ Eols = {} /\ Left <= max_length
  /\ Return
  /\ UNCHANGED <<settings, transport_active, discarding, discarded_bytes, stream, seen, base, resync>>

(* The end of the long line is there: the decoder drops the buffer up to   *)
(* it, but answers Ok(None), so the codec drops the rest too.              *)
DiscardToEol ==
  /\ pc = "decode" /\ discarding /\ Eols # {}
  /\ discarding' = FALSE /\ discarded_bytes' = 0
  /\ Return
  /\ UNCHANGED <<settings, transport_active, stream, seen, base, resync>>

DiscardAll ==
  /\ pc = "decode" /\ discarding /\ Eols = {}
  /\ discarded_bytes' = Left
  /\ Return
  /\ UNCHANGED <<settings, transport_active, discarding, stream, seen, base, resync>>

Decode == DecodeFrame \/ DecodeOver \/ DecodeNone \/ DiscardToEol \/ DiscardAll

(* What one read may bring, within the bound. *)
Chunks == UNION {[1 .. n -> Bytes] : n \in {m \in 1 .. MaxRead : Len(stream) + m <= MaxBytes}}

Next ==
  \/ TransportActive \/ TransportInactive
  \/ \E chunk \in Chunks : HandleRead(chunk)
  \/ Decode

Spec == Init /\ [][Next]_vars

-----------------------------------------------------------------------------
(* The reference: lines end at line feeds.  Position p of the last read    *)
(* ends a line; Body is the length of that line without its delimiter.     *)
EndsLine(p) ==
  /\ stream[p] = "lf"
  /\ terminator_type = "CarriageNewline" => p - 1 > base /\ stream[p - 1] = "cr"
Ends == {p \in base + 1 .. Len(stream) : EndsLine(p)}
LineStart(p) == CHOOSE s \in Ends \cup {base} : s < p /\ \A e \in Ends : e < p => e <= s
EndsInCrLf(p) == terminator_type # "NEWLINE" /\ p - 1 > LineStart(p) /\ stream[p - 1] = "cr"
Body(p) == p - LineStart(p) - (IF EndsInCrLf(p) THEN 2 ELSE 1)
Fits(p) == Body(p) < max_length

(* Properties *)

(* The codec looks for delimiters from the left and cuts them off; what it *)
(* delivers are exactly the lines of the buffer that precede the first one *)
(* too long, and none if the buffer begins inside of a discarded line      *)
(* (mod.rs:57, line_based_frame_decoder.rs:60).                            *)
Delivered == {seen[k].next : k \in {j \in DOMAIN seen : seen[j].what # "over" /\ seen[j].from >= base}}
ExactLines ==
  pc = "idle" =>
    Delivered = IF resync THEN {} ELSE {p \in Ends : \A q \in Ends : q <= p => Fits(q)}

(* Each frame is one line, from its first byte to its delimiter, which is  *)
(* part of the frame unless it is stripped; a line is refused as invalid   *)
(* for its own bytes only, and frames come in the order of the stream.     *)
FrameContents ==
  /\ \A k \in DOMAIN seen : seen[k].what # "over" /\ seen[k].from >= base =>
       LET p == seen[k].next
       IN /\ seen[k].from = LineStart(p)
          /\ seen[k].to = IF strip_delimiter THEN LineStart(p) + Body(p) ELSE p
          /\ seen[k].what = "invalid" <=> \E q \in seen[k].from + 1 .. p : stream[q] = "bad"
  /\ \A j, k \in DOMAIN seen : j < k => seen[j].next <= seen[k].from

(* The decoder discards after a read exactly if a line of it, complete or  *)
(* not, was too long; the read that shows the end of a discarded line      *)
(* within max_length bytes ends that (line_based_frame_decoder.rs:81-107); *)
(* the count of discarded bytes goes along (TypeOK).                       *)
LastEnd == CHOOSE s \in Ends \cup {base} : \A e \in Ends : e <= s
DiscardingExact ==
  /\ TypeOK
  /\ pc = "idle" /\ head > base =>
       discarding = IF resync THEN ~\E p \in Ends : LineStart(p) = base /\ Fits(p)
                    ELSE (\E p \in Ends : ~Fits(p)) \/ Len(stream) - LastEnd > max_length
=============================================================================
