-------------------------- MODULE LineDecoderProofs --------------------------
(***************************************************************************)
(* The line decoder behind the byte codec, for streams, reads and settings *)
(* of any size: what it delivers are the lines of the reference, and it    *)
(* discards exactly when one was too long.                                 *)
(***************************************************************************)
EXTENDS LineDecoder, WellFoundedInduction, TLAPS

(* A set of natural numbers has a least element. *)
LEMMA LeastExists ==
  ASSUME NEW S \in SUBSET Nat, S # {}
  PROVE  \E x \in S : \A y \in S : x <= y
<1> DEFINE R == {ss \in Nat \X Nat : ss[1] < ss[2]}
<1>1. IsWellFoundedOn(R, Nat)
  BY NatLessThanWellFounded DEF OpToRel
<1>2. PICK x \in S : \A y \in S : ~(<<y, x>> \in R)
  <2> HIDE DEF R
  <2> QED
    BY <1>1, WFMin
<1>3. ASSUME NEW y \in S PROVE x <= y
  <2>1. x \in Nat /\ y \in Nat /\ ~(y < x)
    BY <1>2
  <2> QED
    BY <2>1
<1> QED
  BY <1>3

(* And a bounded one a greatest. *)
LEMMA GreatestExists ==
  ASSUME NEW S \in SUBSET Nat, S # {}, NEW n \in Nat, \A x \in S : x <= n
  PROVE  \E x \in S : \A y \in S : y <= x
<1> DEFINE T == {n - x : x \in S}
<1>1. T \in SUBSET Nat /\ T # {}
  <2>1. ASSUME NEW x \in S PROVE n - x \in Nat
    <3>1. x \in Nat /\ x <= n
      OBVIOUS
    <3> QED
      BY <3>1
  <2>2. T # {}
    OBVIOUS
  <2>3. T \subseteq Nat
    BY <2>1
  <2> QED
    BY <2>2, <2>3
<1>2. PICK t \in T : \A u \in T : t <= u
  <2> HIDE DEF T
  <2> QED
    BY <1>1, LeastExists
<1>3. PICK x \in S : t = n - x
  OBVIOUS
<1>4. ASSUME NEW y \in S PROVE y <= x
  <2>1. n - x <= n - y
    BY <1>2, <1>3
  <2> QED
    BY <1>3, <2>1
<1> QED
  BY <1>4

-----------------------------------------------------------------------------
(* The strengthened invariant. *)

(* Frames lie behind the reader, none is empty with its delimiter. *)
Behind == \A k \in DOMAIN seen : seen[k].from < seen[k].next /\ seen[k].next <= head

(* In the codec's loop: the decoder either discards, and then has not      *)
(* moved, or stands behind a line, and has delivered the lines up to it.   *)
Loop ==
  pc = "decode" =>
    /\ discarding = resync /\ base < Len(stream)
    /\ resync => head = base /\ Delivered = {}
    /\ ~resync => /\ head \in Ends \cup {base}
                  /\ Delivered = {p \in Ends : p <= head}
                  /\ \A p \in Ends : p <= head => Fits(p)

IInv == DiscardingExact /\ ExactLines /\ FrameContents /\ Behind /\ Loop

-----------------------------------------------------------------------------
(* The reference looks at the stream, the settings and the last read only. *)
LEMMA LinesKept ==
  ASSUME UNCHANGED <<settings, stream, base>>
  PROVE  /\ Ends' = Ends /\ LastEnd' = LastEnd
         /\ \A p : LineStart(p)' = LineStart(p) /\ Fits(p)' = Fits(p) /\ Body(p)' = Body(p)
<1>1. Ends' = Ends
  BY DEF Ends, EndsLine, settings
<1>2. ASSUME NEW p PROVE LineStart(p)' = LineStart(p)
  BY <1>1 DEF LineStart
<1>3. ASSUME NEW p PROVE EndsInCrLf(p)' = EndsInCrLf(p)
  BY <1>2 DEF EndsInCrLf, settings
<1>4. ASSUME NEW p PROVE Body(p)' = Body(p)
  BY <1>2, <1>3 DEF Body
<1>5. LastEnd' = LastEnd
  BY <1>1 DEF LastEnd
<1> QED
  BY <1>1, <1>2, <1>4, <1>5 DEF Fits

LEMMA EndsRange ==
  ASSUME TypeOK, NEW p \in Ends
  PROVE  p \in Int /\ base < p /\ p <= Len(stream) /\ base \in Nat /\ Len(stream) \in Nat
         /\ stream[p] = "lf"
BY DEF TypeOK, Ends, EndsLine

(* A line starts where the one before it ends. *)
LEMMA LineStartIs ==
  ASSUME TypeOK, NEW p \in Ends, NEW s \in Ends \cup {base}, s < p,
         \A e \in Ends : e < p => e <= s
  PROVE  LineStart(p) = s
<1> DEFINE Start(x) == x < p /\ \A e \in Ends : e < p => e <= x
<1>1. \E x \in Ends \cup {base} : Start(x)
  OBVIOUS
<1>2. LineStart(p) \in Ends \cup {base} /\ Start(LineStart(p))
  BY <1>1 DEF LineStart
<1>3. s \in Int /\ LineStart(p) \in Int /\ base \in Int
  BY <1>2, EndsRange DEF TypeOK
<1>4. CASE LineStart(p) = base
  <2>1. s \in Ends => s <= base
    BY <1>2, <1>4
  <2>2. s \in Ends => base < s
    BY EndsRange
  <2> QED
    BY <1>3, <1>4, <2>1, <2>2
<1>5. CASE LineStart(p) \in Ends
  <2>1. LineStart(p) <= s /\ base < LineStart(p)
    BY <1>2, <1>5, EndsRange
  <2>2. s \in Ends => s <= LineStart(p)
    BY <1>2
  <2> QED
    BY <1>3, <2>1, <2>2
<1> QED
  BY <1>2, <1>4, <1>5

(* Every line starts somewhere. *)
LEMMA LineStartExists ==
  ASSUME TypeOK, NEW p \in Ends
  PROVE  /\ LineStart(p) \in Ends \cup {base} /\ LineStart(p) < p
         /\ \A e \in Ends : e < p => e <= LineStart(p)
<1> DEFINE S == {e \in Ends \cup {base} : e < p}
<1>1. p \in Nat /\ base \in Nat /\ base < p /\ Ends \subseteq Nat
  <2>1. \A e \in Ends : e \in Int /\ base < e /\ base \in Nat
    BY EndsRange
  <2> QED
    BY <2>1
<1>2. S \in SUBSET Nat /\ base \in S /\ \A x \in S : x <= p
  <2>1. \A x \in S : x \in Nat /\ x < p
    BY <1>1
  <2>2. \A x \in S : x <= p
    BY <1>1, <2>1
  <2> QED
    BY <1>1, <2>1, <2>2
<1>3. PICK s \in S : \A y \in S : y <= s
  <2> HIDE DEF S
  <2> QED
    BY <1>1, <1>2, GreatestExists
<1>4. s \in Ends \cup {base} /\ s < p /\ \A e \in Ends : e < p => e <= s
  BY <1>3
<1> QED
  BY <1>4, LineStartIs

(* The last line ends at the greatest of the ends. *)
LEMMA LastEndIs ==
  ASSUME TypeOK, NEW s \in Ends \cup {base}, \A e \in Ends : e <= s
  PROVE  LastEnd = s
<1> DEFINE Greatest(x) == \A e \in Ends : e <= x
<1>1. \E x \in Ends \cup {base} : Greatest(x)
  OBVIOUS
<1>2. LastEnd \in Ends \cup {base} /\ Greatest(LastEnd)
  BY <1>1 DEF LastEnd
<1>3. s \in Int /\ LastEnd \in Int /\ base \in Int
  BY <1>2, EndsRange DEF TypeOK
<1>4. CASE s \in Ends /\ LastEnd \in Ends
  BY <1>2, <1>3, <1>4
<1>5. CASE s = base
  <2>1. LastEnd \in Ends => LastEnd <= base /\ base < LastEnd
    BY <1>5, EndsRange
  <2> QED
    BY <1>2, <1>3, <1>5, <2>1
<1>6. CASE LastEnd = base
  <2>1. s \in Ends => s <= base /\ base < s
    BY <1>2, <1>6, EndsRange
  <2> QED
    BY <1>3, <1>6, <2>1
<1> QED
  BY <1>2, <1>4, <1>5, <1>6

-----------------------------------------------------------------------------
(* The next line of the buffer. *)
NextEnd(p) == p \in Ends /\ head < p /\ \A e \in Ends : head < e => p <= e

LEMMA NextEndStarts ==
  ASSUME TypeOK, head \in Ends \cup {base}, NEW p, NextEnd(p)
  PROVE  LineStart(p) = head
<1>1. \A e \in Ends : e \in Int
  BY EndsRange
<1>2. p \in Ends /\ head < p /\ head \in Int /\ p \in Int
  BY <1>1 DEF NextEnd, TypeOK
<1>3. ASSUME NEW e \in Ends, e < p PROVE e <= head
  BY <1>1, <1>2, <1>3 DEF NextEnd
<1> QED
  BY <1>2, <1>3, LineStartIs

LEMMA NextEndExists ==
  ASSUME TypeOK, NEW q \in Ends, head < q
  PROVE  \E p : NextEnd(p) /\ p <= q
<1> DEFINE S == {e \in Ends : head < e}
<1>1. Ends \subseteq Nat
  <2>1. \A e \in Ends : e \in Int /\ base < e /\ base \in Nat
    BY EndsRange
  <2> QED
    BY <2>1
<1>2. S \in SUBSET Nat /\ S # {} /\ q \in S
  BY <1>1
<1>3. PICK p \in S : \A e \in S : p <= e
  <2> HIDE DEF S
  <2> QED
    BY <1>2, LeastExists
<1> QED
  BY <1>2, <1>3 DEF NextEnd

(* What find_end_of_line() finds is the end of the next line, cut before   *)
(* its delimiter.                                                          *)
LEMMA FoundIsNext ==
  ASSUME TypeOK, head \in Ends \cup {base}, NEW eol, FirstEol(eol)
  PROVE  LET p == head + eol + DelimLength(eol)
         IN  /\ eol \in Nat /\ NextEnd(p) /\ LineStart(p) = head
             /\ Body(p) = eol /\ Fits(p) /\ p <= Len(stream)
             /\ \A q \in head + eol + 1 .. p : stream[q] # "bad"
<1> DEFINE p == head + eol + DelimLength(eol)
<1>1. /\ head \in Nat /\ base \in Nat /\ Len(stream) \in Nat /\ base <= head /\ head <= Len(stream)
      /\ max_length \in Nat /\ terminator_type \in TerminatorType
  BY LineAssumption DEF TypeOK
<1>2. /\ eol \in Nat /\ eol < max_length /\ eol < Len(stream) - head
      /\ \/ stream[head + 1 + eol] = "lf" /\ terminator_type # "CarriageNewline"
         \/ /\ terminator_type # "NEWLINE" /\ stream[head + 1 + eol] = "cr"
            /\ eol + 1 < Len(stream) - head /\ stream[head + 1 + (eol + 1)] = "lf"
  BY <1>1 DEF FirstEol, Eols, Left, Buf
<1>3. \A j \in Nat : j < eol =>
        ~(\/ stream[head + 1 + j] = "lf" /\ terminator_type # "CarriageNewline"
          \/ /\ terminator_type # "NEWLINE" /\ stream[head + 1 + j] = "cr"
             /\ stream[head + 1 + (j + 1)] = "lf")
  <2> SUFFICES ASSUME NEW j \in Nat, j < eol,
                      \/ stream[head + 1 + j] = "lf" /\ terminator_type # "CarriageNewline"
                      \/ /\ terminator_type # "NEWLINE" /\ stream[head + 1 + j] = "cr"
                         /\ stream[head + 1 + (j + 1)] = "lf"
               PROVE  FALSE
    OBVIOUS
  <2>1. j \in 0 .. Left - 1 /\ j < max_length /\ j + 1 < Left
    BY <1>1, <1>2 DEF Left
  <2>2. j \in Eols
    BY <2>1 DEF Eols, Buf
  <2> QED
    BY <1>2, <2>2 DEF FirstEol
<1>4. /\ p \in Nat /\ head < p /\ p <= Len(stream) /\ stream[p] = "lf"
      /\ p = IF stream[head + 1 + eol] = "cr" THEN head + eol + 2 ELSE head + eol + 1
      /\ stream[head + 1 + eol] = "cr" => stream[p - 1] = "cr"
  <2>1. CASE stream[head + 1 + eol] = "cr"
    <3>1. p = head + eol + 2 /\ p = head + 1 + (eol + 1) /\ p - 1 = head + 1 + eol
      BY <1>1, <1>2, <2>1 DEF DelimLength, Buf
    <3> QED
      BY <1>1, <1>2, <2>1, <3>1
  <2>2. CASE stream[head + 1 + eol] # "cr"
    <3>1. p = head + eol + 1 /\ p = head + 1 + eol
      BY <1>1, <1>2, <2>2 DEF DelimLength, Buf
    <3> QED
      BY <1>1, <1>2, <2>2, <3>1
  <2> QED
    BY <2>1, <2>2
<1> HIDE DEF p
<1>5. p \in Ends
  <2>1. p \in base + 1 .. Len(stream)
    BY <1>1, <1>4
  <2>2. terminator_type = "CarriageNewline" => p - 1 > base /\ stream[p - 1] = "cr"
    BY <1>1, <1>2, <1>4
  <2> QED
    BY <1>4, <2>1, <2>2 DEF Ends, EndsLine
<1>6. ASSUME NEW e \in Ends, head < e PROVE p <= e
  <2> SUFFICES ASSUME e < p PROVE FALSE
    BY <1>4, EndsRange
  <2>1. /\ e \in Int /\ stream[e] = "lf"
        /\ terminator_type = "CarriageNewline" => e - 1 > base /\ stream[e - 1] = "cr"
    BY EndsRange DEF Ends, EndsLine
  <2> DEFINE j == e - head - 1
  <2>2. j \in Nat /\ head + 1 + j = e /\ j <= eol
    BY <1>1, <1>2, <1>4, <1>6, <2>1
  <2>3. CASE j = eol
    <3>1. stream[head + 1 + eol] = "lf"
      BY <2>1, <2>2, <2>3
    <3> QED
      BY <1>1, <1>2, <1>4, <2>2, <2>3, <3>1
  <2>4. CASE j < eol
    <3>1. terminator_type = "CarriageNewline"
      BY <1>3, <2>1, <2>2, <2>4
    <3>2. j # 0
      <4> SUFFICES ASSUME j = 0 PROVE FALSE
        OBVIOUS
      <4>1. e - 1 = head
        BY <1>1, <2>1
      <4>2. head # base /\ stream[head] = "cr"
        BY <1>1, <2>1, <3>1, <4>1
      <4>3. head \in Ends
        BY <4>2
      <4> QED
        BY <4>2, <4>3, EndsRange
    <3>3. j - 1 \in Nat /\ j - 1 < eol /\ head + 1 + (j - 1) = e - 1 /\ head + 1 + ((j - 1) + 1) = e
      BY <1>1, <1>2, <2>1, <2>2, <2>4, <3>2
    <3> QED
      BY <1>3, <2>1, <3>1, <3>3
  <2> QED
    BY <1>2, <2>2, <2>3, <2>4
<1>7. NextEnd(p)
  BY <1>4, <1>5, <1>6 DEF NextEnd
<1>8. LineStart(p) = head
  BY <1>7, NextEndStarts
<1>9. EndsInCrLf(p) <=> stream[head + 1 + eol] = "cr"
  <2>1. CASE stream[head + 1 + eol] = "cr"
    BY <1>1, <1>2, <1>4, <1>8, <2>1 DEF EndsInCrLf
  <2>2. CASE stream[head + 1 + eol] # "cr"
    <3> SUFFICES ASSUME EndsInCrLf(p) PROVE FALSE
      BY <2>2
    <3>1. terminator_type # "NEWLINE" /\ p - 1 > head /\ stream[p - 1] = "cr"
      BY <1>8 DEF EndsInCrLf
    <3>2. p = head + eol + 1
      BY <1>4, <2>2
    <3>3. eol - 1 \in Nat /\ eol - 1 < eol /\ head + 1 + (eol - 1) = p - 1
          /\ head + 1 + ((eol - 1) + 1) = p
      BY <1>1, <1>2, <3>1, <3>2
    <3> QED
      BY <1>3, <1>4, <3>1, <3>3
  <2> QED
    BY <2>1, <2>2
<1>10. Body(p) = eol
  BY <1>1, <1>2, <1>4, <1>8, <1>9 DEF Body
<1>11. ASSUME NEW q \in head + eol + 1 .. p PROVE stream[q] # "bad"
  <2>1. q = head + 1 + eol \/ q = p
    BY <1>1, <1>2, <1>4
  <2> QED
    BY <1>2, <1>4, <2>1
<1> QED
  BY <1>2, <1>4, <1>7, <1>8, <1>10, <1>11 DEF Fits, p

(* If it finds none, the next line does not fit. *)
LEMMA NoneFoundTooLong ==
  ASSUME TypeOK, head \in Ends \cup {base}, Eols = {}, NEW p, NextEnd(p)
  PROVE  ~Fits(p) /\ p - head > max_length /\ p \in Int
<1>1. /\ head \in Nat /\ base \in Nat /\ Len(stream) \in Nat /\ base <= head /\ head <= Len(stream)
      /\ max_length \in Nat /\ terminator_type \in TerminatorType
  BY LineAssumption DEF TypeOK
<1>2. /\ p \in Ends /\ p \in Int /\ head < p /\ p <= Len(stream) /\ stream[p] = "lf"
      /\ terminator_type = "CarriageNewline" => p - 1 > base /\ stream[p - 1] = "cr"
      /\ LineStart(p) = head
  BY EndsRange, NextEndStarts DEF NextEnd, Ends, EndsLine
<1>3. ASSUME NEW i \in Nat, i < Len(stream) - head,
             \/ stream[head + 1 + i] = "lf" /\ terminator_type # "CarriageNewline"
             \/ /\ terminator_type # "NEWLINE" /\ stream[head + 1 + i] = "cr"
                /\ i + 1 < Len(stream) - head /\ stream[head + 1 + (i + 1)] = "lf"
      PROVE  ~(i < max_length)
  <2>1. i \in 0 .. Left - 1
    BY <1>1, <1>3 DEF Left
  <2>2. i \notin Eols
    OBVIOUS
  <2> QED
    BY <1>3, <2>1, <2>2 DEF Eols, Left, Buf
<1>4. CASE EndsInCrLf(p)
  <2> DEFINE i == p - head - 2
  <2>1. terminator_type # "NEWLINE" /\ p - 1 > head /\ stream[p - 1] = "cr"
    BY <1>2, <1>4 DEF EndsInCrLf
  <2>2. /\ i \in Nat /\ i < Len(stream) - head /\ i + 1 < Len(stream) - head
        /\ head + 1 + i = p - 1 /\ head + 1 + (i + 1) = p
    BY <1>1, <1>2, <2>1
  <2>3. ~(i < max_length)
    BY <1>2, <1>3, <2>1, <2>2
  <2>4. Body(p) = i
    BY <1>1, <1>2, <1>4 DEF Body
  <2> QED
    BY <1>1, <1>2, <2>2, <2>3, <2>4 DEF Fits
<1>5. CASE ~EndsInCrLf(p)
  <2> DEFINE i == p - head - 1
  <2>1. i \in Nat /\ i < Len(stream) - head /\ head + 1 + i = p
    BY <1>1, <1>2
  <2>2. terminator_type # "CarriageNewline"
    <3> SUFFICES ASSUME terminator_type = "CarriageNewline" PROVE FALSE
      OBVIOUS
    <3>1. p - 1 > base /\ stream[p - 1] = "cr" /\ ~(p - 1 > head)
      BY <1>2, <1>5 DEF EndsInCrLf
    <3>2. p - 1 = head
      BY <1>1, <1>2, <3>1
    <3>3. head \in Ends
      BY <1>1, <3>1, <3>2
    <3> QED
      BY <3>1, <3>2, <3>3, EndsRange
  <2>3. ~(i < max_length)
    BY <1>2, <1>3, <2>1, <2>2
  <2>4. Body(p) = i
    BY <1>1, <1>2, <1>5 DEF Body
  <2> QED
    BY <1>1, <1>2, <2>1, <2>3, <2>4 DEF Fits
<1> QED
  BY <1>4, <1>5

-----------------------------------------------------------------------------
(* What FrameContents asks of one frame of the last read. *)
FrameOK(r) ==
  LET p == r.next
  IN /\ r.from = LineStart(p)
     /\ r.to = IF strip_delimiter THEN LineStart(p) + Body(p) ELSE p
     /\ r.what = "invalid" <=> \E q \in r.from + 1 .. p : stream[q] = "bad"
Current(r) == r.what # "over" /\ r.from >= base

LEMMA ContentsAre ==
  FrameContents <=> /\ \A k \in DOMAIN seen : Current(seen[k]) => FrameOK(seen[k])
                    /\ \A j, k \in DOMAIN seen : j < k => seen[j].next <= seen[k].from
BY DEF FrameContents, FrameOK, Current

LEMMA FrameOKKept ==
  ASSUME UNCHANGED <<settings, stream, base>>
  PROVE  \A r : FrameOK(r)' = FrameOK(r) /\ Current(r)' = Current(r)
<1>1. ASSUME NEW r PROVE Current(r)' = Current(r)
  BY DEF Current
<1>2. ASSUME NEW r PROVE FrameOK(r)' = FrameOK(r)
  <2>1. LineStart(r.next)' = LineStart(r.next) /\ Body(r.next)' = Body(r.next)
    BY LinesKept
  <2> QED
    BY <2>1 DEF FrameOK, settings
<1> QED
  BY <1>1, <1>2

(* Steps that pass nothing on. *)
LEMMA SilentKeeps ==
  ASSUME TypeOK, FrameContents, Behind, UNCHANGED <<settings, stream, base, seen>>,
         head' \in Nat, head <= head'
  PROVE  FrameContents' /\ Behind' /\ Delivered' = Delivered
<1>1. ASSUME NEW k \in DOMAIN seen, Current(seen[k])' PROVE FrameOK(seen[k])'
  <2>1. \A r : FrameOK(r)' = FrameOK(r) /\ Current(r)' = Current(r)
    BY FrameOKKept
  <2>2. seen'[k] = seen[k]
    OBVIOUS
  <2>3. Current(seen[k])
    BY <1>1, <2>2 DEF Current
  <2>4. FrameOK(seen[k])
    BY <2>3, ContentsAre
  <2>5. LineStart(seen[k].next)' = LineStart(seen[k].next) /\ Body(seen[k].next)' = Body(seen[k].next)
    BY LinesKept
  <2> QED
    BY <2>2, <2>4, <2>5 DEF FrameOK, settings
<1>2. FrameContents'
  BY <1>1 DEF FrameContents, FrameOK, Current
<1>3. Behind'
  <2> SUFFICES ASSUME NEW k \in DOMAIN seen
               PROVE  seen[k].from < seen[k].next /\ seen[k].next <= head'
    BY DEF Behind
  <2>1. seen[k] \in Frames /\ head \in Nat
    BY DEF TypeOK
  <2>2. seen[k].next \in Nat /\ seen[k].from < seen[k].next /\ seen[k].next <= head
    BY <2>1 DEF Frames, Behind
  <2> QED
    BY <2>1, <2>2
<1>4. Delivered' = Delivered
  BY DEF Delivered
<1> QED
  BY <1>2, <1>3, <1>4

(* A frame that starts where the reader stands is passed on. *)
LEMMA FireKeeps ==
  ASSUME TypeOK, FrameContents, Behind, NEW r \in Frames,
         r.from = head, r.from < r.next, r.what # "over" => FrameOK(r),
         seen' = Append(seen, r), UNCHANGED <<settings, stream, base>>,
         head' \in Nat, r.next <= head'
  PROVE  /\ seen' \in Seq(Frames) /\ FrameContents' /\ Behind'
         /\ Delivered' = IF r.what # "over" THEN Delivered \cup {r.next} ELSE Delivered
<1> DEFINE n == Len(seen)
<1>1. /\ seen \in Seq(Frames) /\ n \in Nat /\ seen' \in Seq(Frames) /\ Len(seen') = n + 1
      /\ DOMAIN seen = 1 .. n /\ DOMAIN seen' = 1 .. n + 1
      /\ seen'[n + 1] = r /\ \A k \in 1 .. n : seen'[k] = seen[k] /\ seen[k] \in Frames
  BY DEF TypeOK
<1>2. head \in Nat /\ base \in Nat /\ base <= head /\ r.next \in Nat
  BY DEF TypeOK, Frames
<1> HIDE DEF n
<1>3. \A k \in DOMAIN seen' : k \in Nat /\ (k = n + 1 \/ k \in 1 .. n)
  BY <1>1
<1>4. ASSUME NEW k \in 1 .. n
      PROVE  /\ seen[k].from \in Nat /\ seen[k].next \in Nat
             /\ seen[k].from < seen[k].next /\ seen[k].next <= head
  BY <1>1 DEF Behind, Frames
<1>5. ASSUME NEW x, FrameOK(x) PROVE FrameOK(x)'
  <2>1. LineStart(x.next)' = LineStart(x.next) /\ Body(x.next)' = Body(x.next)
    BY LinesKept
  <2> QED
    BY <1>5, <2>1 DEF FrameOK, settings
<1>6. FrameContents'
  <2>1. ASSUME NEW k \in DOMAIN seen', Current(seen[k])' PROVE FrameOK(seen[k])'
    <3>1. CASE k = n + 1
      <4>1. seen'[k] = r
        BY <1>1, <3>1
      <4>2. r.what # "over"
        BY <2>1, <4>1 DEF Current
      <4>3. FrameOK(r)'
        BY <1>5, <4>2
      <4> QED
        BY <4>1, <4>3 DEF FrameOK
    <3>2. CASE k \in 1 .. n
      <4>1. seen'[k] = seen[k] /\ k \in DOMAIN seen
        BY <1>1, <3>2
      <4>2. Current(seen[k])
        BY <2>1, <4>1 DEF Current
      <4>3. FrameOK(seen[k])
        BY <4>1, <4>2, ContentsAre
      <4>4. LineStart(seen[k].next)' = LineStart(seen[k].next) /\ Body(seen[k].next)' = Body(seen[k].next)
        <5>1. \A x : LineStart(x)' = LineStart(x) /\ Body(x)' = Body(x)
          BY LinesKept
        <5> DEFINE x == seen[k].next
        <5>2. seen'[k].next = x
          BY <4>1
        <5>3. LineStart(seen[k].next)' = LineStart(x)
          BY <4>1, LinesKept DEF LineStart, Ends, EndsLine, settings
        <5> QED
          BY <5>1, <5>2, <5>3
      <4> QED
        BY <4>1, <4>3, <4>4 DEF FrameOK, settings
    <3> QED
      BY <1>3, <3>1, <3>2
  <2>2. ASSUME NEW j \in DOMAIN seen', NEW k \in DOMAIN seen', j < k
        PROVE  seen'[j].next <= seen'[k].from
    <3>1. j \in 1 .. n /\ seen'[j] = seen[j] /\ j \in DOMAIN seen
      BY <1>1, <1>3, <2>2
    <3>2. CASE k = n + 1
      BY <1>1, <1>4, <3>1, <3>2
    <3>3. CASE k \in 1 .. n
      BY <1>1, <2>2, <3>1, <3>3, ContentsAre
    <3> QED
      BY <1>3, <3>2, <3>3
  <2> QED
    BY <2>1, <2>2 DEF FrameContents, FrameOK, Current
<1>7. Behind'
  <2> SUFFICES ASSUME NEW k \in DOMAIN seen'
               PROVE  seen'[k].from < seen'[k].next /\ seen'[k].next <= head'
    BY DEF Behind
  <2>1. CASE k = n + 1
    BY <1>1, <2>1
  <2>2. CASE k \in 1 .. n
    BY <1>1, <1>2, <1>4, <2>2
  <2> QED
    BY <1>3, <2>1, <2>2
<1>8. Delivered' = IF r.what # "over" THEN Delivered \cup {r.next} ELSE Delivered
  <2>1. Delivered' = {seen'[k].next : k \in {j \in 1 .. n + 1 : Current(seen'[j])}}
    BY <1>1 DEF Delivered, Current
  <2>2. Delivered = {seen[k].next : k \in {j \in 1 .. n : Current(seen[j])}}
    BY <1>1 DEF Delivered, Current
  <2>3. Current(r) <=> r.what # "over"
    BY <1>2 DEF Current
  <2>4. \A k \in 1 .. n : k \in 1 .. n + 1
    BY <1>1
  <2>5. ASSUME NEW x \in Delivered PROVE x \in Delivered'
    BY <1>1, <2>1, <2>2, <2>4
  <2>6. r.what # "over" => r.next \in Delivered'
    <3>1. n + 1 \in 1 .. n + 1
      BY <1>1
    <3> QED
      BY <1>1, <2>1, <2>3, <3>1
  <2>7. ASSUME NEW x \in Delivered' PROVE x \in Delivered \/ (r.what # "over" /\ x = r.next)
    <3>1. PICK k \in 1 .. n + 1 : Current(seen'[k]) /\ x = seen'[k].next
      BY <2>1
    <3>2. CASE k = n + 1
      BY <1>1, <2>3, <3>1, <3>2
    <3>3. CASE k \in 1 .. n
      BY <1>1, <2>2, <3>1, <3>3
    <3> QED
      BY <1>1, <3>2, <3>3
  <2> QED
    BY <2>5, <2>6, <2>7
<1> QED
  BY <1>1, <1>6, <1>7, <1>8
-----------------------------------------------------------------------------
(* When no delimiter is found, the lines behind the reader are all that    *)
(* fit, and what is left is too long exactly if a line was.                *)
LEMMA NoneFoundExact ==
  ASSUME TypeOK, Loop, pc = "decode", ~resync, Eols = {}
  PROVE  /\ {p \in Ends : p <= head} = {p \in Ends : \A q \in Ends : q <= p => Fits(q)}
         /\ Left > max_length <=> (\E p \in Ends : ~Fits(p)) \/ Len(stream) - LastEnd > max_length
<1>1. /\ head \in Ends \cup {base} /\ \A p \in Ends : p <= head => Fits(p)
      /\ head \in Int /\ \A p \in Ends : p \in Int /\ p <= Len(stream)
      /\ Len(stream) \in Nat /\ max_length \in Nat
  BY EndsRange, LineAssumption DEF Loop, TypeOK
<1>2. ASSUME NEW q \in Ends, head < q
      PROVE  \E p \in Ends : p <= q /\ ~Fits(p) /\ p - head > max_length
  BY <1>1, <1>2, NextEndExists, NoneFoundTooLong DEF NextEnd
<1>3. ASSUME NEW p \in Ends, p <= head, NEW q \in Ends, q <= p PROVE Fits(q)
  <2>1. q <= head
    BY <1>1, <1>3
  <2> QED
    BY <1>1, <2>1
<1>4. ASSUME NEW p \in Ends, \A q \in Ends : q <= p => Fits(q) PROVE p <= head
  <2>1. CASE head < p
    BY <1>2, <1>4, <2>1
  <2> QED
    BY <1>1, <2>1
<1>5. {p \in Ends : p <= head} = {p \in Ends : \A q \in Ends : q <= p => Fits(q)}
  BY <1>3, <1>4
<1>6. CASE \E q \in Ends : head < q
  <2>1. PICK p \in Ends : ~Fits(p) /\ p - head > max_length
    BY <1>2, <1>6
  <2>2. Left > max_length
    BY <1>1, <2>1 DEF Left
  <2> QED
    BY <1>5, <2>1, <2>2
<1>7. CASE ~\E q \in Ends : head < q
  <2>1. \A q \in Ends : q <= head
    BY <1>1, <1>7
  <2>2. LastEnd = head
    BY <1>1, <2>1, LastEndIs
  <2>3. \A q \in Ends : Fits(q)
    BY <1>1, <2>1
  <2> QED
    BY <1>5, <2>2, <2>3 DEF Left
<1> QED
  BY <1>6, <1>7

(* When the reader has not moved, a delimiter is found exactly if the      *)
(* first line fits.                                                        *)
LEMMA FoundFits ==
  ASSUME TypeOK, head = base
  PROVE  Eols # {} <=> \E p \in Ends : LineStart(p) = base /\ Fits(p)
<1>1. head \in Nat /\ Eols \subseteq Nat
  BY DEF TypeOK, Eols
<1>2. ASSUME Eols # {} PROVE \E p \in Ends : LineStart(p) = base /\ Fits(p)
  <2>1. PICK eol \in Eols : \A j \in Eols : eol <= j
    BY <1>1, <1>2, LeastExists
  <2>2. FirstEol(eol)
    BY <2>1 DEF FirstEol
  <2> QED
    BY <2>2, FoundIsNext DEF NextEnd
<1>3. ASSUME Eols = {}, NEW p \in Ends, LineStart(p) = base, Fits(p) PROVE FALSE
  <2>1. base < p /\ \A e \in Ends : base < e /\ e \in Int /\ p \in Int
    BY EndsRange
  <2>2. \A e \in Ends : ~(e < p)
    BY <1>1, <1>3, <2>1, LineStartExists
  <2>3. NextEnd(p)
    BY <2>1, <2>2 DEF NextEnd
  <2> QED
    BY <1>3, <2>3, NoneFoundTooLong
<1> QED
  BY <1>2, <1>3

-----------------------------------------------------------------------------
LEMMA InitIInv == Init => IInv
<1> SUFFICES ASSUME Init PROVE IInv
  OBVIOUS
<1>1. TypeOK /\ pc = "idle" /\ seen = <<>> /\ Len(stream) = 0 /\ base = 0 /\ head = 0
      /\ DOMAIN seen = {} /\ resync = FALSE
  <2>1. pc = "idle" /\ seen = <<>> /\ stream = <<>> /\ base = 0 /\ head = 0 /\ resync = FALSE
    BY DEF Init
  <2>2. Len(stream) = 0 /\ DOMAIN seen = {} /\ stream \in Seq(Bytes) /\ seen \in Seq(Frames)
    BY <2>1
  <2>3. 0 \in 0 .. 0
    OBVIOUS
  <2>4. /\ terminator_type \in TerminatorType /\ strip_delimiter \in BOOLEAN
        /\ transport_active = FALSE /\ discarding = FALSE /\ discarded_bytes = 0
    BY DEF Init
  <2>5. discarding <=> discarded_bytes > 0
    BY <2>4
  <2>6. TypeOK
    BY <2>1, <2>2, <2>3, <2>4, <2>5 DEF TypeOK
  <2> QED
    BY <2>1, <2>2, <2>6
<1>2. Ends = {} /\ Delivered = {}
  BY <1>1 DEF Ends, Delivered
<1>3. DiscardingExact
  BY <1>1 DEF DiscardingExact
<1>4. ExactLines
  BY <1>1, <1>2 DEF ExactLines
<1>5. FrameContents /\ Behind
  BY <1>1 DEF FrameContents, Behind
<1> QED
  BY <1>1, <1>3, <1>4, <1>5 DEF IInv, Loop

(* A read: the frames of the reads before it are behind it. *)
LEMMA ReadKeeps ==
  ASSUME IInv, NEW chunk \in Chunks, HandleRead(chunk)
  PROVE  IInv'
<1> USE DEF HandleRead, settings
<1>1. TypeOK /\ FrameContents /\ Behind
  BY DEF IInv, DiscardingExact
<1>2. chunk \in Seq(Bytes) /\ Len(chunk) \in Nat /\ Len(chunk) >= 1
  <2>1. PICK n \in 1 .. MaxRead : chunk \in [1 .. n -> Bytes]
    BY DEF Chunks
  <2>2. n \in Nat /\ n >= 1
    BY <2>1, LineAssumption
  <2>3. Len(chunk) = n /\ chunk \in Seq(Bytes)
    BY <2>1, <2>2
  <2> QED
    BY <2>2, <2>3
<1> DEFINE m == Len(stream)
<1>3. /\ stream \in Seq(Bytes) /\ m \in Nat /\ head = m /\ base' = m /\ head' = m
      /\ stream' \in Seq(Bytes) /\ Len(stream') = m + Len(chunk)
      /\ m \in 0 .. Len(stream') /\ m \in m .. Len(stream') /\ m < Len(stream')
  <2>1. stream \in Seq(Bytes) /\ m \in Nat /\ head = m
    BY <1>1 DEF TypeOK
  <2>2. stream' \in Seq(Bytes) /\ Len(stream') = m + Len(chunk)
    BY <1>2, <2>1
  <2> HIDE DEF m
  <2>3. m \in 0 .. Len(stream') /\ m \in m .. Len(stream') /\ m < Len(stream')
    BY <1>2, <2>1, <2>2
  <2> QED
    BY <2>1, <2>2, <2>3 DEF m
<1> HIDE DEF m
<1>4. TypeOK'
  BY <1>1, <1>3 DEF TypeOK
<1>5. \A k \in DOMAIN seen : ~(seen[k].from >= base')
  <2> SUFFICES ASSUME NEW k \in DOMAIN seen PROVE ~(seen[k].from >= base')
    OBVIOUS
  <2>1. seen[k] \in Frames
    BY <1>1 DEF TypeOK
  <2>2. seen[k].from \in Nat /\ seen[k].next \in Nat
    BY <2>1 DEF Frames
  <2>3. seen[k].from < seen[k].next /\ seen[k].next <= head
    BY <1>1 DEF Behind
  <2> QED
    BY <1>3, <2>2, <2>3
<1>6. Delivered' = {} /\ FrameContents' /\ Behind'
  <2>1. Delivered' = {}
    BY <1>5 DEF Delivered
  <2>2. FrameContents'
    BY <1>1, <1>5 DEF FrameContents
  <2>3. Behind'
    BY <1>1, <1>3 DEF Behind
  <2> QED
    BY <2>1, <2>2, <2>3
<1>7. \A p \in Ends' : ~(p <= head')
  BY <1>3 DEF Ends
<1>8. DiscardingExact' /\ ExactLines'
  BY <1>4 DEF DiscardingExact, ExactLines
<1>9. Loop'
  BY <1>3, <1>6, <1>7 DEF Loop
<1> QED
  BY <1>6, <1>8, <1>9 DEF IInv

(* A line is found: it is the next one, and it is passed on. *)
LEMMA FrameKeeps ==
  ASSUME IInv, DecodeFrame
  PROVE  IInv'
<1>1. /\ TypeOK /\ FrameContents /\ Behind /\ pc = "decode" /\ ~discarding
      /\ UNCHANGED <<settings, transport_active, discarding, discarded_bytes, pc, stream, base, resync>>
      /\ UNCHANGED <<settings, stream, base>>
  BY DEF IInv, DiscardingExact, DecodeFrame
<1>2. /\ ~resync /\ head \in Ends \cup {base} /\ base < Len(stream)
      /\ Delivered = {p \in Ends : p <= head} /\ \A p \in Ends : p <= head => Fits(p)
  BY <1>1 DEF IInv, Loop
<1> DEFINE Next1(eol) == head + eol + DelimLength(eol)
           To(eol) == IF strip_delimiter THEN head + eol ELSE Next1(eol)
           What(eol) == IF Valid(head, To(eol)) THEN "line" ELSE "invalid"
           Frame(eol) == [what |-> What(eol), from |-> head, to |-> To(eol), next |-> Next1(eol)]
<1>3. PICK eol \in Eols : FirstEol(eol) /\ head' = Next1(eol) /\ seen' = Append(seen, Frame(eol))
  BY DEF DecodeFrame, Fire
<1> DEFINE p == Next1(eol)  to == To(eol)  r == Frame(eol)
<1>4. /\ eol \in Nat /\ NextEnd(p) /\ LineStart(p) = head /\ Body(p) = eol /\ Fits(p)
      /\ p <= Len(stream) /\ \A q \in head + eol + 1 .. p : stream[q] # "bad"
  BY <1>1, <1>2, <1>3, FoundIsNext
<1>5. /\ r.what = What(eol) /\ r.from = head /\ r.to = to /\ r.next = p
      /\ to = IF strip_delimiter THEN head + eol ELSE p
      /\ What(eol) = IF Valid(head, to) THEN "line" ELSE "invalid"
      /\ head' = p /\ seen' = Append(seen, r)
  BY <1>3
<1>6. r = [what |-> What(eol), from |-> head, to |-> to, next |-> p]
  OBVIOUS
<1> HIDE DEF p, to, r, Frame, What, To, Next1
<1>7. /\ head \in Nat /\ base \in Nat /\ base <= head /\ Len(stream) \in Nat
      /\ p \in Nat /\ to \in Nat /\ head < p /\ p \in Ends /\ \A e \in Ends : head < e => p <= e
      /\ head + eol < p
  <2>1. p \in Int /\ head < p /\ head \in Nat /\ base \in Nat /\ base <= head /\ Len(stream) \in Nat
    BY <1>1, <1>4, EndsRange DEF NextEnd, TypeOK
  <2>2. Body(p) = p - head - (IF EndsInCrLf(p) THEN 2 ELSE 1)
    BY <1>4 DEF Body
  <2>3. head + eol < p
    BY <1>4, <2>1, <2>2
  <2> QED
    BY <1>4, <1>5, <2>1, <2>3 DEF NextEnd
<1>8. r \in Frames /\ r.what # "over"
  BY <1>5, <1>6, <1>7 DEF Frames
<1>9. FrameOK(r)
  <2>1. Valid(head, to) <=> ~\E q \in head + 1 .. p : stream[q] = "bad"
    <3>1. ASSUME Valid(head, to), NEW q \in head + 1 .. p PROVE stream[q] # "bad"
      <4>1. CASE q \in head + 1 .. to
        BY <3>1, <4>1 DEF Valid
      <4>2. CASE q \in head + eol + 1 .. p
        BY <1>4, <4>2
      <4>3. q \in head + 1 .. to \/ q \in head + eol + 1 .. p
        BY <1>4, <1>5, <1>7
      <4> QED
        BY <4>1, <4>2, <4>3
    <3>2. ASSUME ~Valid(head, to) PROVE \E q \in head + 1 .. p : stream[q] = "bad"
      <4>1. PICK q \in head + 1 .. to : stream[q] = "bad"
        BY <3>2 DEF Valid
      <4>2. q \in head + 1 .. p
        BY <1>4, <1>5, <1>7
      <4> QED
        BY <4>1, <4>2
    <3> QED
      BY <3>1, <3>2
  <2> QED
    BY <1>4, <1>5, <2>1 DEF FrameOK
<1>10. /\ seen' \in Seq(Frames) /\ FrameContents' /\ Behind' /\ Delivered' = Delivered \cup {p}
  BY <1>1, <1>5, <1>7, <1>8, <1>9, FireKeeps
<1>11. /\ Ends' = Ends /\ \A q : Fits(q)' = Fits(q)
  BY <1>1, LinesKept
<1>12. TypeOK'
  <2>1. head' \in base' .. Len(stream')
    BY <1>1, <1>4, <1>5, <1>7
  <2> QED
    BY <1>1, <1>10, <2>1 DEF TypeOK, settings
<1>13. Loop'
  <2>1. Delivered' = {e \in Ends : e <= p}
    <3>1. ASSUME NEW e \in Ends, e <= p PROVE e <= head \/ e = p
      <4>1. e \in Int
        BY <1>1, EndsRange
      <4> QED
        BY <1>7, <3>1, <4>1
    <3>2. \A e \in Ends : e <= head => e <= p
      BY <1>1, <1>7, EndsRange
    <3> QED
      BY <1>2, <1>7, <1>10, <3>1, <3>2
  <2>2. \A e \in Ends : e <= p => Fits(e)
    BY <1>1, <1>2, <1>4, <1>7, EndsRange
  <2>3. \A e \in Ends' : e <= head' => Fits(e)'
    BY <1>5, <1>11, <2>2
  <2>4. Delivered' = {e \in Ends' : e <= head'} /\ head' \in Ends' \cup {base'}
    BY <1>5, <1>7, <1>11, <2>1
  <2>5. discarding' = resync' /\ base' < Len(stream') /\ resync' = FALSE
    <3>1. discarding = resync /\ resync = FALSE
      BY <1>1, <1>2 DEF IInv, Loop, TypeOK
    <3> QED
      BY <1>1, <1>2, <3>1
  <2> QED
    BY <2>3, <2>4, <2>5 DEF Loop
<1>14. DiscardingExact' /\ ExactLines'
  BY <1>1, <1>12 DEF DiscardingExact, ExactLines
<1> QED
  BY <1>10, <1>13, <1>14 DEF IInv

(* The codec returns: the buffer is dropped. *)
LEMMA Returned ==
  ASSUME TypeOK, pc = "decode", base < Len(stream), Return,
         UNCHANGED <<settings, transport_active, stream, base, resync>>,
         discarding' \in BOOLEAN, discarded_bytes' \in Nat, discarding' <=> discarded_bytes' > 0,
         seen' \in Seq(Frames)
  PROVE  TypeOK' /\ Loop' /\ head' \in Nat /\ head <= head' /\ head' = Len(stream)
<1>1. base \in Nat /\ Len(stream) \in Nat /\ head \in base .. Len(stream) /\ pc' = "idle"
      /\ head' = Len(stream) /\ stream' = stream /\ base' = base
  BY DEF TypeOK, Return
<1>2. head' \in base' .. Len(stream')
  BY <1>1
<1> QED
  BY <1>1, <1>2 DEF TypeOK, Loop, settings

LEMMA OverKeeps ==
  ASSUME IInv, DecodeOver
  PROVE  IInv'
<1>1. /\ TypeOK /\ FrameContents /\ Behind /\ Loop /\ pc = "decode" /\ Eols = {} /\ Left > max_length
      /\ discarding' = TRUE /\ discarded_bytes' = Left /\ Return
      /\ UNCHANGED <<settings, transport_active, stream, base, resync>>
      /\ UNCHANGED <<settings, stream, base>>
      /\ ~discarding
  BY DEF IInv, DiscardingExact, DecodeOver
<1>2. ~resync /\ base < Len(stream) /\ Delivered = {p \in Ends : p <= head}
  BY <1>1 DEF Loop
<1>3. /\ head \in Nat /\ Len(stream) \in Nat /\ max_length \in Nat /\ head < Len(stream)
      /\ Left \in Nat /\ Left > 0
  BY <1>1, LineAssumption DEF TypeOK, Left
<1> DEFINE r == [what |-> "over", from |-> head, to |-> Len(stream), next |-> Len(stream)]
<1>4. /\ r \in Frames /\ seen' = Append(seen, r) /\ r.what = "over" /\ r.from = head
      /\ r.next = Len(stream)
  BY <1>3 DEF DecodeOver, Fire, Frames
<1> HIDE DEF r
<1>5. seen' \in Seq(Frames) /\ FrameContents' /\ Behind' /\ Delivered' = Delivered
  <2>1. head' = Len(stream)
    BY <1>1 DEF Return
  <2> QED
    BY <1>1, <1>3, <1>4, <2>1, FireKeeps
<1>6. TypeOK' /\ Loop'
  BY <1>1, <1>2, <1>3, <1>5, Returned
<1>7. /\ Ends' = Ends /\ LastEnd' = LastEnd /\ \A q : Fits(q)' = Fits(q)
  BY <1>1, LinesKept
<1>8. ExactLines'
  <2>1. Delivered' = {p \in Ends : \A q \in Ends : q <= p => Fits(q)}
    BY <1>1, <1>2, <1>5, NoneFoundExact
  <2>2. Delivered' = {p \in Ends' : \A q \in Ends' : q <= p => Fits(q)'}
    BY <1>7, <2>1
  <2> QED
    BY <1>1, <1>2, <2>2 DEF ExactLines
<1>9. DiscardingExact'
  <2>1. (\E p \in Ends : ~Fits(p)) \/ Len(stream) - LastEnd > max_length
    BY <1>1, <1>2, NoneFoundExact
  <2>2. (\E p \in Ends' : ~Fits(p)') \/ Len(stream') - LastEnd' > max_length
    BY <1>1, <1>7, <2>1
  <2> QED
    BY <1>1, <1>2, <1>6, <2>2 DEF DiscardingExact
<1> QED
  BY <1>5, <1>6, <1>8, <1>9 DEF IInv

LEMMA NoneKeeps ==
  ASSUME IInv, DecodeNone
  PROVE  IInv'
<1>1. /\ TypeOK /\ FrameContents /\ Behind /\ Loop /\ pc = "decode" /\ Eols = {} /\ ~(Left > max_length)
      /\ Return /\ UNCHANGED <<settings, transport_active, stream, base, resync>>
      /\ UNCHANGED <<settings, stream, base, seen>> /\ UNCHANGED <<settings, stream, base>>
      /\ ~discarding /\ UNCHANGED <<discarding, discarded_bytes>>
  <2>1. TypeOK /\ FrameContents /\ Behind /\ Loop
    BY DEF IInv, DiscardingExact
  <2>2. Left \in Int /\ max_length \in Nat
    BY <2>1, LineAssumption DEF TypeOK, Left
  <2> QED
    BY <2>1, <2>2 DEF DecodeNone
<1>2. ~resync /\ base < Len(stream) /\ Delivered = {p \in Ends : p <= head}
  BY <1>1 DEF Loop
<1>3. discarding' \in BOOLEAN /\ discarded_bytes' \in Nat /\ (discarding' <=> discarded_bytes' > 0)
      /\ seen' \in Seq(Frames)
  BY <1>1 DEF TypeOK
<1>4. TypeOK' /\ Loop' /\ head' \in Nat /\ head <= head'
  BY <1>1, <1>2, <1>3, Returned
<1>5. FrameContents' /\ Behind' /\ Delivered' = Delivered
  BY <1>1, <1>4, SilentKeeps
<1>6. /\ Ends' = Ends /\ LastEnd' = LastEnd /\ \A q : Fits(q)' = Fits(q)
  BY <1>1, LinesKept
<1>7. ExactLines'
  <2>1. Delivered' = {p \in Ends : \A q \in Ends : q <= p => Fits(q)}
    BY <1>1, <1>2, <1>5, NoneFoundExact
  <2>2. Delivered' = {p \in Ends' : \A q \in Ends' : q <= p => Fits(q)'}
    BY <1>6, <2>1
  <2> QED
    BY <1>1, <1>2, <2>2 DEF ExactLines
<1>8. DiscardingExact'
  <2>1. ~((\E p \in Ends : ~Fits(p)) \/ Len(stream) - LastEnd > max_length)
    BY <1>1, <1>2, NoneFoundExact
  <2>2. ~((\E p \in Ends' : ~Fits(p)') \/ Len(stream') - LastEnd' > max_length)
    BY <1>1, <1>6, <2>1
  <2>3. discarding' = FALSE /\ resync' = FALSE
    BY <1>1, <1>2, <1>3 DEF TypeOK
  <2> QED
    BY <1>4, <2>2, <2>3 DEF DiscardingExact
<1> QED
  BY <1>4, <1>5, <1>7, <1>8 DEF IInv

LEMMA DiscardKeeps ==
  ASSUME IInv, DiscardToEol \/ DiscardAll
  PROVE  IInv'
<1>1. /\ TypeOK /\ FrameContents /\ Behind /\ Loop /\ pc = "decode" /\ discarding
      /\ Return /\ UNCHANGED <<settings, transport_active, stream, base, resync>>
      /\ UNCHANGED <<settings, stream, base, seen>> /\ UNCHANGED <<settings, stream, base>>
  BY DEF IInv, DiscardingExact, DiscardToEol, DiscardAll
<1>2. resync /\ base < Len(stream) /\ head = base /\ Delivered = {} /\ resync' = TRUE
  BY <1>1 DEF Loop, TypeOK
<1>3. Left \in Nat /\ Left > 0
  BY <1>1, <1>2 DEF TypeOK, Left
<1>4. /\ discarding' \in BOOLEAN /\ discarded_bytes' \in Nat /\ (discarding' <=> discarded_bytes' > 0)
      /\ seen' \in Seq(Frames) /\ (discarding' <=> Eols = {})
  <2>1. CASE DiscardToEol
    <3>1. discarding' = FALSE /\ discarded_bytes' = 0 /\ Eols # {} /\ seen' = seen
      BY <1>1, <2>1 DEF DiscardToEol
    <3>2. seen' \in Seq(Frames) /\ ~(discarded_bytes' > 0)
      BY <1>1, <3>1 DEF TypeOK
    <3> QED
      BY <3>1, <3>2
  <2>2. CASE DiscardAll
    BY <1>1, <1>3, <2>2 DEF DiscardAll, TypeOK
  <2> QED
    BY <2>1, <2>2
<1>5. TypeOK' /\ Loop' /\ head' \in Nat /\ head <= head'
  BY <1>1, <1>2, <1>4, Returned
<1>6. FrameContents' /\ Behind' /\ Delivered' = Delivered
  BY <1>1, <1>5, SilentKeeps
<1>7. /\ Ends' = Ends /\ \A q : Fits(q)' = Fits(q) /\ LineStart(q)' = LineStart(q)
  BY <1>1, LinesKept
<1>8. ExactLines'
  BY <1>2, <1>6 DEF ExactLines
<1>9. DiscardingExact'
  <2>1. discarding' <=> ~\E p \in Ends : LineStart(p) = base /\ Fits(p)
    BY <1>1, <1>2, <1>4, FoundFits
  <2>2. discarding' <=> ~\E p \in Ends' : LineStart(p)' = base' /\ Fits(p)'
    BY <1>1, <1>7, <2>1
  <2>3. discarding' = ~\E p \in Ends' : LineStart(p)' = base' /\ Fits(p)'
    BY <1>4, <2>2
  <2> QED
    BY <1>2, <1>5, <2>3 DEF DiscardingExact
<1> QED
  BY <1>5, <1>6, <1>8, <1>9 DEF IInv

(* Nothing of the decoder changes as the transport comes and goes. *)
LEMMA IdleKeeps ==
  ASSUME IInv, transport_active' \in BOOLEAN,
         UNCHANGED <<settings, discarding, discarded_bytes, pc, stream, head, seen, base, resync>>
  PROVE  IInv'
<1>1. TypeOK /\ FrameContents /\ Behind /\ DiscardingExact /\ ExactLines /\ Loop
      /\ UNCHANGED <<settings, stream, base, seen>> /\ UNCHANGED <<settings, stream, base>>
      /\ head' \in Nat /\ head <= head'
  BY DEF IInv, DiscardingExact, TypeOK
<1>2. FrameContents' /\ Behind' /\ Delivered' = Delivered
  BY <1>1, SilentKeeps
<1>3. TypeOK'
  BY <1>1 DEF TypeOK, settings
<1>4. /\ Ends' = Ends /\ LastEnd' = LastEnd
      /\ \A q : Fits(q)' = Fits(q) /\ LineStart(q)' = LineStart(q)
  BY <1>1, LinesKept
<1>5. {p \in Ends' : \A q \in Ends' : q <= p => Fits(q)'} = {p \in Ends : \A q \in Ends : q <= p => Fits(q)}
  BY <1>4
<1>6. ExactLines'
  BY <1>1, <1>2, <1>5 DEF ExactLines
<1>7. DiscardingExact'
  BY <1>1, <1>3, <1>4 DEF DiscardingExact
<1>8. Loop'
  <2>1. {p \in Ends' : p <= head'} = {p \in Ends : p <= head}
    BY <1>4
  <2> QED
    BY <1>1, <1>2, <1>4, <2>1 DEF Loop
<1> QED
  BY <1>2, <1>6, <1>7, <1>8 DEF IInv

LEMMA NextIInv == IInv /\ [Next]_vars => IInv'
<1> SUFFICES ASSUME IInv, [Next]_vars PROVE IInv'
  OBVIOUS
<1>1. transport_active \in BOOLEAN
  BY DEF IInv, DiscardingExact, TypeOK
<1>2. CASE TransportActive \/ TransportInactive
  BY <1>2, IdleKeeps DEF TransportActive, TransportInactive
<1>3. CASE \E chunk \in Chunks : HandleRead(chunk)
  BY <1>3, ReadKeeps
<1>4. CASE DecodeFrame
  BY <1>4, FrameKeeps
<1>5. CASE DecodeOver
  BY <1>5, OverKeeps
<1>6. CASE DecodeNone
  BY <1>6, NoneKeeps
<1>7. CASE DiscardToEol \/ DiscardAll
  BY <1>7, DiscardKeeps
<1>8. CASE UNCHANGED vars
  BY <1>1, <1>8, IdleKeeps DEF vars
<1> QED
  BY <1>2, <1>3, <1>4, <1>5, <1>6, <1>7, <1>8 DEF Next, Decode

LEMMA Invariant == Spec => []IInv
<1> QED
  BY InitIInv, NextIInv, PTL DEF Spec

(* What the codec delivers of a read are exactly the lines before the      *)
(* first one too long, however the stream is cut into reads.               *)
THEOREM LinesAreExact == Spec => []ExactLines
<1>1. IInv => ExactLines
  BY DEF IInv
<1> QED
  BY <1>1, Invariant, PTL

(* Every frame is one line, with or without its delimiter, in order.       *)
THEOREM FramesAreLines == Spec => []FrameContents
<1>1. IInv => FrameContents
  BY DEF IInv
<1> QED
  BY <1>1, Invariant, PTL

(* The decoder discards exactly if a line was too long, until a read shows *)
(* that line's end.                                                        *)
THEOREM DiscardsExactly == Spec => []DiscardingExact
<1>1. IInv => DiscardingExact
  BY DEF IInv
<1> QED
  BY <1>1, Invariant, PTL
=============================================================================
