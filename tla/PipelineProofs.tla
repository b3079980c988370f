--------------------------- MODULE PipelineProofs ---------------------------
(***************************************************************************)
(* The safety of the pipeline, for any set of handlers, names and types,   *)
(* any history of edits and any number of messages.                        *)
(***************************************************************************)
EXTENDS Pipeline, SequenceTheorems, TLAPS

(* Vec::insert: the elements from position i on move up by one. *)
LEMMA InsertAtProperties ==
  ASSUME NEW S, NEW s \in Seq(S), NEW i \in 1 .. Len(s) + 1, NEW e \in S
  PROVE  /\ InsertAt(s, i, e) \in Seq(S)
         /\ Len(InsertAt(s, i, e)) = Len(s) + 1
         /\ \A j \in 1 .. Len(s) + 1 :
              InsertAt(s, i, e)[j] = IF j < i THEN s[j] ELSE IF j = i THEN e ELSE s[j - 1]
<1> DEFINE a == SubSeq(s, 1, i - 1)
           b == SubSeq(s, i, Len(s))
<1>1. /\ a \in Seq(S) /\ Len(a) = i - 1
      /\ \A j \in 1 .. i - 1 : a[j] = s[j]
  BY SubSeqProperties
<1>2. /\ b \in Seq(S) /\ Len(b) = Len(s) - i + 1
      /\ \A j \in 1 .. Len(s) - i + 1 : b[j] = s[i + j - 1]
  BY SubSeqProperties
<1> DEFINE c == <<e>>
           d == a \o c
<1>1a. c \in Seq(S) /\ Len(c) = 1 /\ c[1] = e
  OBVIOUS
<1> HIDE DEF a, b, c
<1>3. /\ d \in Seq(S) /\ Len(d) = i
      /\ \A j \in 1 .. i : d[j] = IF j < i THEN s[j] ELSE e
  <2>1. /\ d \in Seq(S) /\ Len(d) = Len(a) + Len(c)
        /\ \A j \in 1 .. Len(a) + Len(c) : d[j] = IF j <= Len(a) THEN a[j] ELSE c[j - Len(a)]
    BY <1>1, <1>1a, ConcatProperties
  <2>2. Len(a) + Len(c) = i
    BY <1>1, <1>1a
  <2>3. \A j \in 1 .. i : d[j] = IF j < i THEN s[j] ELSE e
    BY <1>1, <1>1a, <2>1, <2>2
  <2> QED
    BY <2>1, <2>2, <2>3
<1> HIDE DEF d
<1>4. /\ d \o b \in Seq(S) /\ Len(d \o b) = Len(s) + 1
      /\ \A j \in 1 .. Len(s) + 1 : (d \o b)[j] = IF j <= i THEN d[j] ELSE b[j - i]
  <2>1. /\ d \o b \in Seq(S) /\ Len(d \o b) = Len(d) + Len(b)
        /\ \A j \in 1 .. Len(d) + Len(b) : (d \o b)[j] = IF j <= Len(d) THEN d[j] ELSE b[j - Len(d)]
    BY <1>2, <1>3, ConcatProperties
  <2>2. Len(d) + Len(b) = Len(s) + 1 /\ Len(d) = i
    BY <1>2, <1>3
  <2> QED
    BY <2>1, <2>2
<1>5. \A j \in 1 .. Len(s) + 1 : j > i => b[j - i] = s[j - 1]
  BY <1>2
<1>6. InsertAt(s, i, e) = d \o b
  BY DEF InsertAt, a, b, c, d
<1> QED
  BY <1>3, <1>4, <1>5, <1>6

(* Vec::remove: the elements after position i move down by one. *)
LEMMA RemoveAtProperties ==
  ASSUME NEW S, NEW s \in Seq(S), NEW i \in 1 .. Len(s)
  PROVE  /\ RemoveAt(s, i) \in Seq(S)
         /\ Len(RemoveAt(s, i)) = Len(s) - 1
         /\ \A j \in 1 .. Len(s) - 1 : RemoveAt(s, i)[j] = IF j < i THEN s[j] ELSE s[j + 1]
<1> DEFINE a == SubSeq(s, 1, i - 1)
           b == SubSeq(s, i + 1, Len(s))
<1>1. /\ a \in Seq(S) /\ Len(a) = i - 1
      /\ \A j \in 1 .. i - 1 : a[j] = s[j]
  BY SubSeqProperties
<1>2. /\ b \in Seq(S) /\ Len(b) = Len(s) - i
      /\ \A j \in 1 .. Len(s) - i : b[j] = s[i + j]
  BY SubSeqProperties
<1> HIDE DEF a, b
<1>3. /\ a \o b \in Seq(S) /\ Len(a \o b) = Len(s) - 1
      /\ \A j \in 1 .. Len(s) - 1 : (a \o b)[j] = IF j < i THEN a[j] ELSE b[j - i + 1]
  BY <1>1, <1>2, ConcatProperties
<1>4. \A j \in 1 .. Len(s) - 1 : ~(j < i) => b[j - i + 1] = s[j + 1]
  BY <1>2
<1>5. RemoveAt(s, i) = a \o b
  BY DEF RemoveAt, a, b
<1> QED
  BY <1>1, <1>3, <1>4, <1>5

-----------------------------------------------------------------------------
(* The strengthened invariant. *)

(* Every handler that is or was in the pipeline has a position. *)
Ranked(h) == h # LastHandler => rank[h] # 0
Positions ==
  /\ \A h \in Handlers : -adds <= rank[h] /\ rank[h] <= adds
  /\ \A i \in DOMAIN handlers : Ranked(handlers[i])
  /\ \A c \in AllHandlers : nextHandler[c] # None => Ranked(c) /\ Ranked(nextHandler[c])

(* remove() works on an idle pipeline, at indices that hold the name. *)
Removing ==
  /\ removing = None <=> doomed = {}
  /\ removing # None => stack = <<>> /\ removing # Reserved
  /\ \A i \in doomed : names[i] = removing

(* The running calls go forward, from the first handler on, and every      *)
(* handler was called with its own context.                                *)
Path ==
  /\ stack # <<>> => event \in Ops /\ stack[1].h = handlers[1]
  /\ \A i \in DOMAIN stack : stack[i].c = stack[i].h
  /\ \A i, j \in DOMAIN stack : i < j => Precedes(stack[i].h, stack[j].h)

IInv == TypeOK /\ Aligned /\ Positions /\ ForwardLinks /\ Removing /\ Path /\ NoInternalPanic

-----------------------------------------------------------------------------
LEMMA HandlersAll == Handlers \subseteq AllHandlers /\ LastHandler \in AllHandlers
BY DEF AllHandlers

LEMMA NamesAll == \A h \in AllHandlers : Name[h] \in Names
BY PipelineAssumption

(* The order of the handlers is a strict order. *)
LEMMA PrecedesIrreflexive ==
  ASSUME TypeOK, NEW a \in AllHandlers
  PROVE  ~Precedes(a, a)
BY DEF Precedes, TypeOK, AllHandlers

LEMMA PrecedesTransitive ==
  ASSUME TypeOK, NEW a \in AllHandlers, NEW b \in AllHandlers, NEW c \in AllHandlers,
         Precedes(a, b), Precedes(b, c)
  PROVE  Precedes(a, c)
BY DEF Precedes, TypeOK, AllHandlers

(* A new handler gets a position, those that have one keep it. *)
LEMMA RankedKept ==
  ASSUME TypeOK, NEW h \in Handlers, rank[h] = 0, NEW r \in Int \ {0},
         rank' = [rank EXCEPT ![h] = r]
  PROVE  /\ \A a \in AllHandlers : Ranked(a) /\ a # LastHandler => rank'[a] = rank[a]
         /\ \A a, b \in AllHandlers :
              Ranked(a) /\ Ranked(b) /\ Precedes(a, b) =>
                a # LastHandler /\ (b = LastHandler \/ rank'[a] < rank'[b])
<1>1. \A a \in AllHandlers : a = LastHandler \/ a \in Handlers
  BY DEF AllHandlers
<1>2. \A a \in Handlers : rank'[a] = IF a = h THEN r ELSE rank[a]
  BY DEF TypeOK
<1> QED
  BY <1>1, <1>2 DEF Ranked, Precedes

(* add_front and add_back: the new handler comes first, or last before the *)
(* LastHandler, in all three vectors.                                      *)
LEMMA InsertKeeps ==
  ASSUME TypeOK, Aligned, Positions,
         NEW h \in Handlers, rank[h] = 0,
         NEW i \in 1 .. Len(names), Insert(h, i),
         NEW r \in Int \ {0}, rank' = [rank EXCEPT ![h] = r],
         \/ i = 1 /\ r = -(adds + 1)
         \/ i = Len(names) /\ r = adds + 1,
         UNCHANGED links
  PROVE  /\ names' \in Seq(Names) /\ handlers' \in Seq(AllHandlers)
         /\ contexts' \in Seq(AllHandlers)
         /\ rank' \in [Handlers -> Int] /\ adds' \in Nat /\ stale' \in BOOLEAN
         /\ Aligned' /\ Positions' /\ (ForwardLinks => ForwardLinks')
<1> DEFINE n == Len(handlers)
           Before(a, b) == a # LastHandler /\ (b = LastHandler \/ rank'[a] < rank'[b])
<1>1. /\ n \in Nat \ {0} /\ Len(names) = n /\ contexts = handlers
      /\ i \in 1 .. n /\ handlers[n] = LastHandler
      /\ names \in Seq(Names) /\ handlers \in Seq(AllHandlers)
  BY DEF Aligned, TypeOK
<1>2. /\ names' \in Seq(Names) /\ Len(names') = n + 1
      /\ \A j \in 1 .. n + 1 :
           names'[j] = IF j < i THEN names[j] ELSE IF j = i THEN Name[h] ELSE names[j - 1]
  <2>1. Name[h] \in Names /\ i \in 1 .. Len(names) + 1 /\ names' = InsertAt(names, i, Name[h])
    BY <1>1, NamesAll, HandlersAll DEF Insert
  <2>2. names \in Seq(Names) /\ Name[h] \in Names /\ i \in 1 .. Len(names) + 1
    BY <1>1, <2>1
  <2>3. InsertAt(names, i, Name[h]) \in Seq(Names)
    BY <2>2, InsertAtProperties
  <2>4. Len(InsertAt(names, i, Name[h])) = Len(names) + 1
    BY <2>2, InsertAtProperties
  <2>5. \A j \in 1 .. Len(names) + 1 :
          InsertAt(names, i, Name[h])[j] =
            IF j < i THEN names[j] ELSE IF j = i THEN Name[h] ELSE names[j - 1]
    BY <2>2, InsertAtProperties
  <2> QED
    BY <1>1, <2>1, <2>3, <2>4, <2>5
<1>3. /\ handlers' \in Seq(AllHandlers) /\ Len(handlers') = n + 1
      /\ \A j \in 1 .. n + 1 :
           handlers'[j] = IF j < i THEN handlers[j] ELSE IF j = i THEN h ELSE handlers[j - 1]
  <2>1. h \in AllHandlers /\ i \in 1 .. Len(handlers) + 1 /\ handlers' = InsertAt(handlers, i, h)
    BY <1>1, HandlersAll DEF Insert
  <2>2. handlers \in Seq(AllHandlers) /\ h \in AllHandlers /\ i \in 1 .. Len(handlers) + 1
    BY <1>1, <2>1
  <2>3. InsertAt(handlers, i, h) \in Seq(AllHandlers)
    BY <2>2, InsertAtProperties
  <2>4. Len(InsertAt(handlers, i, h)) = Len(handlers) + 1
    BY <2>2, InsertAtProperties
  <2>5. \A j \in 1 .. Len(handlers) + 1 :
          InsertAt(handlers, i, h)[j] =
            IF j < i THEN handlers[j] ELSE IF j = i THEN h ELSE handlers[j - 1]
    BY <2>2, InsertAtProperties
  <2> QED
    BY <1>1, <2>1, <2>3, <2>4, <2>5
<1>4. contexts' = handlers'
  BY <1>1 DEF Insert
<1>5. /\ rank' \in [Handlers -> Int] /\ adds' = adds + 1 /\ adds \in Nat /\ stale' = TRUE
  BY DEF Insert, TypeOK
<1>6. \A a \in Handlers : rank'[a] = IF a = h THEN r ELSE rank[a]
  BY DEF TypeOK
<1>7. /\ \A a \in AllHandlers : Ranked(a) /\ a # LastHandler => rank'[a] = rank[a]
      /\ \A a, b \in AllHandlers :
           Ranked(a) /\ Ranked(b) /\ Precedes(a, b) => Before(a, b)
  BY RankedKept
<1>8. /\ \A j \in 1 .. n : handlers[j] \in AllHandlers /\ Ranked(handlers[j])
      /\ \A j, k \in 1 .. n : j < k => Precedes(handlers[j], handlers[k])
  <2>1. DOMAIN handlers = 1 .. n
    BY <1>1
  <2>2. \A j \in 1 .. n : handlers[j] \in AllHandlers
    BY <1>1
  <2> QED
    BY <2>1, <2>2 DEF Positions, Aligned
<1>9. Aligned'
  <2>1. \A j \in 1 .. n + 1 : names'[j] = Name[handlers'[j]]
    <3>1. \A j \in 1 .. n : names[j] = Name[handlers[j]]
      BY <1>1 DEF Aligned
    <3> TAKE j \in 1 .. n + 1
    <3>2. CASE j < i
      <4>1. j \in 1 .. n
        BY <1>1, <3>2
      <4>2. names'[j] = names[j]
        BY <1>2, <3>2
      <4>3. handlers'[j] = handlers[j]
        BY <1>3, <3>2
      <4> QED
        BY <3>1, <4>1, <4>2, <4>3
    <3>3. CASE j = i
      BY <1>1, <1>2, <1>3, <3>3
    <3>4. CASE j > i
      <4>1. j - 1 \in 1 .. n
        BY <1>1, <3>4
      <4> QED
        BY <1>1, <1>2, <1>3, <3>1, <3>4, <4>1
    <3> QED
      BY <1>1, <3>2, <3>3, <3>4
  <2>2. ASSUME NEW p \in 1 .. n + 1, NEW q \in 1 .. n + 1, p < q
        PROVE  Before(handlers'[p], handlers'[q])
    <3>1. CASE p = i
      <4>1. handlers'[p] = h /\ h # LastHandler /\ q - 1 \in 1 .. n /\ handlers'[q] = handlers[q - 1]
        BY <1>1, <1>3, <2>2, <3>1, PipelineAssumption
      <4>2. CASE handlers[q - 1] = LastHandler
        BY <4>1, <4>2
      <4>3. CASE handlers[q - 1] # LastHandler
        <5>1. i = 1 /\ r = -(adds + 1)
          BY <1>1, <2>2, <3>1, <4>1, <4>3
        <5>2. /\ handlers[q - 1] \in Handlers /\ rank[handlers[q - 1]] # 0
          BY <1>8, <4>1, <4>3 DEF Ranked, AllHandlers
        <5>3. /\ rank'[handlers[q - 1]] = rank[handlers[q - 1]]
              /\ -adds <= rank[handlers[q - 1]] /\ rank[handlers[q - 1]] \in Int
          BY <1>6, <5>2 DEF Positions, TypeOK
        <5>4. rank'[h] < rank'[handlers[q - 1]]
          BY <1>5, <1>6, <5>1, <5>3
        <5> QED
          BY <4>1, <5>4
      <4> QED
        BY <4>2, <4>3
    <3>2. CASE q = i
      <4>1. /\ handlers'[q] = h /\ p \in 1 .. n /\ p < n /\ handlers'[p] = handlers[p]
            /\ r = adds + 1
        BY <1>1, <1>3, <2>2, <3>2
      <4>2. handlers[p] # LastHandler
        BY <1>1, <1>8, <4>1 DEF Precedes
      <4>3. handlers[p] \in Handlers /\ rank[handlers[p]] # 0
        BY <1>8, <4>1, <4>2 DEF Ranked, AllHandlers
      <4>4. /\ rank'[handlers[p]] = rank[handlers[p]] /\ rank[handlers[p]] <= adds
            /\ rank[handlers[p]] \in Int
        BY <1>6, <4>3 DEF Positions, TypeOK
      <4>5. rank'[handlers[p]] < rank'[h]
        BY <1>5, <1>6, <4>1, <4>4
      <4> QED
        BY <4>1, <4>2, <4>5
    <3>3. CASE p # i /\ q # i
      <4> DEFINE pp == IF p < i THEN p ELSE p - 1
                 qq == IF q < i THEN q ELSE q - 1
      <4>1. /\ pp \in 1 .. n /\ qq \in 1 .. n /\ pp < qq
            /\ handlers'[p] = handlers[pp] /\ handlers'[q] = handlers[qq]
        BY <1>1, <1>3, <2>2, <3>3
      <4> HIDE DEF pp, qq
      <4>2. Before(handlers[pp], handlers[qq])
        BY <1>7, <1>8, <4>1
      <4> QED
        BY <4>1, <4>2
    <3> QED
      BY <3>1, <3>2, <3>3
  <2>3. handlers'[n + 1] = LastHandler
    BY <1>1, <1>3
  <2>4. DOMAIN handlers' = 1 .. n + 1 /\ Len(handlers') > 0
    BY <1>1, <1>3
  <2>5. \A p, q \in DOMAIN handlers' : p < q => Before(handlers'[p], handlers'[q])
    BY <2>2, <2>4
  <2> QED
    BY <1>2, <1>3, <1>4, <2>1, <2>3, <2>4, <2>5 DEF Aligned, Precedes
<1>10. Positions'
  <2>1. \A a \in Handlers : -adds' <= rank'[a] /\ rank'[a] <= adds'
    BY <1>5, <1>6 DEF Positions, TypeOK
  <2>2. \A j \in DOMAIN handlers' : handlers'[j] # LastHandler => rank'[handlers'[j]] # 0
    <3> TAKE j \in DOMAIN handlers'
    <3>1. j \in 1 .. n + 1
      BY <1>3
    <3>2. handlers'[j] = h \/ \E k \in 1 .. n : handlers'[j] = handlers[k]
      <4>1. CASE j < i
        <5>1. j \in 1 .. n /\ handlers'[j] = handlers[j]
          BY <1>1, <1>3, <3>1, <4>1
        <5> QED
          BY <5>1
      <4>2. CASE j = i
        BY <1>1, <1>3, <3>1, <4>2
      <4>3. CASE j > i
        <5>1. j - 1 \in 1 .. n /\ handlers'[j] = handlers[j - 1]
          BY <1>1, <1>3, <3>1, <4>3
        <5> QED
          BY <5>1
      <4> QED
        BY <1>1, <3>1, <4>1, <4>2, <4>3
    <3>3. rank'[h] # 0
      BY <1>6
    <3> QED
      BY <1>7, <1>8, <3>2, <3>3 DEF Ranked
  <2>3. ASSUME NEW c \in AllHandlers, nextHandler[c] # None
        PROVE  /\ c # LastHandler => rank'[c] # 0
               /\ nextHandler[c] # LastHandler => rank'[nextHandler[c]] # 0
    <3>1. nextHandler[c] \in AllHandlers /\ Ranked(c) /\ Ranked(nextHandler[c])
      BY <2>3 DEF Positions, TypeOK
    <3> QED
      BY <1>7, <3>1 DEF Ranked
  <2> QED
    BY <2>1, <2>2, <2>3 DEF Positions, Ranked, links
<1>11. ASSUME ForwardLinks PROVE ForwardLinks'
  <2>1. ASSUME NEW c \in AllHandlers, nextHandler[c] # None
        PROVE  Before(c, nextHandler[c])
    <3>1. nextHandler[c] \in AllHandlers /\ Ranked(c) /\ Ranked(nextHandler[c])
      BY <2>1 DEF Positions, TypeOK
    <3>2. Precedes(c, nextHandler[c])
      BY <1>11, <2>1 DEF ForwardLinks
    <3> QED
      BY <1>7, <3>1, <3>2
  <2>2. \A c \in AllHandlers : nextContext[c] = nextHandler[c]
    BY <1>11 DEF ForwardLinks
  <2> QED
    BY <2>1, <2>2 DEF ForwardLinks, Precedes, links
<1> QED
  BY <1>2, <1>3, <1>4, <1>5, <1>9, <1>10, <1>11

(* Removing any position but the last one keeps the vectors aligned. *)
LEMMA DeleteKeeps ==
  ASSUME TypeOK, Aligned, Positions,
         NEW i \in 1 .. Len(names) - 1, Delete(i), UNCHANGED links
  PROVE  /\ names' \in Seq(Names) /\ handlers' \in Seq(AllHandlers)
         /\ contexts' \in Seq(AllHandlers)
         /\ rank' = rank /\ adds' = adds /\ stale' \in BOOLEAN
         /\ Len(names') = Len(names) - 1 /\ \A j \in 1 .. i - 1 : names'[j] = names[j]
         /\ Aligned' /\ Positions' /\ (ForwardLinks => ForwardLinks')
<1> DEFINE n == Len(handlers)
           old(j) == IF j < i THEN j ELSE j + 1
<1>1. /\ n \in Nat \ {0} /\ Len(names) = n /\ contexts = handlers
      /\ i \in 1 .. n - 1 /\ handlers[n] = LastHandler
      /\ names \in Seq(Names) /\ handlers \in Seq(AllHandlers)
      /\ i \in 1 .. Len(names) /\ i \in 1 .. Len(handlers)
  BY DEF Aligned, TypeOK
<1>2. /\ names' \in Seq(Names) /\ Len(names') = n - 1
      /\ \A j \in 1 .. n - 1 : names'[j] = IF j < i THEN names[j] ELSE names[j + 1]
  <2>1. names' = RemoveAt(names, i)
    BY DEF Delete
  <2>2. RemoveAt(names, i) \in Seq(Names)
    BY <1>1, RemoveAtProperties
  <2>3. Len(RemoveAt(names, i)) = Len(names) - 1
    BY <1>1, RemoveAtProperties
  <2>4. \A j \in 1 .. Len(names) - 1 :
          RemoveAt(names, i)[j] = IF j < i THEN names[j] ELSE names[j + 1]
    BY <1>1, RemoveAtProperties
  <2> QED
    BY <1>1, <2>1, <2>2, <2>3, <2>4
<1>3. /\ handlers' \in Seq(AllHandlers) /\ Len(handlers') = n - 1
      /\ \A j \in 1 .. n - 1 : handlers'[j] = IF j < i THEN handlers[j] ELSE handlers[j + 1]
  <2>1. handlers' = RemoveAt(handlers, i)
    BY DEF Delete
  <2>2. RemoveAt(handlers, i) \in Seq(AllHandlers)
    BY <1>1, RemoveAtProperties
  <2>3. Len(RemoveAt(handlers, i)) = Len(handlers) - 1
    BY <1>1, RemoveAtProperties
  <2>4. \A j \in 1 .. Len(handlers) - 1 :
          RemoveAt(handlers, i)[j] = IF j < i THEN handlers[j] ELSE handlers[j + 1]
    BY <1>1, RemoveAtProperties
  <2> QED
    BY <1>1, <2>1, <2>2, <2>3, <2>4
<1>4. contexts' = handlers' /\ rank' = rank /\ adds' = adds /\ stale' = TRUE
  BY <1>1 DEF Delete
<1>5. ASSUME NEW j \in 1 .. n - 1
      PROVE  old(j) \in 1 .. n /\ handlers'[j] = handlers[old(j)] /\ names'[j] = names[old(j)]
  <2>1. old(j) \in 1 .. n
    BY <1>1
  <2>2. handlers'[j] = handlers[old(j)]
    BY <1>3
  <2>3. names'[j] = names[old(j)]
    BY <1>2
  <2> QED
    BY <2>1, <2>2, <2>3
<1>6. \A j, k \in 1 .. n - 1 : j < k => old(j) < old(k)
  BY <1>1
<1>7. DOMAIN handlers = 1 .. n /\ DOMAIN handlers' = 1 .. n - 1
  BY <1>1, <1>3
<1> HIDE DEF old
<1>8. Aligned'
  <2>1. \A j \in DOMAIN handlers' : names'[j] = Name[handlers'[j]]
    BY <1>5, <1>7 DEF Aligned
  <2>2. \A j, k \in DOMAIN handlers' :
          j < k => Precedes(handlers'[j], handlers'[k])
    <3> SUFFICES ASSUME NEW j \in 1 .. n - 1, NEW k \in 1 .. n - 1, j < k
                 PROVE  Precedes(handlers'[j], handlers'[k])
      BY <1>7
    <3>1. old(j) \in 1 .. n /\ old(k) \in 1 .. n /\ old(j) < old(k)
      BY <1>5, <1>6
    <3>2. Precedes(handlers[old(j)], handlers[old(k)])
      BY <1>7, <3>1 DEF Aligned
    <3> QED
      BY <1>5, <3>2
  <2>3. n - 1 \in 1 .. n - 1 /\ handlers'[n - 1] = handlers[n]
    BY <1>1, <1>3
  <2> QED
    BY <1>1, <1>2, <1>3, <1>4, <2>1, <2>2, <2>3 DEF Aligned, Precedes
<1>9. Positions'
  <2>1. \A j \in DOMAIN handlers' : Ranked(handlers'[j])
    BY <1>5, <1>7 DEF Positions
  <2> QED
    BY <1>4, <2>1 DEF Positions, Ranked, links
<1>10. ForwardLinks => ForwardLinks'
  BY <1>4 DEF ForwardLinks, Precedes, links
<1>11. \A j \in 1 .. i - 1 : names'[j] = names[j]
  BY <1>1, <1>2
<1> QED
  BY <1>1, <1>2, <1>3, <1>4, <1>8, <1>9, <1>10, <1>11

-----------------------------------------------------------------------------
(* Steps that leave the vectors, the links and the positions alone. *)
LEMMA StaticKept ==
  ASSUME IInv, UNCHANGED <<vectors, links, rank, adds>>
  PROVE  Aligned' /\ Positions' /\ ForwardLinks'
<1>1. /\ names' = names /\ handlers' = handlers /\ contexts' = contexts
      /\ nextHandler' = nextHandler /\ nextContext' = nextContext
      /\ rank' = rank /\ adds' = adds
  BY DEF vectors, links
<1> QED
  BY <1>1 DEF IInv, Aligned, Positions, ForwardLinks, Ranked, Precedes

(* A panic that a user can cause stops everything where it is. *)
LEMMA PanicKeeps ==
  ASSUME IInv, NEW why \in Faults \ {"next borrowed", "context downcast"}, Panic(why)
  PROVE  IInv'
<1>1. /\ fault' = why /\ UNCHANGED <<vectors, links, loop, call, history, traffic>>
  BY DEF Panic
<1>2. Aligned' /\ Positions' /\ ForwardLinks'
  BY <1>1, StaticKept DEF history
<1>3. TypeOK'
  BY <1>1 DEF IInv, TypeOK, vectors, links, loop, call, history, traffic
<1>4. Removing' /\ Path'
  BY <1>1 DEF IInv, Removing, Path, Precedes, vectors, loop, call, history
<1>5. NoInternalPanic'
  BY <1>1 DEF NoInternalPanic
<1> QED
  BY <1>2, <1>3, <1>4, <1>5 DEF IInv

(* finalize(): what the links of a context become. *)
LEMMA SuccessorCases ==
  ASSUME TypeOK, Aligned, NEW c \in AllHandlers
  PROVE  \/ /\ Successor(handlers, c, nextHandler) = nextHandler[c]
            /\ Successor(contexts, c, nextContext) = nextContext[c]
            /\ \A j \in DOMAIN handlers : handlers[j] # c
         \/ \E j \in 1 .. Len(handlers) :
              /\ handlers[j] = c
              /\ Successor(handlers, c, nextHandler) =
                   IF j < Len(handlers) THEN handlers[j + 1] ELSE None
              /\ Successor(contexts, c, nextContext) =
                   IF j < Len(handlers) THEN handlers[j + 1] ELSE None
<1>1. contexts = handlers /\ DOMAIN handlers = 1 .. Len(handlers)
  BY DEF Aligned, TypeOK
<1>2. CASE \E j \in DOMAIN contexts : contexts[j] = c
  <2> DEFINE j == CHOOSE j \in DOMAIN contexts : contexts[j] = c
  <2>1. j \in DOMAIN contexts /\ contexts[j] = c
    BY <1>2
  <2>2. /\ Successor(handlers, c, nextHandler) =
             IF j < Len(contexts) THEN handlers[j + 1] ELSE None
        /\ Successor(contexts, c, nextContext) =
             IF j < Len(contexts) THEN contexts[j + 1] ELSE None
    BY <1>2 DEF Successor
  <2> HIDE DEF j
  <2> QED
    BY <1>1, <2>1, <2>2
<1>3. CASE ~\E j \in DOMAIN contexts : contexts[j] = c
  BY <1>1, <1>3 DEF Successor
<1> QED
  BY <1>2, <1>3

LEMMA UpdateKeeps ==
  ASSUME IInv, Update
  PROVE  IInv'
<1> DEFINE n == Len(handlers)
<1>1. /\ TypeOK /\ Aligned /\ Positions /\ ForwardLinks
      /\ n \in Nat \ {0} /\ DOMAIN handlers = 1 .. n
      /\ \A j \in 1 .. n : handlers[j] \in AllHandlers
  BY DEF IInv, TypeOK, Aligned
<1>2. /\ nextHandler' = [c \in AllHandlers |-> Successor(handlers, c, nextHandler)]
      /\ nextContext' = [c \in AllHandlers |-> Successor(contexts, c, nextContext)]
      /\ stale' = FALSE
      /\ UNCHANGED <<vectors, loop, call, fault, rank, adds, traffic>>
  BY DEF Update
<1>3. ASSUME NEW c \in AllHandlers
      PROVE  /\ nextHandler'[c] \in AllHandlers \cup {None}
             /\ nextContext'[c] = nextHandler'[c]
             /\ nextHandler'[c] # None =>
                  Ranked(c) /\ Ranked(nextHandler'[c]) /\ Precedes(c, nextHandler'[c])
  <2>1. /\ nextHandler'[c] = Successor(handlers, c, nextHandler)
        /\ nextContext'[c] = Successor(contexts, c, nextContext)
    BY <1>2
  <2>2. CASE /\ nextHandler'[c] = nextHandler[c]
             /\ nextContext'[c] = nextContext[c]
    BY <1>1, <2>2 DEF TypeOK, Positions, ForwardLinks
  <2>3. ASSUME NEW j \in 1 .. n,
               /\ handlers[j] = c
               /\ nextHandler'[c] = IF j < n THEN handlers[j + 1] ELSE None
               /\ nextContext'[c] = IF j < n THEN handlers[j + 1] ELSE None
        PROVE  /\ nextHandler'[c] \in AllHandlers \cup {None}
               /\ nextContext'[c] = nextHandler'[c]
               /\ nextHandler'[c] # None =>
                    Ranked(c) /\ Ranked(nextHandler'[c]) /\ Precedes(c, nextHandler'[c])
    <3>1. CASE j < n
      <4>1. j + 1 \in 1 .. n /\ nextHandler'[c] = handlers[j + 1] /\ nextContext'[c] = handlers[j + 1]
        BY <1>1, <2>3, <3>1
      <4>2. Ranked(handlers[j]) /\ Ranked(handlers[j + 1])
        BY <1>1, <4>1 DEF Positions
      <4>3. Precedes(handlers[j], handlers[j + 1])
        BY <1>1, <4>1 DEF Aligned
      <4> QED
        BY <1>1, <2>3, <4>1, <4>2, <4>3
    <3>2. CASE ~(j < n)
      BY <2>3, <3>2
    <3> QED
      BY <3>1, <3>2
  <2> QED
    BY <1>1, <2>1, <2>2, <2>3, SuccessorCases
<1>4. /\ names' = names /\ handlers' = handlers /\ contexts' = contexts
      /\ removing' = removing /\ doomed' = doomed
      /\ event' = event /\ stack' = stack /\ polled' = polled /\ fault' = fault
      /\ rank' = rank /\ adds' = adds
      /\ transmits' = transmits /\ written' = written /\ sent' = sent
  BY <1>2 DEF vectors, loop, call, traffic
<1>5. Aligned'
  BY <1>1, <1>4 DEF Aligned, Precedes
<1>6. Positions'
  BY <1>1, <1>3, <1>4 DEF Positions, Ranked
<1>7. ForwardLinks'
  BY <1>3, <1>4 DEF ForwardLinks, Precedes
<1>8. TypeOK'
  <2>1. /\ nextHandler' \in [AllHandlers -> AllHandlers \cup {None}]
        /\ nextContext' \in [AllHandlers -> AllHandlers \cup {None}]
    BY <1>2, <1>3
  <2> QED
    BY <1>1, <1>2, <1>4, <2>1 DEF TypeOK
<1>9. Removing' /\ Path' /\ NoInternalPanic'
  BY <1>4 DEF IInv, Removing, Path, NoInternalPanic, Precedes
<1> QED
  BY <1>5, <1>6, <1>7, <1>8, <1>9 DEF IInv

(* The handler a call enters, and the panic if it is borrowed: the first   *)
(* one, or one that follows the handler that passes the event on.          *)
Follows(h, borrowed) ==
  \/ borrowed = "head borrowed" /\ h = handlers[1]
  \/ borrowed = "next borrowed" /\ stack # <<>> /\ Precedes(Top.h, h)

(* A call enters a handler that follows the running ones, with its own     *)
(* context: it cannot panic on a borrowed handler or a foreign context.    *)
LEMMA EnterKeeps ==
  ASSUME IInv, NEW h \in AllHandlers, NEW e \in Ops, NEW t, NEW borrowed,
         removing = None, Enter(h, h, e, t, borrowed), Follows(h, borrowed)
  PROVE  IInv'
<1> DEFINE n == Len(stack)
           f == [h |-> h, c |-> h]
<1>0. TypeOK /\ Path /\ stack \in Seq(Frame)
  BY DEF IInv, TypeOK
<1>1. /\ TypeOK /\ Path /\ n \in Nat /\ DOMAIN stack = 1 .. n
      /\ \A i \in 1 .. n : stack[i].h \in AllHandlers
      /\ stack # <<>> => n \in 1 .. n /\ 1 \in 1 .. n
  <2>1. \A i \in 1 .. n : stack[i] \in Frame
    BY <1>0
  <2>2. \A i \in 1 .. n : stack[i].h \in AllHandlers
    BY <2>1 DEF Frame
  <2> QED
    BY <1>0, <2>2
<1>2. CASE h \in BorrowedHandlers /\ Panic(borrowed)
  <2>1. CASE borrowed = "head borrowed"
    BY <1>2, <2>1, PanicKeeps DEF Faults
  <2>2. CASE stack # <<>> /\ Precedes(Top.h, h)
    <3>1. PICK i \in DOMAIN stack : stack[i].h = h
      BY <1>2 DEF BorrowedHandlers
    <3>2. n \in DOMAIN stack /\ Top.h \in AllHandlers
      BY <1>1, <2>2 DEF Top
    <3>3. Precedes(h, h)
      <4>1. CASE i = Len(stack)
        BY <2>2, <3>1, <4>1 DEF Top
      <4>2. CASE i # Len(stack)
        <5>1. i < Len(stack)
          BY <1>1, <4>2
        <5>2. Precedes(h, Top.h)
          BY <1>1, <3>1, <3>2, <5>1 DEF Path, Top
        <5> QED
          BY <1>1, <2>2, <3>2, <5>2, PrecedesTransitive
      <4> QED
        BY <4>1, <4>2
    <3> QED
      BY <1>1, <3>3, PrecedesIrreflexive
  <2> QED
    BY <2>1, <2>2 DEF Follows
<1>3. CASE Panic("message downcast")
  BY <1>3, PanicKeeps DEF Faults
<1>4. CASE /\ h \notin BorrowedHandlers
           /\ event' = IF stack = <<>> THEN e ELSE event
           /\ stack' = Append(stack, [h |-> h, c |-> h])
           /\ UNCHANGED <<vectors, links, loop, polled, fault, history, traffic>>
  <2> HIDE DEF f
  <2>0. f \in Frame /\ f.h = h /\ f.c = h /\ stack' = Append(stack, f)
    BY <1>4 DEF Frame, f
  <2>1. /\ stack' \in Seq(Frame) /\ Len(stack') = n + 1 /\ DOMAIN stack' = 1 .. n + 1
        /\ stack'[n + 1] = f
        /\ \A i \in 1 .. n : stack'[i] = stack[i]
    BY <1>0, <2>0
  <2>2. Aligned' /\ Positions' /\ ForwardLinks'
    BY <1>4, StaticKept DEF history
  <2>3. TypeOK'
    BY <1>1, <1>4, <2>1 DEF TypeOK, vectors, links, loop, history, traffic
  <2>4. Removing' /\ NoInternalPanic'
    BY <1>4 DEF IInv, Removing, NoInternalPanic, vectors, loop
  <2>5. Path'
    <3>1. handlers' = handlers /\ rank' = rank
      BY <1>4 DEF vectors, history
    <3>2. stack'[1].h = handlers[1]
      <4>1. CASE stack = <<>>
        <5>1. h = handlers[1] /\ n = 0
          BY <4>1 DEF Follows
        <5> QED
          BY <2>0, <2>1, <5>1
      <4>2. CASE stack # <<>>
        BY <1>1, <2>1, <4>2 DEF Path
      <4> QED
        BY <4>1, <4>2
    <3>3. ASSUME NEW i \in 1 .. n + 1 PROVE stack'[i].c = stack'[i].h
      <4>1. CASE i = n + 1
        BY <2>0, <2>1, <4>1
      <4>2. CASE i # n + 1
        <5>1. i \in 1 .. n
          BY <1>1, <4>2
        <5> QED
          BY <1>1, <2>1, <5>1 DEF Path
      <4> QED
        BY <4>1, <4>2
    <3>4. ASSUME NEW i \in 1 .. n + 1, NEW j \in 1 .. n + 1, i < j
          PROVE  Precedes(stack'[i].h, stack'[j].h)
      <4>1. i \in 1 .. n /\ stack'[i] = stack[i]
        BY <1>1, <2>1, <3>4
      <4>2. CASE j # n + 1
        <5>1. j \in 1 .. n
          BY <1>1, <4>2
        <5> QED
          BY <1>1, <2>1, <3>4, <4>1, <5>1 DEF Path
      <4>3. CASE j = n + 1
        <5>1. stack'[j].h = h
          BY <2>0, <2>1, <4>3
        <5>2. stack # <<>> /\ n \in 1 .. n /\ 1 \in 1 .. n
          BY <1>1, <4>1
        <5>3. h # handlers[1]
          BY <1>1, <1>4, <5>2 DEF Path, BorrowedHandlers
        <5>4. Precedes(Top.h, h)
          BY <5>3 DEF Follows
        <5>5. CASE i = n
          BY <4>1, <5>1, <5>4, <5>5 DEF Top
        <5>6. CASE i # n
          <6>1. i < n
            <7>1. i \in 1 .. n /\ n \in Nat
              BY <1>0, <4>1
            <7> QED
              BY <5>6, <7>1
          <6>2. Precedes(stack[i].h, stack[n].h)
            BY <1>1, <4>1, <5>2, <6>1 DEF Path
          <6>3. stack[i].h \in AllHandlers /\ stack[n].h \in AllHandlers
            BY <1>1, <4>1, <5>2
          <6> QED
            BY <1>1, <4>1, <5>1, <5>4, <6>2, <6>3, PrecedesTransitive DEF Top
        <5> QED
          BY <5>5, <5>6
      <4> QED
        BY <4>2, <4>3
    <3>5. DOMAIN stack' = 1 .. n + 1
      BY <2>1
    <3>6. event' \in Ops
      BY <1>1, <1>4 DEF Path
    <3> QED
      BY <3>1, <3>2, <3>3, <3>4, <3>5, <3>6 DEF Path, Precedes
  <2> QED
    BY <2>2, <2>3, <2>4, <2>5 DEF IInv
<1> QED
  BY <1>2, <1>3, <1>4 DEF Enter

-----------------------------------------------------------------------------
LEMMA InitIInv == Init => IInv
<1> SUFFICES ASSUME Init PROVE IInv
  OBVIOUS
<1>1. /\ LastHandler \in AllHandlers /\ Name[LastHandler] \in Names
  BY HandlersAll, NamesAll
<1>2. /\ names \in Seq(Names) /\ handlers \in Seq(AllHandlers) /\ contexts \in Seq(AllHandlers)
      /\ transmits \in Seq(Nat) /\ sent \in Seq(Nat) /\ stack \in Seq(Frame)
  BY <1>1 DEF Init
<1>3. TypeOK
  BY <1>2 DEF Init, TypeOK, Values, Unset
<1>4. Len(handlers) = 1 /\ Len(names) = 1 /\ handlers[1] = LastHandler
      /\ names[1] = Name[LastHandler] /\ DOMAIN handlers = 1 .. 1 /\ Len(stack) = 0
  BY DEF Init
<1>5. Aligned
  BY <1>4 DEF Init, Aligned
<1>6. Positions /\ ForwardLinks
  BY <1>4 DEF Init, Positions, Ranked, ForwardLinks
<1>7. Removing /\ Path /\ NoInternalPanic
  <2>1. DOMAIN stack = {} /\ stack = <<>>
    BY DEF Init
  <2>2. None \notin {"next borrowed", "context downcast"}
    BY PipelineAssumption DEF Faults
  <2> QED
    BY <2>1, <2>2 DEF Init, Removing, Path, NoInternalPanic
<1> QED
  BY <1>3, <1>5, <1>6, <1>7 DEF IInv

(* Steps that change the queue only, or the value a poll returns. *)
LEMMA QueueKeeps ==
  ASSUME IInv, UNCHANGED <<vectors, links, loop, event, stack, fault, history>>,
         transmits' \in Seq(Nat), written' \in Nat, sent' \in Seq(Nat), polled' \in Values
  PROVE  IInv'
<1>1. Aligned' /\ Positions' /\ ForwardLinks'
  BY StaticKept DEF history
<1>2. TypeOK'
  BY DEF IInv, TypeOK, vectors, links, loop, history
<1>3. Removing' /\ Path' /\ NoInternalPanic'
  BY DEF IInv, Removing, Path, NoInternalPanic, Precedes, vectors, loop, history
<1> QED
  BY <1>1, <1>2, <1>3 DEF IInv

LEMMA AddKeeps ==
  ASSUME IInv, NEW h \in Handlers, AddBack(h) \/ AddFront(h)
  PROVE  IInv'
<1> DEFINE i == IF AddFront(h) THEN 1 ELSE Len(names)
           r == IF AddFront(h) THEN -(adds + 1) ELSE adds + 1
<1>1. /\ TypeOK /\ Aligned /\ Positions /\ ForwardLinks /\ Removing /\ Path
      /\ adds \in Nat /\ Len(names) \in Nat \ {0}
  BY DEF IInv, TypeOK, Aligned
<1>2. /\ removing = None /\ stack = <<>> /\ rank[h] = 0
      /\ UNCHANGED <<links, loop, call, fault, traffic>>
  BY DEF AddBack, AddFront, UserCode, Exclusive
<1>3. Insert(h, i) /\ rank' = [rank EXCEPT ![h] = r]
  BY DEF AddBack, AddFront
<1>4. /\ i \in 1 .. Len(names) /\ r \in Int \ {0}
      /\ (i = 1 /\ r = -(adds + 1)) \/ (i = Len(names) /\ r = adds + 1)
  <2>1. CASE AddFront(h)
    <3>1. i = 1 /\ r = -(adds + 1)
      BY <2>1
    <3>2. adds \in Nat /\ Len(names) \in Nat \ {0}
      BY <1>1
    <3>3. -(adds + 1) \in Int /\ -(adds + 1) # 0
      BY <3>2
    <3>4. 1 \in 1 .. Len(names)
      BY <3>2
    <3> HIDE DEF i, r
    <3>5. i \in 1 .. Len(names)
      BY <3>1, <3>4
    <3>6. r \in Int /\ r # 0
      BY <3>1, <3>3
    <3> QED
      BY <3>1, <3>5, <3>6
  <2>2. CASE ~AddFront(h)
    <3>1. i = Len(names) /\ r = adds + 1
      BY <2>2
    <3>2. adds \in Nat /\ Len(names) \in Nat \ {0}
      BY <1>1
    <3> QED
      BY <3>1, <3>2
  <2> QED
    BY <2>1, <2>2
<1> HIDE DEF i, r
<1>5. /\ names' \in Seq(Names) /\ handlers' \in Seq(AllHandlers)
      /\ contexts' \in Seq(AllHandlers)
      /\ rank' \in [Handlers -> Int] /\ adds' \in Nat /\ stale' \in BOOLEAN
      /\ Aligned' /\ Positions' /\ ForwardLinks'
  BY <1>1, <1>2, <1>3, <1>4, InsertKeeps
<1>6. removing' = None /\ doomed' = {} /\ stack' = <<>>
  BY <1>1, <1>2 DEF loop, call, Removing
<1>7. TypeOK'
  BY <1>1, <1>2, <1>5, <1>6 DEF TypeOK, links, loop, call, traffic
<1>8. Removing' /\ Path'
  BY <1>6 DEF Removing, Path
<1>9. NoInternalPanic'
  BY <1>2 DEF IInv, NoInternalPanic
<1> QED
  BY <1>5, <1>7, <1>8, <1>9 DEF IInv

LEMMA RemoveEndKeeps ==
  ASSUME IInv, RemoveBack \/ RemoveFront
  PROVE  IInv'
<1>1. /\ TypeOK /\ Aligned /\ Positions /\ ForwardLinks /\ Removing /\ Path
      /\ Len(names) \in Nat \ {0}
  BY DEF IInv, TypeOK, Aligned
<1>2. /\ removing = None /\ stack = <<>> /\ Len(names) # 1
      /\ UNCHANGED <<links, loop, call, fault, traffic>>
  BY DEF RemoveBack, RemoveFront, UserCode, Exclusive
<1>3. PICK i \in 1 .. Len(names) - 1 : Delete(i)
  <2>0. Len(names) \in Nat \ {0, 1}
    BY <1>1, <1>2
  <2>1. /\ Len(names) - 1 \in 1 .. Len(names) - 1
        /\ 1 \in 1 .. Len(names) - 1
    BY <2>0
  <2>2. Delete(Len(names) - 1) \/ Delete(1)
    BY DEF RemoveBack, RemoveFront
  <2> QED
    BY <2>1, <2>2
<1>4. /\ names' \in Seq(Names) /\ handlers' \in Seq(AllHandlers)
      /\ contexts' \in Seq(AllHandlers)
      /\ rank' = rank /\ adds' = adds /\ stale' \in BOOLEAN
      /\ Aligned' /\ Positions' /\ ForwardLinks'
  BY <1>1, <1>2, <1>3, DeleteKeeps
<1>5. removing' = None /\ doomed' = {} /\ stack' = <<>>
  BY <1>1, <1>2 DEF loop, call, Removing
<1>6. TypeOK'
  BY <1>1, <1>2, <1>4, <1>5 DEF TypeOK, links, loop, call, traffic
<1>7. Removing' /\ Path'
  BY <1>5 DEF Removing, Path
<1>8. NoInternalPanic'
  BY <1>2 DEF IInv, NoInternalPanic
<1> QED
  BY <1>4, <1>6, <1>7, <1>8 DEF IInv

LEMMA RemoveByNameKeeps ==
  ASSUME IInv, NEW n \in Names, RemoveByName(n)
  PROVE  IInv'
<1>1. /\ removing' = n /\ n # None /\ n # Reserved /\ stack = <<>>
      /\ doomed' = {i \in DOMAIN names : names[i] = n} /\ doomed' # {}
      /\ UNCHANGED <<vectors, links, call, fault, history, traffic>>
  BY PipelineAssumption DEF RemoveByName, Exclusive
<1>2. Aligned' /\ Positions' /\ ForwardLinks'
  BY <1>1, StaticKept DEF history
<1>3. TypeOK'
  <2>1. /\ names' = names /\ names[Len(names)] = Reserved /\ Len(names) \in Nat
        /\ DOMAIN names = 1 .. Len(names)
    <3>1. TypeOK /\ Aligned
      BY DEF IInv
    <3>2. Len(names) = Len(handlers) /\ Len(names) \in DOMAIN handlers
      BY <3>1 DEF Aligned, TypeOK
    <3>3. names[Len(names)] = Reserved
      BY <3>1, <3>2, PipelineAssumption DEF Aligned
    <3> QED
      BY <1>1, <3>1, <3>3 DEF TypeOK, vectors
  <2>2. ASSUME NEW i \in doomed' PROVE i \in 1 .. Len(names) - 1
    <3>1. i \in 1 .. Len(names) /\ i # Len(names)
      BY <1>1, <2>1, <2>2
    <3>2. Len(names) \in Nat
      BY <2>1
    <3> QED
      BY <3>1, <3>2
  <2>3. doomed' \in SUBSET (1 .. Len(names') - 1)
    BY <2>1, <2>2
  <2> QED
    BY <1>1, <2>3 DEF IInv, TypeOK, vectors, links, call, history, traffic
<1>4. Removing' /\ Path' /\ NoInternalPanic'
  BY <1>1 DEF IInv, Removing, Path, NoInternalPanic, Precedes, vectors, call, history
<1> QED
  BY <1>2, <1>3, <1>4 DEF IInv

LEMMA RemoveNextKeeps ==
  ASSUME IInv, RemoveNext
  PROVE  IInv'
<1>1. /\ TypeOK /\ Aligned /\ Positions /\ ForwardLinks /\ Removing
      /\ Len(names) \in Nat \ {0} /\ DOMAIN names = 1 .. Len(names)
      /\ doomed \subseteq 1 .. Len(names)
  BY DEF IInv, TypeOK, Aligned
<1>2. /\ removing # None /\ stack = <<>> /\ removing # Reserved
      /\ UNCHANGED <<links, call, fault, traffic>>
  BY <1>1 DEF RemoveNext, Removing
<1>3. PICK i \in doomed : /\ \A j \in doomed : j <= i
                         /\ Delete(i)
                         /\ doomed' = doomed \ {i}
                         /\ removing' = IF doomed' = {} THEN None ELSE removing
  BY DEF RemoveNext
<1>4. i \in 1 .. Len(names) - 1
  <2>1. i \in 1 .. Len(names) /\ names[i] = removing
    BY <1>1 DEF Removing
  <2>2. names[Len(names)] = Reserved
    <3>1. Len(names) = Len(handlers) /\ Len(names) \in DOMAIN handlers
      BY <1>1 DEF Aligned, TypeOK
    <3> QED
      BY <1>1, <3>1, PipelineAssumption DEF Aligned
  <2>3. i # Len(names)
    BY <1>2, <2>1, <2>2
  <2>4. Len(names) \in Nat /\ i \in 1 .. Len(names)
    BY <1>1, <2>1
  <2> QED
    BY <2>3, <2>4
<1>5. /\ names' \in Seq(Names) /\ handlers' \in Seq(AllHandlers)
      /\ contexts' \in Seq(AllHandlers)
      /\ rank' = rank /\ adds' = adds /\ stale' \in BOOLEAN
      /\ Len(names') = Len(names) - 1 /\ \A j \in 1 .. i - 1 : names'[j] = names[j]
      /\ Aligned' /\ Positions' /\ ForwardLinks'
  BY <1>1, <1>2, <1>3, <1>4, DeleteKeeps
<1>6. \A j \in doomed' : j \in 1 .. i - 1
  BY <1>1, <1>3, <1>4
<1>7. DOMAIN names' = 1 .. Len(names) - 1
  BY <1>5
<1>8. doomed' \subseteq 1 .. Len(names') - 1
  BY <1>1, <1>4, <1>5, <1>6
<1>9. removing' \in Names \cup {None}
  BY <1>1, <1>3 DEF TypeOK
<1>10. TypeOK'
  BY <1>1, <1>2, <1>5, <1>8, <1>9 DEF TypeOK, links, call, traffic
<1>11. Removing'
  <2>1. removing' = None <=> doomed' = {}
    BY <1>2, <1>3
  <2>2. removing' # None => removing' = removing
    BY <1>3
  <2>3. ASSUME NEW j \in doomed' PROVE names'[j] = removing'
    <3>1. j \in doomed /\ names'[j] = names[j] /\ removing' = removing
      BY <1>3, <1>5, <1>6
    <3> QED
      BY <1>1, <3>1 DEF Removing
  <2> QED
    BY <1>2, <2>1, <2>2, <2>3 DEF Removing, call
<1>12. Path' /\ NoInternalPanic'
  <2>1. stack' = <<>> /\ DOMAIN stack' = {} /\ fault' = fault
    BY <1>2 DEF call
  <2> QED
    BY <2>1 DEF IInv, Path, NoInternalPanic
<1> QED
  BY <1>5, <1>10, <1>11, <1>12 DEF IInv

(* The events of the application enter the first handler, those of a       *)
(* handler the one its context is linked to.                               *)
LEMMA DispatchKeeps ==
  ASSUME IInv, NEW e \in Ops, Dispatch(e)
  PROVE  IInv'
<1>1. /\ handlers[1] \in AllHandlers /\ contexts[1] = handlers[1]
  BY DEF IInv, TypeOK, Aligned
<1>2. removing = None /\ Enter(handlers[1], handlers[1], e, Transport, "head borrowed")
  BY <1>1 DEF Dispatch, UserCode
<1>3. Follows(handlers[1], "head borrowed")
  BY DEF Follows
<1> QED
  BY <1>1, <1>2, <1>3, EnterKeeps

LEMMA FireKeeps ==
  ASSUME IInv, NEW e \in Ops, Fire(e)
  PROVE  IInv'
<1> DEFINE g == nextHandler[Top.c]
<1>1. removing = None /\ stack # <<>> /\ g # None
  BY DEF Fire
<1>2. Len(stack) \in DOMAIN stack /\ stack[Len(stack)] \in Frame
  BY <1>1 DEF IInv, TypeOK
<1>3. Top.c \in AllHandlers /\ Top.c = Top.h
  BY <1>2 DEF IInv, Path, Top, Frame
<1>4. g \in AllHandlers /\ nextContext[Top.c] = g /\ Precedes(Top.h, g)
  BY <1>1, <1>3 DEF IInv, TypeOK, ForwardLinks
<1>5. Enter(g, g, e, Sig[Top.c].rout, "next borrowed")
  BY <1>4 DEF Fire
<1>6. Follows(g, "next borrowed")
  BY <1>1, <1>4 DEF Follows
<1> HIDE DEF g
<1> QED
  BY <1>1, <1>4, <1>5, <1>6, EnterKeeps

LEMMA PollKeeps ==
  ASSUME IInv, PollLast \/ PollEnd
  PROVE  IInv'
<1>1. transmits \in Seq(Nat) /\ written \in Nat /\ sent \in Seq(Nat)
  BY DEF IInv, TypeOK
<1>2. CASE PollLast
  <2>1. CASE transmits = <<>>
    <3>1. transmits' = transmits /\ polled' = None
      BY <1>2, <2>1 DEF PollLast
    <3> QED
      BY <1>1, <1>2, <3>1, QueueKeeps DEF PollLast, Values
  <2>2. CASE transmits # <<>>
    <3>1. transmits' = Tail(transmits) /\ polled' = Head(transmits)
      BY <1>2, <2>2 DEF PollLast
    <3>2. transmits' \in Seq(Nat) /\ polled' \in Values
      BY <1>1, <2>2, <3>1 DEF Values
    <3> QED
      BY <1>1, <1>2, <3>2, QueueKeeps DEF PollLast
  <2> QED
    BY <2>1, <2>2
<1>3. CASE PollEnd
  BY <1>1, <1>3, QueueKeeps DEF PollEnd, traffic, Values
<1> QED
  BY <1>2, <1>3

LEMMA WriteKeeps ==
  ASSUME IInv, Write
  PROVE  IInv'
<1>1. transmits \in Seq(Nat) /\ written \in Nat /\ sent \in Seq(Nat) /\ polled \in Values
  BY DEF IInv, TypeOK
<1>2. transmits' \in Seq(Nat) /\ written' \in Nat
  BY <1>1 DEF Write
<1> QED
  BY <1>1, <1>2, QueueKeeps DEF Write, call

LEMMA ReturnKeeps ==
  ASSUME IInv, Return
  PROVE  IInv'
<1>0. stack # <<>>
  BY DEF Return
<1>1. stack \in Seq(Frame) /\ stack # <<>> /\ polled \in Values /\ sent \in Seq(Nat)
  BY <1>0 DEF IInv, TypeOK
<1>2. CASE Panic("message downcast")
  BY <1>2, PanicKeeps DEF Faults
<1>3. CASE ~Panic("message downcast")
  <2> DEFINE n == Len(stack)
  <2>1. /\ stack' = SubSeq(stack, 1, n - 1)
        /\ \/ n > 1 /\ UNCHANGED <<event, polled, sent>>
           \/ ~(n > 1) /\ event' = None /\ polled' = Unset
              /\ sent' = IF polled \in {Unset, None} THEN sent ELSE Append(sent, polled)
        /\ UNCHANGED <<vectors, links, loop, fault, history, transmits, written>>
    BY <1>3 DEF Return
  <2>2. n \in Nat \ {0}
    BY <1>1
  <2>3. /\ stack' \in Seq(Frame) /\ Len(stack') = n - 1
        /\ \A i \in 1 .. n - 1 : stack'[i] = stack[i]
        /\ DOMAIN stack' = 1 .. n - 1 /\ DOMAIN stack = 1 .. n
    <3>1. stack' = SubSeq(stack, 1, n - 1)
      BY <2>1
    <3>2. \A i \in 1 .. n - 1 : stack[i] \in Frame
      BY <1>1, <2>2
    <3>3. stack' \in Seq(Frame) /\ Len(stack') = n - 1
      <4>1. 1 \in Int /\ n - 1 \in Int
        BY <2>2
      <4>2. Len(SubSeq(stack, 1, n - 1)) = IF 1 <= n - 1 THEN n - 1 - 1 + 1 ELSE 0
        BY <3>2, <4>1, SubSeqProperties
      <4>3. SubSeq(stack, 1, n - 1) \in Seq(Frame)
        BY <3>2, <4>1, SubSeqProperties
      <4>4. Len(SubSeq(stack, 1, n - 1)) = n - 1
        <5>1. CASE n = 1
          BY <4>2, <5>1
        <5>2. CASE n # 1
          <6> HIDE DEF n
          <6> QED
            BY <2>2, <4>2, <5>2
        <5> QED
          BY <5>1, <5>2
      <4> QED
        BY <3>1, <4>3, <4>4
    <3>4. \A i \in 1 .. n - 1 : stack'[i] = stack[i]
      BY <2>2, <3>1, <3>2, SubSeqProperties
    <3> QED
      BY <1>1, <3>3, <3>4
  <2>4. /\ event' \in Ops \cup {None} /\ polled' \in Values /\ sent' \in Seq(Nat)
        /\ stack' # <<>> => event' = event
    <3>1. CASE n > 1
      BY <1>1, <2>1, <3>1 DEF IInv, TypeOK
    <3>2. CASE ~(n > 1)
      <4>1. polled \notin {Unset, None} => polled \in Nat
        BY <1>1 DEF Values
      <4>2. sent' \in Seq(Nat)
        <5>1. sent' = sent \/ (polled \in Nat /\ sent' = Append(sent, polled))
          BY <2>1, <3>2, <4>1
        <5>2. sent \in Seq(Nat)
          BY <1>1
        <5> QED
          BY <5>1, <5>2
      <4>3. stack' = <<>>
        BY <2>2, <2>3, <3>2
      <4> QED
        BY <2>1, <3>2, <4>2, <4>3 DEF Values, Unset
    <3> QED
      BY <3>1, <3>2
  <2>5. Aligned' /\ Positions' /\ ForwardLinks'
    BY <2>1, StaticKept DEF history
  <2>6. TypeOK'
    BY <2>1, <2>3, <2>4 DEF IInv, TypeOK, vectors, links, loop, history
  <2>7. Removing' /\ NoInternalPanic'
    <3>1. removing' = removing /\ doomed' = doomed /\ names' = names /\ fault' = fault
      BY <2>1 DEF vectors, loop
    <3>2. removing = None
      BY <1>1 DEF IInv, Removing
    <3> QED
      BY <3>1, <3>2 DEF IInv, Removing, NoInternalPanic
  <2>8. Path'
    <3>1. handlers' = handlers /\ rank' = rank
      BY <2>1 DEF vectors, history
    <3>2. ASSUME NEW i \in 1 .. n - 1
          PROVE  i \in DOMAIN stack /\ stack'[i] = stack[i]
      BY <2>2, <2>3
    <3>3. \A i \in DOMAIN stack' : stack'[i].c = stack'[i].h
      BY <2>3, <3>2 DEF IInv, Path
    <3>4. \A i, j \in DOMAIN stack' : i < j => Precedes(stack'[i].h, stack'[j].h)
      BY <2>3, <3>2 DEF IInv, Path
    <3>5. stack' # <<>> => 1 \in 1 .. n - 1
      BY <2>2, <2>3
    <3>6. stack' # <<>> => event' \in Ops /\ stack'[1].h = handlers[1]
      BY <1>1, <2>4, <3>2, <3>5 DEF IInv, Path
    <3> QED
      BY <3>1, <3>3, <3>4, <3>6 DEF Path, Precedes
  <2> QED
    BY <2>5, <2>6, <2>7, <2>8 DEF IInv
<1> QED
  BY <1>2, <1>3

(* The inductive step. *)
LEMMA NextIInv == IInv /\ [Next]_vars => IInv'
<1> SUFFICES ASSUME IInv, [Next]_vars PROVE IInv'
  OBVIOUS
<1>1. ASSUME NEW h \in Handlers, AddBack(h) \/ AddFront(h) PROVE IInv'
  BY <1>1, AddKeeps
<1>2. ASSUME NEW h \in Handlers, AddReserved(h) PROVE IInv'
  BY <1>2, PanicKeeps DEF AddReserved, Faults
<1>3. CASE EditDuringEvent \/ UpdateDuringEvent
  BY <1>3, PanicKeeps DEF EditDuringEvent, UpdateDuringEvent, Faults
<1>4. CASE RemoveBack \/ RemoveFront
  BY <1>4, RemoveEndKeeps
<1>5. ASSUME NEW n \in Names, RemoveByName(n) PROVE IInv'
  BY <1>5, RemoveByNameKeeps
<1>6. CASE RemoveNext
  BY <1>6, RemoveNextKeeps
<1>7. CASE Update
  BY <1>7, UpdateKeeps
<1>8. ASSUME NEW e \in Ops, Dispatch(e) PROVE IInv'
  BY <1>8, DispatchKeeps
<1>9. ASSUME NEW e \in Ops, Fire(e) PROVE IInv'
  BY <1>9, FireKeeps
<1>10. CASE PollLast \/ PollEnd
  BY <1>10, PollKeeps
<1>11. CASE Return
  BY <1>11, ReturnKeeps
<1>12. CASE Write
  BY <1>12, WriteKeeps
<1>13. CASE UNCHANGED vars
  <2>1. /\ UNCHANGED <<vectors, links, loop, event, stack, fault, history>>
        /\ UNCHANGED <<transmits, written, sent, polled>>
    BY <1>13 DEF vars, call, traffic
  <2>2. transmits \in Seq(Nat) /\ written \in Nat /\ sent \in Seq(Nat) /\ polled \in Values
    BY DEF IInv, TypeOK
  <2> QED
    BY <2>1, <2>2, QueueKeeps
<1> QED
  BY <1>1, <1>2, <1>3, <1>4, <1>5, <1>6, <1>7, <1>8, <1>9, <1>10, <1>11, <1>12, <1>13 DEF Next

(* The strengthened invariant. *)
THEOREM Invariant == Spec => []IInv
BY InitIInv, NextIInv, PTL DEF Spec

(* Every variable of a pipeline stays in its range, so no removal by index *)
(* is out of bounds.                                                       *)
THEOREM TypeCorrect == Spec => []TypeOK
<1>1. IInv => TypeOK
  BY DEF IInv
<1> QED
  BY Invariant, <1>1, PTL

(* The three vectors of PipelineInternal stay aligned and in order, the    *)
(* LastHandler last.                                                       *)
THEOREM AlwaysAligned == Spec => []Aligned
<1>1. IInv => Aligned
  BY DEF IInv
<1> QED
  BY Invariant, <1>1, PTL

(* The links lead forward, whatever was edited and not finalized.          *)
THEOREM LinksForward == Spec => []ForwardLinks
<1>1. IInv => ForwardLinks
  BY DEF IInv
<1> QED
  BY Invariant, <1>1, PTL

(* Passing an event on never meets a borrowed handler or a foreign context.*)
THEOREM NeverPanicsInside == Spec => []NoInternalPanic
<1>1. IInv => NoInternalPanic
  BY DEF IInv
<1> QED
  BY Invariant, <1>1, PTL

-----------------------------------------------------------------------------
(* What follows from the invariant: the queue is first in, first out,      *)
(* nothing changes under a running event, links never lead into a dead     *)
(* end, a finalized pipeline is walked in order, every handler that runs   *)
(* takes the type it is given, None means that the queue is empty, and     *)
(* remove takes out what it names.                                         *)

(* The steps that touch neither the queue nor the polled message. *)
LEMMA QuietWriteOrder ==
  ASSUME WriteOrder, UNCHANGED <<transmits, written, sent, polled>>
  PROVE  WriteOrder'
BY DEF WriteOrder, OnItsWay, InFlight

LEMMA PollWriteOrder ==
  ASSUME TypeOK, WriteOrder, PollLast
  PROVE  WriteOrder'
<1>1. /\ transmits \in Seq(Nat) /\ sent \in Seq(Nat) /\ Len(sent) \in Nat /\ Len(transmits) \in Nat
      /\ polled = Unset /\ None \notin Nat /\ written' = written /\ sent' = sent
  BY PipelineAssumption DEF TypeOK, PollLast
<1>2. ~OnItsWay /\ InFlight = 0
  BY <1>1 DEF OnItsWay, InFlight
<1>3. CASE transmits = <<>>
  <2>1. transmits' = transmits /\ polled' = None
    BY <1>3 DEF PollLast
  <2>2. ~OnItsWay' /\ InFlight' = 0
    BY <2>1 DEF OnItsWay, InFlight
  <2> QED
    BY <1>1, <1>2, <2>1, <2>2 DEF WriteOrder
<1>4. CASE transmits # <<>>
  <2>1. transmits' = Tail(transmits) /\ polled' = transmits[1] /\ 1 \in DOMAIN transmits
    BY <1>1, <1>4 DEF PollLast
  <2>2. polled' = Len(sent) + 1
    <3>1. transmits[1] = Len(sent) + InFlight + 1
      BY <2>1 DEF WriteOrder
    <3> QED
      BY <1>1, <1>2, <2>1, <3>1
  <2>3. OnItsWay' /\ InFlight' = 1
    BY <1>1, <2>2 DEF OnItsWay, InFlight, Unset
  <2>4. /\ Len(transmits') = Len(transmits) - 1
        /\ \A i \in DOMAIN transmits' : i \in Nat /\ i + 1 \in DOMAIN transmits
                                        /\ transmits'[i] = transmits[i + 1]
    BY <1>1, <1>4, <2>1
  <2>5. \A i \in DOMAIN transmits' : transmits'[i] = Len(sent) + 1 + i
    <3> TAKE i \in DOMAIN transmits'
    <3>1. transmits'[i] = Len(sent) + InFlight + (i + 1)
      BY <2>4 DEF WriteOrder
    <3>2. i \in Nat
      BY <2>4
    <3> QED
      BY <1>1, <1>2, <3>1, <3>2
  <2>6. written' = Len(sent) + 1 + Len(transmits')
    BY <1>1, <1>2, <2>4 DEF WriteOrder
  <2> QED
    BY <1>1, <2>2, <2>3, <2>5, <2>6 DEF WriteOrder
<1> QED
  BY <1>3, <1>4

LEMMA ReturnWriteOrder ==
  ASSUME TypeOK, WriteOrder, Return
  PROVE  WriteOrder'
<1>1. /\ transmits \in Seq(Nat) /\ sent \in Seq(Nat) /\ Len(sent) \in Nat /\ Len(transmits) \in Nat
      /\ polled \in Nat \cup {None}
  BY DEF TypeOK, Values
<1>2. CASE UNCHANGED <<transmits, written, sent, polled>>
  BY <1>2, QuietWriteOrder
<1>3. CASE /\ polled' = Unset /\ transmits' = transmits /\ written' = written
           /\ sent' = IF polled \in {Unset, None} THEN sent ELSE Append(sent, polled)
  <2>1. ~OnItsWay' /\ InFlight' = 0
    BY <1>3 DEF OnItsWay, InFlight
  <2>2. CASE ~OnItsWay
    <3>1. sent' = sent /\ InFlight = 0
      BY <1>3, <2>2 DEF OnItsWay, InFlight
    <3> QED
      BY <1>3, <2>1, <3>1 DEF WriteOrder
  <2>3. CASE OnItsWay
    <3>1. sent' = Append(sent, polled) /\ InFlight = 1 /\ polled = Len(sent) + 1
      BY <1>3, <2>3 DEF OnItsWay, InFlight, WriteOrder
    <3>2. sent' = Append(sent, Len(sent) + 1)
      BY <3>1
    <3>3. Len(sent') = Len(sent) + 1 /\ DOMAIN sent' = 1 .. Len(sent) + 1
      BY <1>1, <3>2
    <3>4. \A i \in DOMAIN sent' : sent'[i] = i
      <4> TAKE i \in DOMAIN sent'
      <4>1. CASE i = Len(sent) + 1
        BY <1>1, <3>2, <4>1
      <4>2. CASE i # Len(sent) + 1
        <5>1. i \in DOMAIN sent
          BY <1>1, <3>3, <4>2
        <5>2. sent'[i] = sent[i]
          BY <1>1, <3>2, <5>1
        <5> QED
          BY <5>1, <5>2 DEF WriteOrder
      <4> QED
        BY <4>1, <4>2
    <3>5. \A i \in DOMAIN transmits' : transmits'[i] = Len(sent') + 0 + i
      <4> TAKE i \in DOMAIN transmits'
      <4>1. i \in DOMAIN transmits /\ i \in Nat /\ transmits'[i] = transmits[i]
        BY <1>1, <1>3
      <4>2. transmits[i] = Len(sent) + InFlight + i
        BY <4>1 DEF WriteOrder
      <4> QED
        BY <1>1, <3>1, <3>3, <4>1, <4>2
    <3>6. written' = Len(sent') + 0 + Len(transmits')
      BY <1>1, <1>3, <3>1, <3>3 DEF WriteOrder
    <3> QED
      BY <2>1, <3>4, <3>5, <3>6 DEF WriteOrder
  <2> QED
    BY <2>2, <2>3
<1> QED
  BY <1>2, <1>3 DEF Return, Panic, call, traffic

LEMMA WriteWriteOrder ==
  ASSUME TypeOK, WriteOrder, Write
  PROVE  WriteOrder'
<1>1. /\ transmits \in Seq(Nat) /\ Len(sent) \in Nat /\ Len(transmits) \in Nat /\ written \in Nat
      /\ InFlight \in Nat
  BY DEF TypeOK, InFlight
<1>2. /\ written' = written + 1 /\ transmits' = Append(transmits, written + 1)
      /\ polled' = polled /\ sent' = sent
  BY DEF Write, call
<1>3. Len(transmits') = Len(transmits) + 1 /\ DOMAIN transmits' = 1 .. Len(transmits) + 1
  BY <1>1, <1>2
<1>4. \A i \in DOMAIN transmits' : transmits'[i] = Len(sent) + InFlight + i
  <2> TAKE i \in DOMAIN transmits'
  <2>1. CASE i = Len(transmits) + 1
    <3>1. transmits'[i] = written + 1
      BY <1>1, <1>2, <2>1
    <3> QED
      BY <1>1, <2>1, <3>1 DEF WriteOrder
  <2>2. CASE i # Len(transmits) + 1
    <3>1. i \in DOMAIN transmits
      BY <1>1, <1>3, <2>2
    <3>2. transmits'[i] = transmits[i]
      BY <1>1, <1>2, <3>1
    <3> QED
      BY <3>1, <3>2 DEF WriteOrder
  <2> QED
    BY <2>1, <2>2
<1>5. written' = Len(sent) + InFlight + Len(transmits')
  BY <1>1, <1>2, <1>3 DEF WriteOrder
<1>6. OnItsWay' = OnItsWay /\ InFlight' = InFlight
  BY <1>2 DEF OnItsWay, InFlight
<1> QED
  BY <1>2, <1>4, <1>5, <1>6 DEF WriteOrder

LEMMA NextWriteOrder == TypeOK /\ WriteOrder /\ [Next]_vars => WriteOrder'
<1> SUFFICES ASSUME TypeOK, WriteOrder, [Next]_vars PROVE WriteOrder'
  OBVIOUS
<1>1. CASE PollLast
  BY <1>1, PollWriteOrder
<1>2. CASE Return
  BY <1>2, ReturnWriteOrder
<1>3. CASE Write
  BY <1>3, WriteWriteOrder
<1>4. CASE PollEnd
  <2>1. /\ polled = Unset /\ polled' = None /\ UNCHANGED <<transmits, written, sent>>
    BY <1>4 DEF PollEnd, traffic
  <2>2. /\ OnItsWay' = FALSE /\ OnItsWay = FALSE /\ InFlight' = 0 /\ InFlight = 0
    BY <2>1 DEF OnItsWay, InFlight
  <2> QED
    BY <2>1, <2>2 DEF WriteOrder
<1>5. CASE ~(PollLast \/ Return \/ Write \/ PollEnd)
  <2>1. ASSUME NEW h \in Handlers, AddBack(h) \/ AddFront(h) \/ AddReserved(h)
        PROVE  UNCHANGED <<transmits, written, sent, polled>>
    BY <2>1 DEF AddBack, AddFront, AddReserved, Panic, call, traffic
  <2>2. CASE RemoveBack \/ RemoveFront \/ RemoveNext \/ EditDuringEvent
    BY <2>2, QuietWriteOrder
       DEF RemoveBack, RemoveFront, RemoveNext, EditDuringEvent, Panic, call, traffic
  <2>3. ASSUME NEW n \in Names, RemoveByName(n)
        PROVE  UNCHANGED <<transmits, written, sent, polled>>
    BY <2>3 DEF RemoveByName, call, traffic
  <2>4. CASE Update \/ UpdateDuringEvent \/ UNCHANGED vars
    BY <2>4, QuietWriteOrder DEF Update, UpdateDuringEvent, Panic, call, traffic, vars
  <2>5. ASSUME NEW e \in Ops, Dispatch(e) \/ Fire(e)
        PROVE  UNCHANGED <<transmits, written, sent, polled>>
    BY <2>5 DEF Dispatch, Fire, Enter, Panic, call, traffic
  <2> QED
    BY <1>5, <2>1, <2>2, <2>3, <2>4, <2>5, QuietWriteOrder DEF Next
<1> QED
  BY <1>1, <1>2, <1>3, <1>4, <1>5

(* The queue of a pipeline is first in, first out, and loses nothing.      *)
THEOREM QueueInOrder == Spec => []WriteOrder
<1>1. Init => WriteOrder
  BY DEF Init, WriteOrder, OnItsWay, InFlight
<1> QED
  BY <1>1, NextWriteOrder, TypeCorrect, PTL DEF Spec

-----------------------------------------------------------------------------
(* finalize() cannot run under an event: the first context is borrowed.    *)
LEMMA UpdateIdle ==
  ASSUME IInv, Update
  PROVE  stack = <<>>
<1> SUFFICES ASSUME stack # <<>> PROVE FALSE
  OBVIOUS
<1>1. /\ contexts = handlers /\ 1 \in DOMAIN handlers /\ 1 \in DOMAIN stack
  BY DEF IInv, TypeOK, Aligned
<1>2. stack[1].c = handlers[1]
  BY <1>1 DEF IInv, Path
<1>3. handlers[1] \in BorrowedContexts
  BY <1>1, <1>2 DEF BorrowedContexts
<1> QED
  BY <1>1, <1>3 DEF Update

(* Nothing changes under a running event: the edits need the pipeline to   *)
(* themselves, and so does finalize().                                     *)
LEMMA NextFreezes == IInv /\ [Next]_vars => (stack # <<>> => UNCHANGED <<vectors, links>>)
<1> SUFFICES ASSUME IInv, [Next]_vars, stack # <<>> PROVE UNCHANGED <<vectors, links>>
  OBVIOUS
<1>1. ASSUME NEW h \in Handlers, AddBack(h) \/ AddFront(h) \/ AddReserved(h)
      PROVE  UNCHANGED <<vectors, links>>
  BY <1>1 DEF AddBack, AddFront, AddReserved, Exclusive
<1>2. CASE RemoveBack \/ RemoveFront
  BY <1>2 DEF RemoveBack, RemoveFront, Exclusive
<1>3. CASE RemoveNext
  BY <1>3 DEF RemoveNext, IInv, Removing
<1>4. ASSUME NEW n \in Names, RemoveByName(n) PROVE UNCHANGED <<vectors, links>>
  BY <1>4 DEF RemoveByName, Exclusive
<1>5. CASE Update
  BY <1>5, UpdateIdle
<1>6. CASE EditDuringEvent \/ UpdateDuringEvent
  BY <1>6 DEF EditDuringEvent, UpdateDuringEvent, Panic
<1>7. ASSUME NEW e \in Ops, Dispatch(e) \/ Fire(e) PROVE UNCHANGED <<vectors, links>>
  BY <1>7 DEF Dispatch, Fire, Enter, Panic
<1>8. CASE PollLast \/ PollEnd \/ Return \/ Write
  BY <1>8 DEF PollLast, PollEnd, Return, Write, Panic
<1>9. CASE UNCHANGED vars
  BY <1>9 DEF vars
<1> QED
  BY <1>1, <1>2, <1>3, <1>4, <1>5, <1>6, <1>7, <1>8, <1>9 DEF Next

(* Handlers and links do not change while an event runs.                   *)
THEOREM EventsFreeze == Spec => EventFreezesPipeline
BY Invariant, NextFreezes, PTL DEF Spec, EventFreezesPipeline

-----------------------------------------------------------------------------
(* A link leads into a handler of the chain, or to one that kept its own:  *)
(* finalize() links every handler but the last one.                        *)
LEMMA UpdateNoDeadEnd ==
  ASSUME IInv, NoDeadEnd, Update
  PROVE  NoDeadEnd'
<1>1. /\ TypeOK /\ Aligned /\ Len(handlers) \in Nat /\ DOMAIN handlers = 1 .. Len(handlers)
      /\ handlers[Len(handlers)] = LastHandler /\ LastHandler \notin Handlers
      /\ Handlers \subseteq AllHandlers /\ None \notin AllHandlers
  BY PipelineAssumption, HandlersAll DEF IInv, TypeOK, Aligned
<1>2. \A c \in AllHandlers : nextHandler'[c] = Successor(handlers, c, nextHandler)
  BY DEF Update
<1>3. ASSUME NEW g \in Handlers, NEW j \in 1 .. Len(handlers), handlers[j] = g
      PROVE  nextHandler'[g] # None
  <2>1. PICK k \in 1 .. Len(handlers) :
          /\ handlers[k] = g
          /\ nextHandler'[g] = IF k < Len(handlers) THEN handlers[k + 1] ELSE None
    BY <1>1, <1>2, <1>3, SuccessorCases
  <2>2. k < Len(handlers)
    <3>1. k # Len(handlers)
      BY <1>1, <2>1
    <3>2. Len(handlers) \in Nat /\ k \in 1 .. Len(handlers)
      BY <1>1
    <3> QED
      BY <3>1, <3>2
  <2>3. k + 1 \in DOMAIN handlers
    BY <1>1, <2>2
  <2>4. handlers[k + 1] \in AllHandlers
    BY <1>1, <2>3 DEF TypeOK
  <2> QED
    BY <1>1, <2>1, <2>2, <2>4
<1>4. ASSUME NEW c \in AllHandlers, nextHandler'[c] \in Handlers
      PROVE  nextHandler'[nextHandler'[c]] # None
  <2> DEFINE g == nextHandler'[c]
  <2>1. CASE \E j \in 1 .. Len(handlers) : handlers[j] = g
    BY <1>3, <1>4, <2>1
  <2>2. CASE ~\E j \in 1 .. Len(handlers) : handlers[j] = g
    <3>1. nextHandler'[g] = nextHandler[g]
      BY <1>1, <1>2, <1>4, <2>2, SuccessorCases
    <3>2. g = nextHandler[c]
      <4>1. CASE Successor(handlers, c, nextHandler) = nextHandler[c]
        BY <1>2, <4>1
      <4>2. ASSUME NEW j \in 1 .. Len(handlers),
                   g = IF j < Len(handlers) THEN handlers[j + 1] ELSE None
            PROVE  FALSE
        <5>1. j < Len(handlers) => j + 1 \in 1 .. Len(handlers)
          BY <1>1
        <5> QED
          BY <1>1, <1>4, <2>2, <4>2, <5>1
      <4> QED
        BY <1>1, <1>2, <4>1, <4>2, SuccessorCases
    <3> QED
      BY <1>4, <3>1, <3>2 DEF NoDeadEnd
  <2> QED
    BY <2>1, <2>2
<1> QED
  BY <1>4 DEF NoDeadEnd

(* Links are written by finalize() alone. *)
LEMMA LinksKept == [Next]_vars => Update \/ UNCHANGED links
<1> SUFFICES ASSUME [Next]_vars, ~Update PROVE UNCHANGED links
  OBVIOUS
<1>1. ASSUME NEW h \in Handlers, AddBack(h) \/ AddFront(h) \/ AddReserved(h)
      PROVE  UNCHANGED links
  BY <1>1 DEF AddBack, AddFront, AddReserved, Panic
<1>2. CASE RemoveBack \/ RemoveFront \/ RemoveNext \/ EditDuringEvent \/ UpdateDuringEvent
  BY <1>2 DEF RemoveBack, RemoveFront, RemoveNext, EditDuringEvent, UpdateDuringEvent, Panic
<1>3. ASSUME NEW n \in Names, RemoveByName(n) PROVE UNCHANGED links
  BY <1>3 DEF RemoveByName
<1>4. ASSUME NEW e \in Ops, Dispatch(e) \/ Fire(e) PROVE UNCHANGED links
  BY <1>4 DEF Dispatch, Fire, Enter, Panic
<1>5. CASE PollLast \/ PollEnd \/ Return \/ Write
  BY <1>5 DEF PollLast, PollEnd, Return, Write, Panic
<1>6. CASE UNCHANGED vars
  BY <1>6 DEF vars
<1> QED
  BY <1>1, <1>2, <1>3, <1>4, <1>5, <1>6 DEF Next

LEMMA NextNoDeadEnd == IInv /\ NoDeadEnd /\ [Next]_vars => NoDeadEnd'
<1> SUFFICES ASSUME IInv, NoDeadEnd, [Next]_vars PROVE NoDeadEnd'
  OBVIOUS
<1>1. CASE Update
  BY <1>1, UpdateNoDeadEnd
<1>2. CASE UNCHANGED links
  BY <1>2 DEF links, NoDeadEnd
<1> QED
  BY <1>1, <1>2, LinksKept

(* No link leads into a dead end, whatever was removed and not finalized.  *)
THEOREM ChainsReachTheEnd == Spec => []NoDeadEnd
<1>1. Init => NoDeadEnd
  BY PipelineAssumption, HandlersAll DEF Init, NoDeadEnd
<1> QED
  BY <1>1, NextNoDeadEnd, Invariant, PTL DEF Spec

-----------------------------------------------------------------------------
(* Once finalized, the links of the handlers are those of the vectors.     *)
Linked ==
  ~stale => \A j \in DOMAIN handlers :
              nextHandler[handlers[j]] = IF j < Len(handlers) THEN handlers[j + 1] ELSE None

OInv == Linked /\ FinalizedOrder

(* No handler stands in the vectors twice. *)
LEMMA HandlersDistinct ==
  ASSUME IInv, NEW j \in 1 .. Len(handlers), NEW k \in 1 .. Len(handlers),
         handlers[j] = handlers[k]
  PROVE  j = k
<1>1. /\ TypeOK /\ DOMAIN handlers = 1 .. Len(handlers) /\ Len(handlers) \in Nat
      /\ handlers[j] \in AllHandlers
  BY DEF IInv, TypeOK
<1>2. ~Precedes(handlers[j], handlers[k]) /\ ~Precedes(handlers[k], handlers[j])
  BY <1>1, PrecedesIrreflexive
<1>3. ~(j < k) /\ ~(k < j)
  BY <1>1, <1>2 DEF IInv, Aligned
<1>4. j \in Int /\ k \in Int
  BY <1>1
<1> QED
  BY <1>3, <1>4

LEMMA UpdateOrder ==
  ASSUME IInv, Update
  PROVE  OInv'
<1>1. /\ TypeOK /\ Aligned /\ Len(handlers) \in Nat /\ DOMAIN handlers = 1 .. Len(handlers)
      /\ \A j \in 1 .. Len(handlers) : handlers[j] \in AllHandlers
      /\ handlers' = handlers
  BY DEF IInv, TypeOK, Aligned, Update, vectors
<1>2. \A c \in AllHandlers : nextHandler'[c] = Successor(handlers, c, nextHandler)
  BY DEF Update
<1>3. ASSUME NEW j \in 1 .. Len(handlers)
      PROVE  nextHandler'[handlers[j]] = IF j < Len(handlers) THEN handlers[j + 1] ELSE None
  <2>1. PICK k \in 1 .. Len(handlers) :
          /\ handlers[k] = handlers[j]
          /\ nextHandler'[handlers[j]] = IF k < Len(handlers) THEN handlers[k + 1] ELSE None
    BY <1>1, <1>2, <1>3, SuccessorCases
  <2>2. k = j
    BY <2>1, HandlersDistinct
  <2> QED
    BY <2>1, <2>2
<1>4. Linked'
  BY <1>1, <1>3 DEF Linked
<1>5. stack' = <<>>
  BY UpdateIdle DEF Update, call
<1>6. Len(stack') = 0 /\ DOMAIN stack' = {}
  BY <1>5
<1>7. Len(stack') <= Len(handlers')
  BY <1>1, <1>6
<1> QED
  BY <1>4, <1>6, <1>7 DEF OInv, FinalizedOrder

(* Steps that leave the vectors, the links and the stack alone. *)
LEMMA QuietOrder ==
  ASSUME OInv, UNCHANGED <<handlers, nextHandler, stack, stale>>
  PROVE  OInv'
BY DEF OInv, Linked, FinalizedOrder

(* A call enters the handler that comes next in the vectors. *)
LEMMA PushOrder ==
  ASSUME IInv, OInv, NEW h \in AllHandlers, stack' = Append(stack, [h |-> h, c |-> h]),
         UNCHANGED <<handlers, nextHandler, stale>>,
         ~stale => Len(stack) + 1 \in DOMAIN handlers /\ handlers[Len(stack) + 1] = h
  PROVE  OInv'
<1> DEFINE n == Len(stack)
           f == [h |-> h, c |-> h]
<1>1. stack \in Seq(Frame) /\ handlers \in Seq(AllHandlers)
  BY DEF IInv, TypeOK
<1>2. f \in Frame /\ f.h = h
  BY DEF Frame
<1> HIDE DEF f
<1>3. stack' = Append(stack, f)
  BY DEF f
<1>4. /\ n \in Nat /\ DOMAIN stack = 1 .. n /\ DOMAIN stack' = 1 .. n + 1 /\ Len(stack') = n + 1
      /\ stack'[n + 1] = f /\ \A i \in 1 .. n : stack'[i] = stack[i]
  BY <1>1, <1>2, <1>3
<1>5. Linked'
  BY DEF OInv, Linked
<1>6. FinalizedOrder'
  <2> SUFFICES ASSUME ~stale'
               PROVE  /\ Len(stack') <= Len(handlers')
                      /\ \A i \in DOMAIN stack' : stack'[i].h = handlers'[i]
    BY DEF FinalizedOrder
  <2>1. ~stale /\ handlers' = handlers
    OBVIOUS
  <2>2. n + 1 \in DOMAIN handlers /\ handlers[n + 1] = h
    BY <2>1
  <2>3. n + 1 <= Len(handlers)
    BY <1>1, <1>4, <2>2
  <2>4. ASSUME NEW i \in DOMAIN stack' PROVE stack'[i].h = handlers'[i]
    <3>1. CASE i = n + 1
      BY <1>2, <1>4, <2>1, <2>2, <3>1
    <3>2. CASE i # n + 1
      <4>1. i \in DOMAIN stack
        <5>1. n \in Nat /\ i \in 1 .. n + 1
          BY <1>4
        <5>2. i \in 1 .. n
          BY <3>2, <5>1
        <5> QED
          BY <1>4, <5>2
      <4> QED
        BY <1>4, <2>1, <4>1 DEF OInv, FinalizedOrder
    <3> QED
      BY <3>1, <3>2
  <2> QED
    BY <1>4, <2>1, <2>3, <2>4
<1> QED
  BY <1>5, <1>6 DEF OInv

LEMMA DispatchOrder ==
  ASSUME IInv, OInv, NEW e \in Ops, Dispatch(e)
  PROVE  OInv'
<1>1. /\ contexts = handlers /\ 1 \in DOMAIN handlers /\ handlers[1] \in AllHandlers
  BY DEF IInv, TypeOK, Aligned
<1>2. CASE UNCHANGED <<handlers, nextHandler, stack, stale>>
  BY <1>2, QuietOrder
<1>3. CASE /\ handlers[1] \notin BorrowedHandlers
           /\ stack' = Append(stack, [h |-> handlers[1], c |-> contexts[1]])
           /\ UNCHANGED <<vectors, links, history>>
  <2>1. stack = <<>>
    <3> SUFFICES ASSUME stack # <<>> PROVE FALSE
      OBVIOUS
    <3>1. 1 \in DOMAIN stack /\ stack[1].h = handlers[1]
      BY DEF IInv, TypeOK, Path
    <3> QED
      BY <1>3, <3>1 DEF BorrowedHandlers
  <2>2. Len(stack) + 1 = 1
    BY <2>1
  <2>3. stack' = Append(stack, [h |-> handlers[1], c |-> handlers[1]])
    BY <1>1, <1>3
  <2>4. UNCHANGED <<handlers, nextHandler, stale>>
    BY <1>3 DEF vectors, links, history
  <2> QED
    BY <1>1, <2>2, <2>3, <2>4, PushOrder
<1> QED
  BY <1>2, <1>3 DEF Dispatch, Enter, Panic, vectors, links, call, history

LEMMA FireOrder ==
  ASSUME IInv, OInv, NEW e \in Ops, Fire(e)
  PROVE  OInv'
<1> DEFINE n == Len(stack)
           g == nextHandler[Top.c]
<1>1. stack # <<>> /\ g # None
  BY DEF Fire
<1>2. n \in DOMAIN stack /\ stack[n] \in Frame /\ n \in Nat \ {0} /\ Top = stack[n]
  BY <1>1 DEF IInv, TypeOK, Top
<1>3. Top.c \in AllHandlers /\ Top.c = Top.h
  BY <1>2 DEF IInv, Path, Frame
<1>4. g \in AllHandlers /\ nextContext[Top.c] = g
  BY <1>1, <1>3 DEF IInv, TypeOK, ForwardLinks
<1>5. CASE UNCHANGED <<handlers, nextHandler, stack, stale>>
  BY <1>5, QuietOrder
<1>6. CASE /\ stack' = Append(stack, [h |-> g, c |-> nextContext[Top.c]])
           /\ UNCHANGED <<vectors, links, history>>
  <2>1. stack' = Append(stack, [h |-> g, c |-> g])
    BY <1>4, <1>6
  <2>2. UNCHANGED <<handlers, nextHandler, stale>>
    BY <1>6 DEF vectors, links, history
  <2>3. ASSUME ~stale PROVE n + 1 \in DOMAIN handlers /\ handlers[n + 1] = g
    <3>1. Top.h = handlers[n] /\ n <= Len(handlers)
      BY <1>2, <2>3 DEF OInv, FinalizedOrder
    <3>2. Len(handlers) \in Nat /\ DOMAIN handlers = 1 .. Len(handlers)
      BY DEF IInv, TypeOK
    <3>3. n \in DOMAIN handlers
      <4>1. n \in Nat \ {0} /\ n <= Len(handlers)
        BY <1>2, <3>1
      <4> QED
        BY <3>2, <4>1
    <3>4. g = IF n < Len(handlers) THEN handlers[n + 1] ELSE None
      BY <1>3, <2>3, <3>1, <3>3 DEF OInv, Linked
    <3>5. n < Len(handlers) /\ g = handlers[n + 1]
      BY <1>1, <3>4
    <3>6. n + 1 \in DOMAIN handlers
      <4>1. n \in Nat /\ n < Len(handlers)
        BY <1>2, <3>5
      <4> QED
        BY <3>2, <4>1
    <3> QED
      BY <3>5, <3>6
  <2> HIDE DEF g
  <2> QED
    BY <1>4, <2>1, <2>2, <2>3, PushOrder
<1> QED
  BY <1>5, <1>6 DEF Fire, Enter, Panic, vectors, links, call, history

LEMMA ReturnOrder ==
  ASSUME IInv, OInv, Return
  PROVE  OInv'
<1> DEFINE n == Len(stack)
<1>1. CASE UNCHANGED <<handlers, nextHandler, stack, stale>>
  BY <1>1, QuietOrder
<1>2. CASE stack' = SubSeq(stack, 1, n - 1) /\ UNCHANGED <<vectors, links, history>>
  <2>1. /\ handlers' = handlers /\ nextHandler' = nextHandler /\ stale' = stale
    BY <1>2 DEF vectors, links, history
  <2>2. n \in Nat \ {0} /\ stack \in Seq(Frame) /\ DOMAIN stack = 1 .. n
    <3>1. stack # <<>> /\ stack \in Seq(Frame)
      BY DEF Return, IInv, TypeOK
    <3> QED
      BY <3>1
  <2>3. \A i \in 1 .. n - 1 : stack[i] \in Frame
    BY <2>2
  <2>4. Len(stack') = IF 1 <= n - 1 THEN n - 1 - 1 + 1 ELSE 0
    BY <1>2, <2>2, <2>3, SubSeqProperties
  <2>5. stack' \in Seq(Frame)
    BY <1>2, <2>2, <2>3, SubSeqProperties
  <2>6. \A i \in 1 .. n - 1 : stack'[i] = stack[i]
    BY <1>2, <2>2, <2>3, SubSeqProperties
  <2>7. Len(stack') = n - 1
    <3>1. CASE n = 1
      BY <2>4, <3>1
    <3>2. CASE n # 1
      <4>1. n \in Nat \ {0}
        BY <2>2
      <4> HIDE DEF n
      <4> QED
        BY <2>4, <3>2, <4>1
    <3> QED
      BY <3>1, <3>2
  <2>8. DOMAIN stack' = 1 .. Len(stack')
    BY <2>5
  <2>9. Linked'
    BY <2>1 DEF OInv, Linked
  <2>10. FinalizedOrder'
    <3> SUFFICES ASSUME ~stale'
                 PROVE  /\ Len(stack') <= Len(handlers')
                        /\ \A i \in DOMAIN stack' : stack'[i].h = handlers'[i]
      BY DEF FinalizedOrder
    <3>1. n <= Len(handlers) /\ Len(handlers) \in Nat
      BY <2>1 DEF OInv, FinalizedOrder, IInv, TypeOK
    <3>2. Len(stack') <= Len(handlers')
      <4> HIDE DEF n
      <4>1. n \in Nat \ {0} /\ handlers' = handlers
        BY <2>1, <2>2
      <4> QED
        BY <2>7, <3>1, <4>1
    <3>3. ASSUME NEW i \in DOMAIN stack' PROVE stack'[i].h = handlers'[i]
      <4>1. i \in 1 .. n - 1
        <5> HIDE DEF n
        <5>1. n \in Nat \ {0}
          BY <2>2
        <5>2. i \in 1 .. Len(stack')
          BY <2>8
        <5> QED
          BY <2>7, <5>1, <5>2
      <4>2. i \in DOMAIN stack /\ stack'[i] = stack[i]
        BY <2>2, <2>6, <4>1
      <4> QED
        BY <2>1, <4>2 DEF OInv, FinalizedOrder
    <3> QED
      BY <3>2, <3>3
  <2> QED
    BY <2>9, <2>10 DEF OInv
<1> QED
  BY <1>1, <1>2 DEF Return, Panic, vectors, links, call, history

LEMMA NextOrder == IInv /\ OInv /\ [Next]_vars => OInv'
<1> SUFFICES ASSUME IInv, OInv, [Next]_vars PROVE OInv'
  OBVIOUS
<1>1. CASE stale' = TRUE
  BY <1>1 DEF OInv, Linked, FinalizedOrder
<1>2. ASSUME NEW h \in Handlers, AddBack(h) \/ AddFront(h)
      PROVE  stale' = TRUE
  BY <1>2 DEF AddBack, AddFront, Insert
<1>3. CASE RemoveBack \/ RemoveFront \/ RemoveNext
  BY <1>1, <1>3 DEF RemoveBack, RemoveFront, RemoveNext, Delete
<1>4. ASSUME NEW h \in Handlers, AddReserved(h)
      PROVE  UNCHANGED <<handlers, nextHandler, stack, stale>>
  BY <1>4 DEF AddReserved, Panic, vectors, links, call, history
<1>5. ASSUME NEW n \in Names, RemoveByName(n)
      PROVE  UNCHANGED <<handlers, nextHandler, stack, stale>>
  BY <1>5 DEF RemoveByName, vectors, links, call, history
<1>6. CASE EditDuringEvent \/ UpdateDuringEvent \/ PollLast \/ PollEnd \/ Write \/ UNCHANGED vars
  <2>1. UNCHANGED <<handlers, nextHandler, stack, stale>>
    BY <1>6 DEF EditDuringEvent, UpdateDuringEvent, PollLast, PollEnd, Write, Panic,
                vars, vectors, links, call, history
  <2> QED
    BY <2>1, QuietOrder
<1>7. CASE Update
  BY <1>7, UpdateOrder
<1>8. ASSUME NEW e \in Ops, Dispatch(e) \/ Fire(e) PROVE OInv'
  BY <1>8, DispatchOrder, FireOrder
<1>9. CASE Return
  BY <1>9, ReturnOrder
<1> QED
  BY <1>1, <1>2, <1>3, <1>4, <1>5, <1>6, <1>7, <1>8, <1>9, QuietOrder DEF Next

(* An event walks a finalized pipeline handler by handler, in order.       *)
THEOREM WalkedInOrder == Spec => []FinalizedOrder
<1>1. Init => OInv
  BY DEF Init, OInv, Linked, FinalizedOrder
<1>2. OInv => FinalizedOrder
  BY DEF OInv
<1> QED
  BY <1>1, <1>2, NextOrder, Invariant, PTL DEF Spec

-----------------------------------------------------------------------------
(* A finalized pipeline of agreeing types does not panic on a message: a   *)
(* step that would sees two handlers side by side whose types differ.      *)
LEMMA DispatchTyped ==
  ASSUME IInv, OInv, NEW e \in Ops, Dispatch(e), ~stale, WellTyped
  PROVE  fault' # "message downcast"
<1>1. contexts = handlers /\ Sig[handlers[1]].rin = Transport /\ fault = None
  BY DEF IInv, Aligned, WellTyped, Dispatch, UserCode
<1>2. ~(Sig[handlers[1]].rin # Transport /\ Panic("message downcast"))
  BY <1>1
<1>3. None # "message downcast"
  BY PipelineAssumption DEF Faults
<1> QED
  BY <1>1, <1>2, <1>3 DEF Dispatch, Enter, Panic

(* The running calls of a finalized pipeline stand side by side in it. *)
LEMMA StackTyped ==
  ASSUME IInv, OInv, ~stale, NEW i \in DOMAIN stack
  PROVE  /\ i \in 1 .. Len(handlers) /\ stack[i].h = handlers[i] /\ stack[i].c = handlers[i]
         /\ handlers[i] \in AllHandlers
<1>1. /\ stack \in Seq(Frame) /\ handlers \in Seq(AllHandlers)
      /\ Len(stack) <= Len(handlers)
      /\ stack[i].h = handlers[i] /\ stack[i].c = stack[i].h
  BY DEF IInv, TypeOK, Path, OInv, FinalizedOrder
<1>2. i \in 1 .. Len(handlers)
  BY <1>1
<1> QED
  BY <1>1, <1>2

LEMMA FireTyped ==
  ASSUME IInv, OInv, NEW e \in Ops, Fire(e), ~stale, WellTyped
  PROVE  fault' # "message downcast"
<1> DEFINE n == Len(stack)
           g == nextHandler[Top.c]
<1>1. fault = None /\ stack # <<>> /\ g # None
  BY DEF Fire
<1>2. n \in DOMAIN stack /\ Top = stack[n]
  BY <1>1 DEF IInv, TypeOK, Top
<1>3. n \in 1 .. Len(handlers) /\ Top.c = handlers[n]
  BY <1>2, StackTyped
<1>4. Len(handlers) \in Nat /\ DOMAIN handlers = 1 .. Len(handlers)
  BY DEF IInv, TypeOK
<1>5. g = IF n < Len(handlers) THEN handlers[n + 1] ELSE None
  BY <1>3, <1>4 DEF OInv, Linked
<1>6. n < Len(handlers) /\ g = handlers[n + 1]
  BY <1>1, <1>5
<1>7. n \in 1 .. Len(handlers) - 1
  BY <1>3, <1>4, <1>6
<1>8. Sig[g].rin = Sig[Top.c].rout
  BY <1>3, <1>6, <1>7 DEF WellTyped
<1>9. ~(Sig[g].rin # Sig[Top.c].rout /\ Panic("message downcast"))
  BY <1>8
<1>10. None # "message downcast"
  BY PipelineAssumption DEF Faults
<1>11. Enter(g, nextContext[Top.c], e, Sig[Top.c].rout, "next borrowed")
  BY DEF Fire
<1> HIDE DEF g
<1> QED
  BY <1>1, <1>9, <1>10, <1>11 DEF Enter, Panic

LEMMA ReturnTyped ==
  ASSUME IInv, OInv, Return, ~stale, WellTyped
  PROVE  fault' # "message downcast"
<1> DEFINE n == Len(stack)
<1>1. fault = None /\ stack # <<>> /\ stack \in Seq(Frame)
  BY DEF Return, IInv, TypeOK
<1>2. n \in DOMAIN stack /\ Top = stack[n] /\ DOMAIN stack = 1 .. n /\ n \in Nat \ {0}
  BY <1>1 DEF Top
<1>3. n \in 1 .. Len(handlers) /\ Top.h = handlers[n]
  BY <1>2, StackTyped
<1>4. Sig[Top.h].wout = Expected
  <2>1. CASE n = 1
    BY <1>3, <2>1 DEF Expected, WellTyped
  <2>2. CASE n # 1
    <3> DEFINE m == n - 1
    <3>1. m \in DOMAIN stack /\ m + 1 = n
      BY <1>2, <2>2
    <3>2. stack[m].c = handlers[m]
      BY <3>1, StackTyped
    <3>3. m \in 1 .. Len(handlers) - 1
      <4>1. Len(handlers) \in Nat /\ n \in 1 .. Len(handlers)
        BY <1>3 DEF IInv, TypeOK
      <4>2. n # 1 /\ m = n - 1
        BY <2>2
      <4> HIDE DEF n, m
      <4> QED
        BY <4>1, <4>2
    <3>4. Sig[handlers[m]].win = Sig[handlers[n]].wout
      BY <3>1, <3>3 DEF WellTyped
    <3>5. Expected = Sig[stack[m].c].win
      BY <2>2 DEF Expected
    <3> QED
      BY <1>3, <3>2, <3>4, <3>5
  <2> QED
    BY <2>1, <2>2
<1>5. ~Mistyped
  BY <1>4 DEF Mistyped
<1>6. None # "message downcast"
  BY PipelineAssumption DEF Faults
<1> QED
  BY <1>1, <1>5, <1>6 DEF Return

(* A fault stays: nothing is edited and nothing finalized after it, but    *)
(* for a removal, and none is in progress when a pipeline panics.          *)
LEMMA NextTyped == IInv /\ OInv /\ TypedPipelineRuns /\ [Next]_vars => TypedPipelineRuns'
<1> SUFFICES ASSUME IInv, OInv, TypedPipelineRuns, [Next]_vars, ~stale', WellTyped'
             PROVE  fault' # "message downcast"
  BY DEF TypedPipelineRuns
<1>0. None # "message downcast"
  BY PipelineAssumption DEF Faults
<1>1. CASE Update
  BY <1>0, <1>1 DEF Update, UserCode
<1>2. CASE stale' = stale /\ handlers' = handlers /\ fault' = fault
  BY <1>2 DEF TypedPipelineRuns, WellTyped
<1>3. ASSUME NEW h \in Handlers, AddBack(h) \/ AddFront(h) \/ AddReserved(h)
      PROVE  fault' # "message downcast"
  BY <1>3 DEF AddBack, AddFront, AddReserved, Insert, Panic
<1>4. CASE RemoveBack \/ RemoveFront \/ RemoveNext \/ EditDuringEvent \/ UpdateDuringEvent
  BY <1>4 DEF RemoveBack, RemoveFront, RemoveNext, Delete, EditDuringEvent, UpdateDuringEvent,
              Panic
<1>5. ASSUME NEW n \in Names, RemoveByName(n) PROVE fault' # "message downcast"
  BY <1>2, <1>5 DEF RemoveByName, vectors, history
<1>6. ASSUME NEW e \in Ops, Dispatch(e) \/ Fire(e) PROVE fault' # "message downcast"
  <2>1. handlers' = handlers /\ stale' = stale
    BY <1>6 DEF Dispatch, Fire, Enter, Panic, vectors, history
  <2>2. ~stale /\ WellTyped
    BY <2>1 DEF WellTyped
  <2> QED
    BY <1>6, <2>2, DispatchTyped, FireTyped
<1>7. CASE PollLast \/ PollEnd \/ Write
  BY <1>2, <1>7 DEF PollLast, PollEnd, Write, vectors, history
<1>8. CASE Return
  <2>1. handlers' = handlers /\ stale' = stale
    BY <1>8 DEF Return, Panic, vectors, history
  <2>2. ~stale /\ WellTyped
    BY <2>1 DEF WellTyped
  <2> QED
    BY <1>8, <2>2, ReturnTyped
<1>9. CASE UNCHANGED vars
  BY <1>2, <1>9 DEF vars, vectors, history
<1> QED
  BY <1>1, <1>3, <1>4, <1>5, <1>6, <1>7, <1>8, <1>9 DEF Next

(* A finalized pipeline whose handlers agree on their types never panics   *)
(* on the type of a message, read or polled.                               *)
THEOREM TypesAgree == Spec => []TypedPipelineRuns
<1>1. Init => OInv /\ TypedPipelineRuns
  BY DEF Init, OInv, Linked, FinalizedOrder, TypedPipelineRuns
<1> QED
  BY <1>1, NextOrder, NextTyped, Invariant, PTL DEF Spec

-----------------------------------------------------------------------------
(* In a finalized pipeline only the LastHandler answers None, and only     *)
(* when its queue is empty: every other context has a link.                *)
LEMMA NextDrained ==
  ASSUME IInv, OInv, [Next]_vars, ~stale, polled = Unset, polled' = None
  PROVE  transmits = <<>>
<1>0. polled' # polled /\ polled' # Unset
  BY PipelineAssumption DEF Unset
<1>1. CASE PollLast
  <2>1. CASE transmits # <<>>
    <3>1. transmits \in Seq(Nat) /\ polled' = Head(transmits)
      BY <1>1, <2>1 DEF PollLast, IInv, TypeOK
    <3>2. polled' \in Nat
      BY <2>1, <3>1
    <3> QED
      BY <3>2, PipelineAssumption
  <2> QED
    BY <2>1
<1>2. CASE PollEnd
  <2> DEFINE n == Len(stack)
  <2>1. /\ stack # <<>> /\ Top.h # LastHandler
        /\ nextHandler[Top.c] = None \/ nextContext[Top.c] = None
    BY <1>2 DEF PollEnd, UserCode
  <2>2. n \in DOMAIN stack /\ Top = stack[n]
    BY <2>1 DEF IInv, TypeOK, Top
  <2>3. n \in 1 .. Len(handlers) /\ Top.c = handlers[n] /\ Top.h = handlers[n]
        /\ handlers[n] \in AllHandlers
    BY <2>2, StackTyped
  <2>4. /\ Len(handlers) \in Nat /\ DOMAIN handlers = 1 .. Len(handlers)
        /\ handlers[Len(handlers)] = LastHandler
    BY DEF IInv, TypeOK, Aligned
  <2>5. n # Len(handlers)
    BY <2>1, <2>3, <2>4
  <2>6. n < Len(handlers) /\ n + 1 \in DOMAIN handlers
    <3>1. n \in 1 .. Len(handlers) /\ n # Len(handlers) /\ Len(handlers) \in Nat
      BY <2>3, <2>4, <2>5
    <3> HIDE DEF n
    <3>2. n < Len(handlers) /\ n + 1 \in 1 .. Len(handlers)
      BY <3>1
    <3> QED
      BY <2>4, <3>2
  <2>7. handlers[n + 1] \in AllHandlers
    BY <2>6 DEF IInv, TypeOK
  <2>8. nextHandler[Top.c] = handlers[n + 1]
    BY <2>3, <2>4, <2>6 DEF OInv, Linked
  <2>9. nextContext[Top.c] = nextHandler[Top.c]
    BY <2>3 DEF IInv, ForwardLinks
  <2>10. None \notin AllHandlers
    BY PipelineAssumption
  <2> QED
    BY <2>1, <2>7, <2>8, <2>9, <2>10
<1>3. CASE ~(PollLast \/ PollEnd)
  <2>1. polled' \in {polled, Unset}
    <3>1. ASSUME NEW h \in Handlers, AddBack(h) \/ AddFront(h) \/ AddReserved(h)
          PROVE  polled' = polled
      BY <3>1 DEF AddBack, AddFront, AddReserved, Panic, call
    <3>2. CASE RemoveBack \/ RemoveFront \/ RemoveNext \/ EditDuringEvent
      BY <3>2 DEF RemoveBack, RemoveFront, RemoveNext, EditDuringEvent, Panic, call
    <3>3. ASSUME NEW n \in Names, RemoveByName(n) PROVE polled' = polled
      BY <3>3 DEF RemoveByName, call
    <3>4. CASE Update \/ UpdateDuringEvent \/ Write \/ UNCHANGED vars
      BY <3>4 DEF Update, UpdateDuringEvent, Write, Panic, call, vars
    <3>5. ASSUME NEW e \in Ops, Dispatch(e) \/ Fire(e) PROVE polled' = polled
      BY <3>5 DEF Dispatch, Fire, Enter, Panic, call
    <3>6. CASE Return
      BY <3>6 DEF Return, Panic, call
    <3> QED
      BY <1>3, <3>1, <3>2, <3>3, <3>4, <3>5, <3>6 DEF Next
  <2> QED
    BY <1>0, <2>1
<1> QED
  BY <1>1, <1>2, <1>3

(* The None the I/O loops wait for says that nothing is queued.            *)
THEOREM NoneIsDrained == Spec => NoneMeansDrained
<1>1. Init => OInv
  BY DEF Init, OInv, Linked, FinalizedOrder
<1>2. IInv /\ OInv /\ [Next]_vars => (~stale /\ polled = Unset /\ polled' = None => transmits = <<>>)
  BY NextDrained
<1> QED
  BY <1>1, <1>2, NextOrder, Invariant, PTL DEF Spec, NoneMeansDrained

-----------------------------------------------------------------------------
(* While remove() runs, every handler of the name is still to be deleted.  *)
Marked == removing # None => \A i \in DOMAIN names : names[i] = removing => i \in doomed

(* Deleting the highest index shifts handlers of other names only.         *)
LEMMA RemoveNextMarks ==
  ASSUME IInv, Marked, RemoveNext
  PROVE  /\ \A j \in DOMAIN names' : names'[j] = removing => j \in doomed'
         /\ \A i \in DOMAIN names : names[i] # removing => handlers[i] \in ToSet(handlers')
         /\ removing' = None <=> doomed' = {}
         /\ removing' # None => removing' = removing
<1> DEFINE n == Len(names)
<1>1. /\ TypeOK /\ Aligned /\ Removing /\ removing # None
      /\ n \in Nat /\ DOMAIN names = 1 .. n /\ doomed \subseteq 1 .. n
      /\ names \in Seq(Names) /\ handlers \in Seq(AllHandlers) /\ Len(handlers) = n
  BY DEF IInv, TypeOK, Aligned, RemoveNext
<1>2. PICK k \in doomed : /\ \A j \in doomed : j <= k
                         /\ Delete(k)
                         /\ doomed' = doomed \ {k}
                         /\ removing' = IF doomed' = {} THEN None ELSE removing
  BY DEF RemoveNext
<1>3. k \in 1 .. n /\ names[k] = removing
  BY <1>1 DEF Removing
<1> HIDE DEF n
<1>4. /\ names' = RemoveAt(names, k) /\ Len(names') = n - 1 /\ DOMAIN names' = 1 .. n - 1
      /\ \A j \in 1 .. n - 1 : names'[j] = IF j < k THEN names[j] ELSE names[j + 1]
  <2>1. names' = RemoveAt(names, k)
    BY <1>2 DEF Delete
  <2>2. RemoveAt(names, k) \in Seq(Names) /\ Len(RemoveAt(names, k)) = n - 1
    BY <1>1, <1>3, RemoveAtProperties DEF n
  <2>3. \A j \in 1 .. n - 1 : RemoveAt(names, k)[j] = IF j < k THEN names[j] ELSE names[j + 1]
    BY <1>1, <1>3, RemoveAtProperties DEF n
  <2> QED
    BY <2>1, <2>2, <2>3
<1>5. /\ DOMAIN handlers' = 1 .. n - 1
      /\ \A j \in 1 .. n - 1 : handlers'[j] = IF j < k THEN handlers[j] ELSE handlers[j + 1]
  <2>1. handlers' = RemoveAt(handlers, k)
    BY <1>2 DEF Delete
  <2>2. k \in 1 .. Len(handlers)
    BY <1>1, <1>3
  <2>3. RemoveAt(handlers, k) \in Seq(AllHandlers) /\ Len(RemoveAt(handlers, k)) = Len(handlers) - 1
    BY <1>1, <2>2, RemoveAtProperties
  <2>4. \A j \in 1 .. Len(handlers) - 1 :
          RemoveAt(handlers, k)[j] = IF j < k THEN handlers[j] ELSE handlers[j + 1]
    BY <1>1, <2>2, RemoveAtProperties
  <2> QED
    BY <1>1, <2>1, <2>3, <2>4
<1>6. ASSUME NEW j \in DOMAIN names', names'[j] = removing PROVE j \in doomed'
  <2>1. j \in 1 .. n - 1
    BY <1>4
  <2>2. CASE j < k
    BY <1>1, <1>2, <1>4, <1>6, <2>1, <2>2 DEF Marked
  <2>3. CASE ~(j < k)
    <3>1. j + 1 \in 1 .. n /\ names[j + 1] = removing
      BY <1>1, <1>4, <1>6, <2>1, <2>3
    <3>2. j + 1 <= k
      BY <1>1, <1>2, <3>1 DEF Marked
    <3> QED
      BY <1>1, <1>3, <2>1, <2>3, <3>2
  <2> QED
    BY <2>2, <2>3
<1>7. ASSUME NEW i \in DOMAIN names, names[i] # removing
      PROVE  handlers[i] \in ToSet(handlers')
  <2>1. i \in 1 .. n /\ i # k
    BY <1>1, <1>3, <1>7
  <2>2. CASE i < k
    <3>1. i \in 1 .. n - 1 /\ handlers'[i] = handlers[i]
      BY <1>1, <1>3, <1>5, <2>1, <2>2
    <3> QED
      BY <1>5, <3>1 DEF ToSet
  <2>3. CASE ~(i < k)
    <3>1. i - 1 \in 1 .. n - 1 /\ ~(i - 1 < k) /\ i - 1 + 1 = i
      BY <1>1, <1>3, <2>1, <2>3
    <3>2. handlers'[i - 1] = handlers[i]
      BY <1>5, <3>1
    <3> QED
      BY <1>5, <3>1, <3>2 DEF ToSet
  <2> QED
    BY <2>2, <2>3
<1> QED
  BY <1>1, <1>2, <1>6, <1>7

(* remove() holds the pipeline until it is done: nothing else runs.        *)
LEMMA RemovingAlone ==
  ASSUME IInv, [Next]_vars, removing # None
  PROVE  RemoveNext \/ UNCHANGED vars
<1>1. stack = <<>>
  BY DEF IInv, Removing
<1>2. ASSUME NEW h \in Handlers PROVE ~(AddBack(h) \/ AddFront(h) \/ AddReserved(h))
  BY DEF AddBack, AddFront, AddReserved, UserCode
<1>3. ~(RemoveBack \/ RemoveFront \/ EditDuringEvent \/ Update \/ UpdateDuringEvent)
  BY DEF RemoveBack, RemoveFront, EditDuringEvent, Update, UpdateDuringEvent, UserCode
<1>4. ASSUME NEW n \in Names PROVE ~RemoveByName(n)
  BY DEF RemoveByName, UserCode
<1>5. ASSUME NEW e \in Ops PROVE ~(Dispatch(e) \/ Fire(e))
  BY DEF Dispatch, Fire, UserCode
<1>6. ~(PollLast \/ PollEnd \/ Return \/ Write)
  BY <1>1 DEF PollLast, PollEnd, Return, Write, UserCode
<1> QED
  BY <1>2, <1>3, <1>4, <1>5, <1>6 DEF Next

(* Only remove() itself starts a removal. *)
LEMMA RemovingStarts ==
  ASSUME [Next]_vars, removing = None, removing' # None
  PROVE  \E n \in Names : RemoveByName(n)
<1>1. ASSUME NEW h \in Handlers, AddBack(h) \/ AddFront(h) \/ AddReserved(h)
      PROVE  removing' = removing
  BY <1>1 DEF AddBack, AddFront, AddReserved, Panic, loop
<1>2. CASE RemoveBack \/ RemoveFront \/ RemoveNext \/ EditDuringEvent
  BY <1>2 DEF RemoveBack, RemoveFront, RemoveNext, EditDuringEvent, Panic, loop
<1>3. CASE Update \/ UpdateDuringEvent \/ Write \/ UNCHANGED vars
  BY <1>3 DEF Update, UpdateDuringEvent, Write, Panic, loop, vars
<1>4. ASSUME NEW e \in Ops, Dispatch(e) \/ Fire(e) PROVE removing' = removing
  BY <1>4 DEF Dispatch, Fire, Enter, Panic, loop
<1>5. CASE PollLast \/ PollEnd \/ Return
  BY <1>5 DEF PollLast, PollEnd, Return, Panic, loop
<1> QED
  BY <1>1, <1>2, <1>3, <1>4, <1>5 DEF Next

LEMMA NextMarked == IInv /\ Marked /\ [Next]_vars => Marked'
<1> SUFFICES ASSUME IInv, Marked, [Next]_vars, removing' # None
             PROVE  \A i \in DOMAIN names' : names'[i] = removing' => i \in doomed'
  BY DEF Marked
<1>1. CASE removing # None
  <2>1. CASE RemoveNext
    BY <2>1, RemoveNextMarks
  <2>2. CASE UNCHANGED vars
    BY <1>1, <2>2 DEF Marked, vars, vectors, loop
  <2> QED
    BY <1>1, <2>1, <2>2, RemovingAlone
<1>2. CASE removing = None
  <2>1. PICK n \in Names : RemoveByName(n)
    BY <1>2, RemovingStarts
  <2>2. /\ doomed' = {i \in DOMAIN names : names[i] = n} /\ removing' = n /\ names' = names
    BY <2>1 DEF RemoveByName, vectors
  <2> QED
    BY <2>2
<1> QED
  BY <1>1, <1>2

(* remove(name) deletes every handler of that name and no other one.       *)
THEOREM RemovesExactly == Spec => RemoveExact
<1>1. Init => Marked
  BY DEF Init, Marked
<1>2. ASSUME IInv, Marked, [Next]_vars, removing # None
      PROVE  /\ removing' = None => removing \notin ToSet(names')
             /\ \A i \in DOMAIN names :
                  names[i] # removing => handlers[i] \in ToSet(handlers')
  <2>1. CASE RemoveNext
    <3>1. removing' = None => removing \notin ToSet(names')
      BY <1>2, <2>1, RemoveNextMarks DEF ToSet
    <3> QED
      BY <1>2, <2>1, <3>1, RemoveNextMarks
  <2>2. CASE UNCHANGED vars
    <3>1. removing' = removing /\ handlers' = handlers
      BY <2>2 DEF vars, vectors, loop
    <3>2. DOMAIN names = DOMAIN handlers
      BY <1>2 DEF IInv, TypeOK, Aligned
    <3> QED
      BY <1>2, <3>1, <3>2 DEF ToSet
  <2> QED
    BY <1>2, <2>1, <2>2, RemovingAlone
<1> QED
  BY <1>1, <1>2, NextMarked, Invariant, PTL DEF Spec, RemoveExact
=============================================================================
