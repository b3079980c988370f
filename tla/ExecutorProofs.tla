--------------------------- MODULE ExecutorProofs ---------------------------
(***************************************************************************)
(* The queues of the executor and the nest of its polls, for any number of *)
(* tasks and any depth of yield_local: no task is polled inside of itself, *)
(* and the runnable ones are queued exactly once.                          *)
(*                                                                         *)
(* Then the echo test, for any number of lines: it is a program of the     *)
(* executor (EchoIsScheduled), so all of that holds of it, and no line of  *)
(* the round trip is lost or out of order.                                 *)
(***************************************************************************)
EXTENDS EchoExchange, SequenceTheorems, TLAPS

Inj(s) == \A i, j \in 1 .. Len(s) : s[i] = s[j] => i = j
Has(s, x) == \E i \in 1 .. Len(s) : s[i] = x

(* The tasks being polled are those in the nest, each once. *)
Nest ==
  /\ Inj(stack)
  /\ \A t \in Tasks : status[t] \in Polled <=> Has(stack, t)

(* The runnable tasks are those in the two queues, each once in one of them. *)
Queues ==
  /\ Inj(queue) /\ Inj(local)
  /\ \A t \in Tasks : ~(Has(queue, t) /\ Has(local, t))
  /\ \A t \in Tasks : Has(queue, t) \/ Has(local, t) <=> t # Main /\ status[t] = "runnable"

IInv == TypeOK /\ Nest /\ Queues /\ status[Main] # "unborn"

-----------------------------------------------------------------------------
(* Sequences without repetition. *)

LEMMA AppendInj ==
  ASSUME NEW S, NEW s \in Seq(S), NEW x \in S, Inj(s), ~Has(s, x)
  PROVE  /\ Append(s, x) \in Seq(S) /\ Inj(Append(s, x))
         /\ \A y : Has(Append(s, x), y) <=> y = x \/ Has(s, y)
<1> DEFINE a == Append(s, x)
<1>1. /\ a \in Seq(S) /\ Len(a) = Len(s) + 1 /\ Len(s) \in Nat
      /\ \A i \in 1 .. Len(s) : a[i] = s[i]
      /\ a[Len(s) + 1] = x
  OBVIOUS
<1>2. \A i \in 1 .. Len(a) : i \in 1 .. Len(s) \/ i = Len(s) + 1
  BY <1>1
<1>3. 1 .. Len(s) \subseteq 1 .. Len(a) /\ Len(s) + 1 \in 1 .. Len(a)
  BY <1>1
<1> HIDE DEF a
<1>4. Inj(a)
  BY <1>1, <1>2 DEF Inj, Has
<1>5. \A y : Has(a, y) <=> y = x \/ Has(s, y)
  BY <1>1, <1>2, <1>3 DEF Has
<1> QED
  BY <1>1, <1>4, <1>5 DEF a

LEMMA FrontInj ==
  ASSUME NEW S, NEW s \in Seq(S), s # <<>>, Inj(s)
  PROVE  /\ Front(s) \in Seq(S) /\ Inj(Front(s)) /\ Last(s) \in S
         /\ \A y : Has(Front(s), y) <=> y # Last(s) /\ Has(s, y)
<1> DEFINE f == Front(s)
<1>1. /\ f \in Seq(S) /\ Len(f) = Len(s) - 1 /\ Len(s) \in Nat \ {0}
      /\ \A i \in 1 .. Len(s) - 1 : f[i] = s[i]
      /\ Last(s) = s[Len(s)] /\ Last(s) \in S
  <2> DEFINE m == Len(s) - 1
  <2>1. Len(s) \in Nat \ {0} /\ m \in Nat /\ m <= Len(s) /\ Len(s) \in 1 .. Len(s)
    OBVIOUS
  <2>2. f = SubSeq(s, 1, m)
    BY DEF Front
  <2> HIDE DEF f, m
  <2>3. f \in Seq(S) /\ Len(f) = m /\ \A i \in 1 .. m : f[i] = s[i]
    BY <2>1, <2>2
  <2>4. m = Len(s) - 1
    BY DEF m
  <2> QED
    BY <2>1, <2>3, <2>4 DEF Last
<1>2. \A i \in 1 .. Len(s) : i \in 1 .. Len(s) - 1 \/ i = Len(s)
  BY <1>1
<1>3. 1 .. Len(s) - 1 \subseteq 1 .. Len(s) /\ Len(s) \in 1 .. Len(s) /\ Len(s) \notin 1 .. Len(s) - 1
  BY <1>1
<1> HIDE DEF f
<1>4. Inj(f)
  BY <1>1, <1>3 DEF Inj
<1>5. \A y : Has(f, y) <=> y # Last(s) /\ Has(s, y)
  BY <1>1, <1>2, <1>3 DEF Has, Inj
<1> QED
  BY <1>1, <1>4, <1>5 DEF f

(* Two sequences one after the other, by index. *)
LEMMA ConcatAt ==
  ASSUME NEW S, NEW q \in Seq(S), NEW l \in Seq(S)
  PROVE  /\ q \o l \in Seq(S) /\ Len(q \o l) = Len(q) + Len(l) /\ Len(q) \in Nat /\ Len(l) \in Nat
         /\ \A i \in 1 .. Len(q) : (q \o l)[i] = q[i]
         /\ \A i \in 1 .. Len(l) : (q \o l)[Len(q) + i] = l[i]
         /\ \A i \in 1 .. Len(q \o l) : i \in 1 .. Len(q) \/ \E j \in 1 .. Len(l) : i = Len(q) + j
<1>1. /\ q \o l \in Seq(S) /\ Len(q \o l) = Len(q) + Len(l) /\ Len(q) \in Nat /\ Len(l) \in Nat
      /\ \A i \in 1 .. Len(q) : (q \o l)[i] = q[i]
      /\ \A i \in 1 .. Len(l) : (q \o l)[Len(q) + i] = l[i]
  OBVIOUS
<1>2. ASSUME NEW i \in 1 .. Len(q) + Len(l), i \notin 1 .. Len(q)
      PROVE  i - Len(q) \in 1 .. Len(l) /\ i = Len(q) + (i - Len(q))
  BY <1>1, <1>2
<1> QED
  BY <1>1, <1>2

(* What the two queues hold together, by what each holds. *)
LEMMA ConcatInj ==
  ASSUME NEW S, NEW q \in Seq(S), NEW l \in Seq(S)
  PROVE  /\ q \o l \in Seq(S)
         /\ \A y : Has(q \o l, y) <=> Has(q, y) \/ Has(l, y)
         /\ Inj(q \o l) <=> Inj(q) /\ Inj(l) /\ \A y : ~(Has(q, y) /\ Has(l, y))
<1> DEFINE c == q \o l
<1>1. /\ c \in Seq(S) /\ Len(c) = Len(q) + Len(l) /\ Len(q) \in Nat /\ Len(l) \in Nat
      /\ \A i \in 1 .. Len(q) : c[i] = q[i]
      /\ \A i \in 1 .. Len(l) : c[Len(q) + i] = l[i]
      /\ \A i \in 1 .. Len(c) : i \in 1 .. Len(q) \/ \E j \in 1 .. Len(l) : i = Len(q) + j
  BY ConcatAt
<1> HIDE DEF c
<1>2. /\ \A i \in 1 .. Len(q) : i \in 1 .. Len(c)
      /\ \A j \in 1 .. Len(l) : Len(q) + j \in 1 .. Len(c) /\ Len(q) + j \notin 1 .. Len(q)
      /\ \A j, k \in 1 .. Len(l) : Len(q) + j = Len(q) + k => j = k
  BY <1>1
<1>3. \A y : Has(c, y) <=> Has(q, y) \/ Has(l, y)
  <2> TAKE y
  <2>1. ASSUME Has(c, y) PROVE Has(q, y) \/ Has(l, y)
    <3>1. PICK i \in 1 .. Len(c) : c[i] = y
      BY <2>1 DEF Has
    <3>2. CASE i \in 1 .. Len(q)
      BY <1>1, <3>1, <3>2 DEF Has
    <3>3. CASE i \notin 1 .. Len(q)
      <4>1. PICK j \in 1 .. Len(l) : i = Len(q) + j
        BY <1>1, <3>3
      <4>2. l[j] = y
        BY <1>1, <3>1, <4>1
      <4> QED
        BY <4>2 DEF Has
    <3> QED
      BY <3>2, <3>3
  <2>2. ASSUME Has(q, y) PROVE Has(c, y)
    BY <1>1, <1>2, <2>2 DEF Has
  <2>3. ASSUME Has(l, y) PROVE Has(c, y)
    <3>1. PICK j \in 1 .. Len(l) : l[j] = y
      BY <2>3 DEF Has
    <3>2. c[Len(q) + j] = y /\ Len(q) + j \in 1 .. Len(c)
      BY <1>1, <1>2, <3>1
    <3> QED
      BY <3>2 DEF Has
  <2> QED
    BY <2>1, <2>2, <2>3
<1>4. ASSUME Inj(c)
      PROVE  Inj(q) /\ Inj(l) /\ \A y : ~(Has(q, y) /\ Has(l, y))
  <2>1. Inj(q)
    BY <1>1, <1>2, <1>4 DEF Inj
  <2>2. Inj(l)
    BY <1>1, <1>2, <1>4 DEF Inj
  <2>3. \A y : ~(Has(q, y) /\ Has(l, y))
    BY <1>1, <1>2, <1>4 DEF Inj, Has
  <2> QED
    BY <2>1, <2>2, <2>3
<1>5. ASSUME Inj(q), Inj(l), \A y : ~(Has(q, y) /\ Has(l, y))
      PROVE  Inj(c)
  <2> SUFFICES ASSUME NEW i \in 1 .. Len(c), NEW j \in 1 .. Len(c), c[i] = c[j] PROVE i = j
    BY DEF Inj
  <2>1. CASE i \in 1 .. Len(q) /\ j \in 1 .. Len(q)
    BY <1>1, <1>5, <2>1 DEF Inj
  <2>2. CASE i \in 1 .. Len(q) /\ j \notin 1 .. Len(q)
    <3>1. PICK n \in 1 .. Len(l) : j = Len(q) + n
      BY <1>1, <2>2
    <3>2. q[i] = l[n]
      BY <1>1, <2>2, <3>1
    <3> QED
      BY <1>5, <2>2, <3>2 DEF Has
  <2>3. CASE i \notin 1 .. Len(q) /\ j \in 1 .. Len(q)
    <3>1. PICK n \in 1 .. Len(l) : i = Len(q) + n
      BY <1>1, <2>3
    <3>2. q[j] = l[n]
      BY <1>1, <2>3, <3>1
    <3> QED
      BY <1>5, <2>3, <3>2 DEF Has
  <2>4. CASE i \notin 1 .. Len(q) /\ j \notin 1 .. Len(q)
    BY <1>1, <1>5, <2>4 DEF Inj
  <2> QED
    BY <2>1, <2>2, <2>3, <2>4
<1> QED
  BY <1>1, <1>3, <1>4, <1>5 DEF c

(* A sequence cut in three: its head, the next up to k, the rest. *)
LEMMA CutInj ==
  ASSUME NEW S, NEW s \in Seq(S), Inj(s), NEW k \in 1 .. Len(s)
  PROVE  LET a == SubSeq(s, 2, k)  b == SubSeq(s, k + 1, Len(s))
         IN  /\ a \in Seq(S) /\ b \in Seq(S) /\ Inj(a) /\ Inj(b) /\ Head(s) \in S
             /\ \A y : ~(Has(a, y) /\ Has(b, y))
             /\ \A y : Has(a, y) \/ Has(b, y) <=> y # Head(s) /\ Has(s, y)
<1> DEFINE a == SubSeq(s, 2, k)
           b == SubSeq(s, k + 1, Len(s))
<1>1. /\ a \in Seq(S) /\ Len(a) = k - 1 /\ \A i \in 1 .. k - 1 : a[i] = s[i + 1]
      /\ Len(s) \in Nat /\ k \in Nat /\ 1 <= k /\ k <= Len(s)
  OBVIOUS
<1>2. b \in Seq(S) /\ Len(b) = Len(s) - k /\ \A i \in 1 .. Len(s) - k : b[i] = s[k + i]
  OBVIOUS
<1>3. Head(s) = s[1] /\ Head(s) \in S
  BY <1>1
<1> HIDE DEF a, b
<1>4. /\ \A i \in 1 .. k - 1 : i + 1 \in 2 .. k
      /\ \A i \in 1 .. Len(s) - k : k + i \in k + 1 .. Len(s)
      /\ 2 .. k \subseteq 1 .. Len(s) /\ k + 1 .. Len(s) \subseteq 1 .. Len(s)
      /\ \A i \in 2 .. k, j \in k + 1 .. Len(s) : i # j
      /\ \A i \in 1 .. Len(s) : i = 1 \/ i \in 2 .. k \/ i \in k + 1 .. Len(s)
      /\ 1 \in 1 .. Len(s) /\ 1 \notin 2 .. k /\ 1 \notin k + 1 .. Len(s)
  BY <1>1
<1>5. /\ \A y : Has(a, y) <=> \E i \in 2 .. k : s[i] = y
      /\ \A y : Has(b, y) <=> \E i \in k + 1 .. Len(s) : s[i] = y
  <2>1. /\ \A i \in 2 .. k : i - 1 \in 1 .. k - 1 /\ (i - 1) + 1 = i
        /\ \A i \in k + 1 .. Len(s) : i - k \in 1 .. Len(s) - k /\ k + (i - k) = i
    BY <1>1
  <2>2. /\ \A i \in 2 .. k : a[i - 1] = s[i]
        /\ \A i \in k + 1 .. Len(s) : b[i - k] = s[i]
    BY <1>1, <1>2, <2>1
  <2>3. \A y : Has(a, y) <=> \E i \in 2 .. k : s[i] = y
    <3> TAKE y
    <3>1. ASSUME Has(a, y) PROVE \E i \in 2 .. k : s[i] = y
      BY <1>1, <1>4, <3>1 DEF Has
    <3>2. ASSUME NEW i \in 2 .. k, s[i] = y PROVE Has(a, y)
      <4>1. a[i - 1] = y /\ i - 1 \in 1 .. Len(a)
        BY <1>1, <2>1, <2>2, <3>2
      <4> QED
        BY <4>1 DEF Has
    <3> QED
      BY <3>1, <3>2
  <2>4. \A y : Has(b, y) <=> \E i \in k + 1 .. Len(s) : s[i] = y
    <3> TAKE y
    <3>1. ASSUME Has(b, y) PROVE \E i \in k + 1 .. Len(s) : s[i] = y
      BY <1>2, <1>4, <3>1 DEF Has
    <3>2. ASSUME NEW i \in k + 1 .. Len(s), s[i] = y PROVE Has(b, y)
      <4>1. b[i - k] = y /\ i - k \in 1 .. Len(b)
        BY <1>2, <2>1, <2>2, <3>2
      <4> QED
        BY <4>1 DEF Has
    <3> QED
      BY <3>1, <3>2
  <2> QED
    BY <2>3, <2>4
<1>6. Inj(a)
  BY <1>1, <1>4 DEF Inj
<1>7. Inj(b)
  BY <1>1, <1>2, <1>4 DEF Inj
<1>8. \A y : ~(Has(a, y) /\ Has(b, y))
  BY <1>4, <1>5 DEF Inj
<1>9. \A y : Has(a, y) \/ Has(b, y) <=> y # Head(s) /\ Has(s, y)
  <2> TAKE y
  <2>1. ASSUME Has(a, y) \/ Has(b, y) PROVE y # Head(s) /\ Has(s, y)
    <3>1. PICK i \in (2 .. k) \cup (k + 1 .. Len(s)) : s[i] = y
      BY <1>5, <2>1
    <3>2. i \in 1 .. Len(s) /\ i # 1 /\ 1 \in 1 .. Len(s)
      BY <1>4
    <3> QED
      BY <1>3, <3>1, <3>2 DEF Inj, Has
  <2>2. ASSUME y # Head(s), Has(s, y) PROVE Has(a, y) \/ Has(b, y)
    <3>1. PICK i \in 1 .. Len(s) : s[i] = y
      BY <2>2 DEF Has
    <3>2. i \in 2 .. k \/ i \in k + 1 .. Len(s)
      BY <1>3, <1>4, <2>2, <3>1
    <3> QED
      BY <1>5, <3>1, <3>2
  <2> QED
    BY <2>1, <2>2
<1> QED
  BY <1>1, <1>2, <1>3, <1>6, <1>7, <1>8, <1>9 DEF a, b
-----------------------------------------------------------------------------
(* A poll begins: the task is not in the nest yet. *)
LEMMA PollNest ==
  ASSUME TypeOK, Nest, NEW t \in Tasks, status[t] \notin Polled, Poll(t)
  PROVE  /\ Nest' /\ stack' \in Seq(Tasks)
         /\ status' = [status EXCEPT ![t] = "running"]
<1>1. ~Has(stack, t)
  BY DEF Nest
<1>2. /\ stack' = Append(stack, t) /\ stack \in Seq(Tasks)
      /\ status' = [status EXCEPT ![t] = "running"]
  BY DEF Poll, TypeOK
<1>3. /\ stack' \in Seq(Tasks) /\ Inj(stack')
      /\ \A y : Has(stack', y) <=> y = t \/ Has(stack, y)
  BY <1>1, <1>2, AppendInj DEF Nest
<1>4. \A u \in Tasks : status'[u] \in Polled <=> u = t \/ status[u] \in Polled
  BY <1>2 DEF TypeOK, Polled
<1> QED
  BY <1>2, <1>3, <1>4 DEF Nest

(* A poll ends: its task leaves the nest, and no other does. *)
LEMMA BelowNest ==
  ASSUME TypeOK, Nest, NEW t \in Tasks, Running(t), NEW b \in {"runnable", "waiting", "done"},
         Below(t, b)
  PROVE  /\ Nest' /\ stack' \in Seq(Tasks)
         /\ status' \in [Tasks -> {"unborn", "runnable", "waiting", "done", "dropped"} \cup Polled]
         /\ status'[t] = b
         /\ \A u \in Tasks \ {t} : status'[u] = status[u] \/ {status'[u], status[u]} \subseteq Polled
<1>1. /\ stack \in Seq(Tasks) /\ stack # <<>> /\ Last(stack) = t /\ stack' = Front(stack)
      /\ b \notin Polled
  BY DEF TypeOK, Running, Top, Below, Polled
<1>2. /\ stack' \in Seq(Tasks) /\ Inj(stack')
      /\ \A y : Has(stack', y) <=> y # t /\ Has(stack, y)
  BY <1>1, FrontInj DEF Nest
<1>3. /\ status'[t] = b
      /\ \A u \in Tasks \ {t} : \/ status'[u] = status[u]
                                \/ status[u] = "trying" /\ status'[u] = "running"
      /\ DOMAIN status' = Tasks /\ status' = [u \in Tasks |-> status'[u]]
  BY DEF Below
<1>4. \A u \in Tasks \ {t} : status'[u] = status[u] \/ {status'[u], status[u]} \subseteq Polled
  BY <1>3 DEF Polled
<1>5. status' \in [Tasks -> {"unborn", "runnable", "waiting", "done", "dropped"} \cup Polled]
  BY <1>3 DEF TypeOK, Polled
<1>6. \A u \in Tasks : status'[u] \in Polled <=> u # t /\ status[u] \in Polled
  BY <1>1, <1>3, <1>4
<1> QED
  BY <1>2, <1>3, <1>4, <1>5, <1>6 DEF Nest

(* A task that was not runnable is queued. *)
LEMMA QueueAppend ==
  ASSUME TypeOK, Queues, NEW t \in Tasks \ {Main}, status[t] # "runnable",
         queue' = Append(queue, t), local' = local,
         \A u \in Tasks \ {t} : status'[u] = "runnable" <=> status[u] = "runnable",
         status'[t] = "runnable"
  PROVE  Queues' /\ queue' \in Seq(Tasks \ {Main})
<1>1. ~Has(queue, t) /\ ~Has(local, t)
  BY DEF Queues
<1>2. /\ queue' \in Seq(Tasks \ {Main}) /\ Inj(queue')
      /\ \A y : Has(queue', y) <=> y = t \/ Has(queue, y)
  BY <1>1, AppendInj DEF TypeOK, Queues
<1> QED
  BY <1>1, <1>2 DEF Queues

LEMMA QueueKept ==
  ASSUME Queues, UNCHANGED <<queue, local>>,
         \A u \in Tasks : u # Main => (status'[u] = "runnable" <=> status[u] = "runnable")
  PROVE  Queues'
BY DEF Queues

(* The runner takes a task: it is runnable, and queued no more. *)
LEMMA TakeQueue ==
  ASSUME TypeOK, Queues, NEW k \in 1 .. Len(queue), local = <<>> \/ k = 1,
         Poll(Head(queue)), queue' = SubSeq(queue, k + 1, Len(queue)),
         local' = IF local = <<>> THEN SubSeq(queue, 2, k) ELSE local
  PROVE  /\ Head(queue) \in Tasks /\ status[Head(queue)] = "runnable"
         /\ Queues' /\ queue' \in Seq(Tasks \ {Main}) /\ local' \in Seq(Tasks \ {Main})
<1> DEFINE h == Head(queue)
           a == SubSeq(queue, 2, k)
<1>1. queue \in Seq(Tasks \ {Main}) /\ local \in Seq(Tasks \ {Main}) /\ Inj(queue)
  BY DEF TypeOK, Queues
<1>2. /\ a \in Seq(Tasks \ {Main}) /\ queue' \in Seq(Tasks \ {Main})
      /\ Inj(a) /\ Inj(queue') /\ h \in Tasks \ {Main}
      /\ \A y : ~(Has(a, y) /\ Has(queue', y))
      /\ \A y : Has(a, y) \/ Has(queue', y) <=> y # h /\ Has(queue, y)
  BY <1>1, CutInj
<1>3. Has(queue, h)
  BY <1>1 DEF Has
<1>4. status[h] = "runnable" /\ ~Has(local, h)
  BY <1>2, <1>3 DEF Queues
<1>5. \A u \in Tasks : status'[u] = "runnable" <=> u # h /\ status[u] = "runnable"
  BY <1>2 DEF Poll, TypeOK
<1> HIDE DEF h, a
<1>6. CASE local = <<>>
  <2>1. local' = a /\ \A y : ~Has(local, y)
    BY <1>6 DEF Has, a
  <2> QED
    BY <1>2, <1>4, <1>5, <2>1 DEF Queues, h
<1>7. CASE local # <<>>
  <2>1. local' = local /\ \A y : ~Has(a, y)
    <3>1. k = 1 /\ a = SubSeq(queue, 2, 1)
      BY <1>7 DEF a
    <3>2. Len(a) = 0
      BY <1>1, <3>1
    <3> QED
      BY <1>7, <3>2 DEF Has
  <2> QED
    BY <1>1, <1>2, <1>4, <1>5, <2>1 DEF Queues, h
<1> QED
  BY <1>6, <1>7

LEMMA TakeLocal ==
  ASSUME TypeOK, Queues, local # <<>>, Poll(Head(local)), local' = Tail(local), queue' = queue
  PROVE  /\ Head(local) \in Tasks /\ status[Head(local)] = "runnable"
         /\ Queues' /\ local' \in Seq(Tasks \ {Main})
<1> DEFINE h == Head(local)
<1>1. local \in Seq(Tasks \ {Main}) /\ Inj(local)
  BY DEF TypeOK, Queues
<1>2. /\ local' \in Seq(Tasks \ {Main}) /\ Inj(local') /\ h \in Tasks \ {Main}
      /\ \A y : Has(local', y) <=> y # h /\ Has(local, y)
  <2>1. 1 \in 1 .. Len(local) /\ h = local[1] /\ h \in Tasks \ {Main}
    BY <1>1
  <2>2. /\ local' \in Seq(Tasks \ {Main}) /\ Len(local') = Len(local) - 1 /\ Len(local) \in Nat
        /\ \A i \in 1 .. Len(local) - 1 : local'[i] = local[i + 1]
    BY <1>1
  <2> HIDE DEF h
  <2>3. Inj(local')
    BY <1>1, <2>2 DEF Inj
  <2>4. \A y : Has(local', y) <=> \E i \in 2 .. Len(local) : local[i] = y
    <3> TAKE y
    <3>1. ASSUME Has(local', y) PROVE \E i \in 2 .. Len(local) : local[i] = y
      <4>1. PICK i \in 1 .. Len(local) - 1 : local'[i] = y
        BY <2>2, <3>1 DEF Has
      <4>2. i + 1 \in 2 .. Len(local) /\ local[i + 1] = y
        BY <2>2, <4>1
      <4> QED
        BY <4>2
    <3>2. ASSUME NEW i \in 2 .. Len(local), local[i] = y PROVE Has(local', y)
      <4>1. i - 1 \in 1 .. Len(local') /\ (i - 1) + 1 = i
        BY <2>2
      <4>2. local'[i - 1] = y
        BY <2>2, <3>2, <4>1
      <4> QED
        BY <4>1, <4>2 DEF Has
    <3> QED
      BY <3>1, <3>2
  <2>5. /\ \A i \in 1 .. Len(local) : i = 1 \/ i \in 2 .. Len(local)
        /\ 2 .. Len(local) \subseteq 1 .. Len(local) /\ 1 \notin 2 .. Len(local)
    BY <2>2
  <2>6. \A y : Has(local', y) <=> y # h /\ Has(local, y)
    <3> TAKE y
    <3>1. ASSUME NEW i \in 2 .. Len(local), local[i] = y PROVE y # h /\ Has(local, y)
      <4>1. i \in 1 .. Len(local) /\ i # 1
        BY <2>5
      <4> QED
        BY <1>1, <2>1, <3>1, <4>1 DEF Inj, Has
    <3>2. ASSUME NEW i \in 1 .. Len(local), local[i] = y, y # h
          PROVE  \E j \in 2 .. Len(local) : local[j] = y
      BY <2>1, <2>5, <3>2
    <3> QED
      BY <2>4, <3>1, <3>2 DEF Has
  <2> QED
    BY <2>1, <2>2, <2>3, <2>6 DEF h
<1>5. Has(local, h)
  BY <1>1 DEF Has
<1>6. status[h] = "runnable" /\ ~Has(queue, h)
  BY <1>2, <1>5 DEF Queues
<1>7. \A u \in Tasks : status'[u] = "runnable" <=> u # h /\ status[u] = "runnable"
  BY <1>2 DEF Poll, TypeOK
<1> HIDE DEF h
<1> QED
  BY <1>1, <1>2, <1>6, <1>7 DEF Queues, h

-----------------------------------------------------------------------------
LEMMA InitIInv == Init => IInv
<1> SUFFICES ASSUME Init PROVE IInv
  OBVIOUS
<1> USE ExecutorAssumption
<1>1. queue = <<>> /\ local = <<>> /\ stack = <<>> /\ yields = 0 /\ wakes = 0 /\ woken = {}
  BY DEF Init
<1>2. /\ queue \in Seq(Tasks \ {Main}) /\ local \in Seq(Tasks \ {Main}) /\ stack \in Seq(Tasks)
      /\ Len(queue) = 0 /\ Len(local) = 0 /\ Len(stack) = 0
  BY <1>1
<1>3. /\ status \in [Tasks -> {"unborn", "runnable", "waiting", "done", "dropped"} \cup Polled]
      /\ \A t \in Tasks : status[t] \notin Polled /\ (status[t] = "runnable" => t = Main)
  BY DEF Init, Polled
<1>4. TypeOK
  BY <1>1, <1>2, <1>3 DEF TypeOK
<1>5. Nest /\ Queues
  BY <1>2, <1>3 DEF Nest, Queues, Inj, Has
<1> QED
  BY <1>4, <1>5 DEF IInv, Init

(* The inductive step, one case for each way to move between the queues    *)
(* and the nest.                                                           *)
LEMMA NextIInv == IInv /\ [Next]_vars => IInv'
<1> SUFFICES ASSUME TypeOK, Nest, Queues, status[Main] # "unborn", [Next]_vars
             PROVE  TypeOK' /\ Nest' /\ Queues' /\ status'[Main] # "unborn"
  BY DEF IInv
<1> DEFINE Kept == TypeOK' /\ Nest' /\ Queues' /\ status'[Main] # "unborn"
<1> USE ExecutorAssumption
<1>1. CASE PollMain
  <2>1. Poll(Main) /\ status[Main] \notin Polled /\ UNCHANGED <<queue, local>>
    <3>1. stack' = Append(stack, Main)
      BY <1>1 DEF PollMain, TypeOK
    <3> QED
      BY <1>1, <3>1 DEF PollMain, Poll, Polled
  <2>2. /\ Nest' /\ stack' \in Seq(Tasks)
        /\ status' = [status EXCEPT ![Main] = "running"]
    BY <2>1, PollNest
  <2>3. Queues'
    BY <2>1, <2>2, QueueKept DEF TypeOK
  <2>4. TypeOK'
    BY <1>1, <2>2 DEF PollMain, TypeOK, Polled, history
  <2> QED
    BY <2>2, <2>3, <2>4 DEF TypeOK
<1>2. CASE RunnerTicks \/ NestedTick
  <2>1. PICK h \in Tasks : /\ status[h] = "runnable" /\ Poll(h) /\ Queues'
                           /\ queue' \in Seq(Tasks \ {Main}) /\ local' \in Seq(Tasks \ {Main})
    <3>1. CASE RunnerTicks /\ local # <<>>
      BY <3>1, TakeLocal DEF RunnerTicks, TypeOK
    <3>2. CASE RunnerTicks /\ local = <<>>
      <4>1. PICK k \in 1 .. Len(queue) :
              /\ Poll(Head(queue))
              /\ local' = SubSeq(queue, 2, k) /\ queue' = SubSeq(queue, k + 1, Len(queue))
        BY <3>2 DEF RunnerTicks
      <4> QED
        BY <3>2, <4>1, TakeQueue
    <3>3. CASE NestedTick
      <4>1. /\ Poll(Head(queue)) /\ queue' = Tail(queue) /\ local' = local
            /\ queue # <<>> /\ queue \in Seq(Tasks \ {Main})
        BY <3>3 DEF NestedTick, TypeOK
      <4>2. 1 \in 1 .. Len(queue) /\ queue' = SubSeq(queue, 1 + 1, Len(queue))
        BY <4>1
      <4>3. local = <<>> => SubSeq(queue, 2, 1) = local
        BY <4>1
      <4> QED
        BY <4>1, <4>2, <4>3, TakeQueue
    <3> QED
      BY <1>2, <3>1, <3>2, <3>3
  <2>2. /\ Nest' /\ stack' \in Seq(Tasks)
        /\ status' = [status EXCEPT ![h] = "running"]
    BY <2>1, PollNest DEF Polled
  <2>3. UNCHANGED <<woken, history>>
    BY <2>1 DEF Poll
  <2>4. TypeOK'
    BY <2>1, <2>2, <2>3 DEF TypeOK, Polled, history
  <2> QED
    BY <2>1, <2>2, <2>4 DEF TypeOK
<1>3. ASSUME NEW t \in Tasks, Yield(t, "yielding") \/ Yield(t, "trying") \/ YieldReturns(t)
      PROVE  Kept
  <2>1. /\ status[t] \in Polled /\ UNCHANGED <<local, queue, stack, woken, wakes>>
        /\ \E m \in Polled : status' = [status EXCEPT ![t] = m]
        /\ yields' \in 0 .. MaxYields
    BY <1>3 DEF Yield, YieldReturns, Running, Polled, history, TypeOK
  <2>2. /\ \A u \in Tasks : status'[u] \in Polled <=> status[u] \in Polled
        /\ \A u \in Tasks : status'[u] = "runnable" <=> status[u] = "runnable"
    BY <2>1 DEF TypeOK, Polled
  <2>3. Nest' /\ Queues'
    BY <2>1, <2>2, QueueKept DEF Nest
  <2>4. TypeOK'
    BY <2>1 DEF TypeOK, Polled
  <2> QED
    BY <2>1, <2>3, <2>4 DEF TypeOK, Polled
<1>4. ASSUME NEW t \in Tasks, NEW u \in Tasks, Spawn(t, u)
      PROVE  Kept
  <2>1. /\ status[u] = "unborn" /\ status' = [status EXCEPT ![u] = "runnable"]
        /\ queue' = Append(queue, u) /\ UNCHANGED <<local, stack, woken, history>>
    BY <1>4 DEF Spawn
  <2>2. /\ \A v \in Tasks : status'[v] \in Polled <=> status[v] \in Polled
        /\ \A v \in Tasks \ {u} : status'[v] = status[v]
        /\ status'[u] = "runnable" /\ u # Main
    BY <2>1 DEF TypeOK, Polled
  <2>3. Nest'
    BY <2>1, <2>2 DEF Nest
  <2>4. Queues' /\ queue' \in Seq(Tasks \ {Main})
    BY <2>1, <2>2, QueueAppend
  <2>5. TypeOK'
    BY <2>1, <2>4 DEF TypeOK, history
  <2> QED
    BY <2>2, <2>3, <2>4, <2>5
<1>5. ASSUME NEW t \in Tasks, Suspend(t) \/ Complete(t)
      PROVE  Kept
  <2>1. PICK b \in {"runnable", "waiting", "done"} : Below(t, b)
    BY <1>5 DEF Suspend, Complete
  <2>2. /\ Running(t) /\ status[t] = "running" /\ UNCHANGED <<local, history>>
        /\ woken' = woken \ {t}
    BY <1>5 DEF Suspend, Complete, Running
  <2>3. /\ Nest' /\ stack' \in Seq(Tasks)
        /\ status' \in [Tasks -> {"unborn", "runnable", "waiting", "done", "dropped"} \cup Polled]
        /\ status'[t] = b
        /\ \A u \in Tasks \ {t} : status'[u] = status[u] \/ {status'[u], status[u]} \subseteq Polled
    BY <2>1, <2>2, BelowNest
  <2>4. /\ \A u \in Tasks \ {t} : status'[u] = "runnable" <=> status[u] = "runnable"
        /\ \A u \in Tasks \ {t} : status'[u] = "unborn" <=> status[u] = "unborn"
    BY <2>3 DEF Polled
  <2>5. status[t] # "runnable" /\ local' = local /\ status'[Main] # "unborn"
    BY <2>2, <2>3, <2>4
  <2>6. Queues' /\ queue' \in Seq(Tasks \ {Main})
    <3>1. CASE status'[t] = "runnable" /\ t # Main
      <4>1. queue' = Append(queue, t)
        <5>1. CASE Complete(t)
          BY <2>2, <3>1, <5>1 DEF Complete, Below
        <5>2. CASE Suspend(t)
          BY <2>2, <3>1, <5>2 DEF Suspend, Below
        <5> QED
          BY <1>5, <5>1, <5>2
      <4> QED
        BY <2>4, <2>5, <3>1, <4>1, QueueAppend
    <3>2. CASE status'[t] # "runnable" \/ t = Main
      <4>1. queue' = queue
        <5>1. CASE Complete(t)
          BY <5>1 DEF Complete
        <5>2. CASE Suspend(t)
          BY <3>2, <5>2 DEF Suspend, Below
        <5> QED
          BY <1>5, <5>1, <5>2
      <4>2. Queues'
        <5>1. \A u \in Tasks : u # Main => (status'[u] = "runnable" <=> status[u] = "runnable")
          BY <2>4, <2>5, <3>2
        <5> QED
          BY <2>5, <4>1, <5>1, QueueKept
      <4> QED
        BY <4>1, <4>2 DEF TypeOK
    <3> QED
      BY <3>1, <3>2
  <2>7. TypeOK'
    BY <2>2, <2>3, <2>6 DEF TypeOK, history
  <2> QED
    BY <2>3, <2>6, <2>7, <2>5
<1>6. ASSUME NEW t \in Tasks, Wake(t)
      PROVE  Kept
  <2>1. CASE status[t] = "waiting"
    <3>1. /\ status' = [status EXCEPT ![t] = "runnable"]
          /\ queue' = IF t # Main THEN Append(queue, t) ELSE queue
          /\ UNCHANGED <<woken, wakes, local, stack, yields>>
      BY <1>6, <2>1 DEF Wake, Polled
    <3>2. /\ \A v \in Tasks : status'[v] \in Polled <=> status[v] \in Polled
          /\ \A v \in Tasks \ {t} : status'[v] = status[v]
          /\ status'[t] = "runnable" /\ status'[Main] # "unborn"
      BY <2>1, <3>1 DEF TypeOK, Polled
    <3>3. Nest'
      BY <3>1, <3>2 DEF Nest
    <3>4. Queues' /\ queue' \in Seq(Tasks \ {Main})
      <4>1. CASE t # Main
        BY <2>1, <3>1, <3>2, <4>1, QueueAppend
      <4>2. CASE t = Main
        BY <3>1, <3>2, <4>2, QueueKept DEF TypeOK
      <4> QED
        BY <4>1, <4>2
    <3>5. TypeOK'
      BY <3>1, <3>4 DEF TypeOK
    <3> QED
      BY <3>2, <3>3, <3>4, <3>5
  <2>2. CASE status[t] # "waiting"
    <3>1. /\ woken' = woken \cup {t} /\ wakes' = wakes + 1 /\ wakes < MaxWakes
          /\ UNCHANGED <<status, queue, local, stack, yields>>
      BY <1>6, <2>2 DEF Wake
    <3>2. TypeOK'
      BY <3>1 DEF TypeOK
    <3> QED
      BY <3>1, <3>2 DEF Nest, Queues
  <2> QED
    BY <2>1, <2>2
<1>7. CASE Return
  <2>1. /\ stack = <<>> /\ queue' = <<>> /\ local' = <<>> /\ UNCHANGED <<stack, woken, history>>
        /\ status' = [t \in Tasks |-> IF status[t] \in {"runnable", "waiting"} THEN "dropped" ELSE status[t]]
    BY <1>7 DEF Return
  <2>2. /\ queue' \in Seq(Tasks \ {Main}) /\ local' \in Seq(Tasks \ {Main})
        /\ Len(queue') = 0 /\ Len(local') = 0
    BY <2>1
  <2>3. /\ \A t \in Tasks : status'[t] \in Polled <=> status[t] \in Polled
        /\ \A t \in Tasks : status'[t] # "runnable"
        /\ status' \in [Tasks -> {"unborn", "runnable", "waiting", "done", "dropped"} \cup Polled]
        /\ status'[Main] # "unborn"
    BY <2>1 DEF TypeOK, Polled
  <2>4. Nest' /\ Queues'
    BY <2>1, <2>2, <2>3 DEF Nest, Queues, Inj, Has
  <2>5. TypeOK'
    BY <2>1, <2>2, <2>3 DEF TypeOK, history
  <2> QED
    BY <2>3, <2>4, <2>5
<1>8. CASE UNCHANGED vars
  BY <1>8 DEF vars, history, TypeOK, Nest, Queues
<1> QED
  BY <1>1, <1>2, <1>3, <1>4, <1>5, <1>6, <1>7, <1>8 DEF Next, PollEnds

(* The strengthened invariant. *)
THEOREM Invariant == Spec => []IInv
BY InitIInv, NextIInv, PTL DEF Spec

(* No task is polled inside of itself, whatever tasks call yield_local and *)
(* however deep, and the runnable ones are queued once (executor/mod.rs:98). *)
THEOREM NeverReentered == Spec => []NoReentry
<1>1. ASSUME IInv PROVE NoReentry
  <2>1. /\ TypeOK /\ stack \in Seq(Tasks)
        /\ queue \in Seq(Tasks \ {Main}) /\ local \in Seq(Tasks \ {Main})
    BY <1>1 DEF IInv, TypeOK
  <2>2. \A y : (Has(queue, y) \/ Has(local, y)) => y \in Tasks \ {Main}
    BY <2>1 DEF Has
  <2> DEFINE c == queue \o local
  <2>3. /\ c \in Seq(Tasks \ {Main}) /\ Inj(c)
        /\ \A y : Has(c, y) <=> Has(queue, y) \/ Has(local, y)
    BY <1>1, <2>1, <2>2, ConcatInj DEF IInv, Queues
  <2> HIDE DEF c
  <2>4. IsInjective(stack) /\ IsInjective(c)
    <3>1. DOMAIN stack = 1 .. Len(stack) /\ DOMAIN c = 1 .. Len(c)
      BY <2>1, <2>3
    <3>2. Inj(stack) /\ Inj(c)
      BY <1>1, <2>3 DEF IInv, Nest
    <3> QED
      BY <3>1, <3>2 DEF Inj, IsInjective
  <2>5. /\ \A t : t \in ToSet(stack) <=> Has(stack, t)
        /\ \A t : t \in ToSet(c) <=> Has(c, t)
    BY <2>1, <2>3 DEF ToSet, Has
  <2>6. \A t \in Tasks : status[t] \in Polled <=> t \in ToSet(stack)
    BY <1>1, <2>5 DEF IInv, Nest
  <2>7. ToSet(c) = {t \in Tasks \ {Main} : status[t] = "runnable"}
    BY <1>1, <2>2, <2>3, <2>5 DEF IInv, Queues
  <2> QED
    BY <2>1, <2>4, <2>6, <2>7 DEF NoReentry, c
<1> QED
  BY Invariant, <1>1, PTL

-----------------------------------------------------------------------------
(* Elements that move from one sequence to the next one. *)
LEMMA HeadMoves ==
  ASSUME NEW S, NEW s \in Seq(S), NEW t \in Seq(S), t # <<>>
  PROVE  /\ Head(t) \in S /\ Tail(t) \in Seq(S) /\ Len(Tail(t)) = Len(t) - 1
         /\ Append(s, Head(t)) \in Seq(S) /\ Append(s, Head(t)) \o Tail(t) = s \o t
  OBVIOUS

(* What is appended to the second of two sequences is the last of both. *)
LEMMA AppendConcat ==
  ASSUME NEW S, NEW s \in Seq(S), NEW t \in Seq(S), NEW x \in S
  PROVE  s \o Append(t, x) = Append(s \o t, x)
  OBVIOUS

(* The numbers up to n, one after the other. *)
LEMMA OneMore ==
  ASSUME NEW n \in Nat
  PROVE  Append([i \in 1 .. n |-> i], n + 1) = [i \in 1 .. n + 1 |-> i]
<1> DEFINE s == [i \in 1 .. n |-> i]
<1>1. s \in Seq(Nat) /\ Len(s) = n /\ \A i \in 1 .. n : s[i] = i
  OBVIOUS
<1> HIDE DEF s
<1>2. Append(s, n + 1) = [i \in 1 .. n + 1 |-> i]
  BY <1>1
<1> QED
  BY <1>2 DEF s

(* The program is scheduled by the executor. *)
LEMMA TestSchedules ==
  ASSUME EchoProgram, [EchoNext]_echovars
  PROVE  [Next]_vars
<1> USE DEF Next, PollEnds
<1>1. "main" \in Tasks /\ "app" \in Tasks /\ "listener" \in Tasks
      /\ "child" \in Tasks /\ "client" \in Tasks /\ Ends \subseteq Tasks
  BY DEF EchoProgram, Ends
<1>2. CASE (PollMain \/ RunnerTicks \/ NestedTick \/ YieldReturns("app") \/ Return)
  BY <1>1, <1>2
<1>3. CASE Write \/ \E t \in Tasks : WakesUp(t)
  BY <1>1, <1>3 DEF Write, WakesUp
<1>4. CASE Bind \/ SpawnApp \/ SpawnClient \/ Accept
  BY <1>1, <1>4 DEF Bind, SpawnApp, SpawnClient, Accept
<1>5. CASE Connect \/ Drained \/ (\E e \in Ends : Leave(e))
           \/ (\E t \in Tasks : Waits(t) \/ Stopped(t))
  BY <1>1, <1>5 DEF Connect, Drained, Leave, Waits, Stopped, Await, Finish
<1>6. CASE \/ MainGoesOn \/ Received \/ Listen \/ ListenerCloses
           \/ (\E e \in Ends : Start(e) \/ ReadBranch(e) \/ TimerBranch(e) \/ Day(e))
           \/ UNCHANGED echovars
  BY <1>6 DEF MainGoesOn, Received, Listen, ListenerCloses, Start, ReadBranch, TimerBranch, Day, echovars
<1> QED
  BY <1>2, <1>3, <1>4, <1>5, <1>6 DEF EchoNext, Thread

(* What a step does to the life of a task: nothing, or *)
Live == {"runnable", "waiting", "running", "yielding", "trying"}
LivesOn(u) == status'[u] = status[u] \/ (status[u] \in Live /\ status'[u] \in Live)

(* The executor moves a task between these states only, until it ends. *)
LEMMA Lives ==
  ASSUME EchoProgram, IInv
  PROVE  /\ \A u \in Tasks : status[u] \in Live \cup {"unborn", "done", "dropped"}
         /\ PollMain \/ RunnerTicks \/ NestedTick \/ YieldReturns("app")
              => \A u \in Tasks : LivesOn(u)
         /\ \A t \in Tasks : status[t] = "waiting" /\ Wake(t) => \A u \in Tasks : LivesOn(u)
         /\ \A t \in Tasks : Yield(t, "yielding") \/ Suspend(t)
              => \A u \in Tasks : LivesOn(u)
         /\ \A t, u \in Tasks : Spawn(t, u)
              => status[t] = "running" /\ status[u] = "unborn" /\ status'[u] \in Live
                 /\ \A v \in Tasks : v # u => LivesOn(v)
         /\ \A t \in Tasks : Complete(t)
              => status[t] \in Live /\ status'[t] = "done" /\ \A v \in Tasks : v # t => LivesOn(v)
         /\ Return => \A u \in Tasks : status'[u] = IF status[u] \in {"runnable", "waiting"} THEN "dropped" ELSE status[u]
<1>1. /\ status \in [Tasks -> {"unborn", "runnable", "waiting", "done", "dropped", "running", "yielding", "trying"}]
      /\ queue \in Seq(Tasks \ {"main"}) /\ local \in Seq(Tasks \ {"main"}) /\ "main" \in Tasks
  BY DEF IInv, TypeOK, Polled, EchoProgram
<1>2. /\ queue # <<>> => Head(queue) \in Tasks /\ status[Head(queue)] = "runnable"
      /\ local # <<>> => Head(local) \in Tasks /\ status[Head(local)] = "runnable"
  <2>1. \A t \in Tasks : Has(queue, t) \/ Has(local, t) => status[t] = "runnable"
    BY DEF IInv, Queues
  <2>2. ASSUME queue # <<>> PROVE Head(queue) \in Tasks /\ Has(queue, Head(queue))
    <3>1. 1 \in 1 .. Len(queue) /\ queue[1] = Head(queue) /\ queue[1] \in Tasks
      BY <1>1, <2>2
    <3> QED
      BY <3>1 DEF Has
  <2>3. ASSUME local # <<>> PROVE Head(local) \in Tasks /\ Has(local, Head(local))
    <3>1. 1 \in 1 .. Len(local) /\ local[1] = Head(local) /\ local[1] \in Tasks
      BY <1>1, <2>3
    <3> QED
      BY <3>1 DEF Has
  <2> QED
    BY <2>1, <2>2, <2>3
<1>3. \A u \in Tasks : status[u] \in Live \cup {"unborn", "done", "dropped"}
  BY <1>1 DEF Live
<1>4. ASSUME NEW t \in Tasks, status[t] \in Live, Poll(t) PROVE \A u \in Tasks : LivesOn(u)
  BY <1>1, <1>4 DEF Poll, LivesOn, Live
<1>5. ASSUME PollMain \/ RunnerTicks \/ NestedTick \/ YieldReturns("app")
      PROVE  \A u \in Tasks : LivesOn(u)
  <2>1. CASE PollMain
    BY <1>1, <2>1 DEF PollMain, LivesOn, Live
  <2>2. CASE RunnerTicks
    <3>1. \/ local # <<>> /\ Poll(Head(local))
          \/ queue # <<>> /\ Poll(Head(queue))
      <4>1. (\E k \in 1 .. Len(queue) : Poll(Head(queue))) => queue # <<>>
        OBVIOUS
      <4> QED
        BY <2>2, <4>1 DEF RunnerTicks
    <3> QED
      BY <1>2, <1>4, <3>1 DEF Live
  <2>3. CASE NestedTick
    BY <1>2, <1>4, <2>3 DEF NestedTick, Live
  <2>4. CASE YieldReturns("app")
    BY <1>1, <2>4 DEF YieldReturns, LivesOn, Live
  <2> QED
    BY <1>5, <2>1, <2>2, <2>3, <2>4
<1>6. ASSUME NEW t \in Tasks, NEW b, Running(t), Below(t, b)
      PROVE  /\ status[t] = "running" /\ status'[t] = b
             /\ \A u \in Tasks : u # t => LivesOn(u)
  BY <1>1, <1>6 DEF Running, Below, LivesOn, Live
<1>7. ASSUME NEW t \in Tasks, status[t] = "waiting" /\ Wake(t) PROVE \A u \in Tasks : LivesOn(u)
  BY <1>1, <1>7 DEF Wake, LivesOn, Live, Polled
<1>8. ASSUME NEW t \in Tasks, Yield(t, "yielding") \/ Suspend(t)
      PROVE  \A u \in Tasks : LivesOn(u)
  <2>1. CASE Yield(t, "yielding")
    BY <1>1, <2>1 DEF Yield, Running, LivesOn, Live
  <2>2. CASE Suspend(t)
    BY <1>6, <2>2 DEF Suspend, LivesOn, Live
  <2> QED
    BY <1>8, <2>1, <2>2
<1>9. ASSUME NEW t \in Tasks, NEW u \in Tasks, Spawn(t, u)
      PROVE  status[t] = "running" /\ status[u] = "unborn" /\ status'[u] \in Live
             /\ \A v \in Tasks : v # u => LivesOn(v)
  BY <1>1, <1>9 DEF Spawn, Running, LivesOn, Live
<1>10. ASSUME NEW t \in Tasks, Complete(t)
       PROVE  status[t] \in Live /\ status'[t] = "done" /\ \A v \in Tasks : v # t => LivesOn(v)
  BY <1>6, <1>10 DEF Complete, Live
<1>11. Return => \A u \in Tasks : status'[u] = IF status[u] \in {"runnable", "waiting"} THEN "dropped" ELSE status[u]
  BY DEF Return
<1> QED
  BY <1>3, <1>5, <1>7, <1>8, <1>9, <1>10, <1>11

-----------------------------------------------------------------------------
(* The lines on their way are those that were written, in this order: from *)
(* the client's handler back to the socket of the server; and the handlers *)
(* have counted what went by them.                                         *)
Returned == heard \o inbox["client"] \o transmits["child"]
Wire == Returned \o inbox["child"] \o transmits["client"]
Flow ==
  /\ transmits \in [Ends -> Seq(1 .. Bye)] /\ inbox \in [Ends -> Seq(1 .. Bye)]
  /\ heard \in Seq(1 .. Bye) /\ done \subseteq Ends /\ yields \in 0 .. Bye
  /\ Wire = [i \in 1 .. yields |-> i]
  /\ count = [e \in Ends |-> IF e = "client" THEN Len(heard) ELSE Len(Returned)]
  /\ \A e \in done : count[e] = Bye

(* Concatenations of several sequences. *)
LEMMA Regrouped ==
  ASSUME NEW S
  PROVE  /\ \A a, b, c \in Seq(S) : a \o (b \o c) = (a \o b) \o c
         /\ \A a, b \in Seq(S) : a \o b \in Seq(S)
         /\ \A a \in Seq(S) : a \o <<>> = a
<1>1. ASSUME NEW a \in Seq(S), NEW b \in Seq(S), NEW c \in Seq(S)
      PROVE  a \o (b \o c) = (a \o b) \o c
  <2>1. (a \o b) \o c = a \o (b \o c)
    BY ConcatAssociative
  <2> QED
    BY <2>1
<1> QED
  BY <1>1

LEMMA MovedOn ==
  ASSUME NEW S, NEW a \in Seq(S), NEW b \in Seq(S), NEW c \in Seq(S)
  PROVE  (a \o ((b \o c) \o <<>>)) \o <<>> = (a \o b) \o c
<1>1. b \o c \in Seq(S) /\ a \o (b \o c) \in Seq(S) /\ a \o (b \o c) = (a \o b) \o c
  BY Regrouped
<1>2. (b \o c) \o <<>> = b \o c /\ (a \o (b \o c)) \o <<>> = a \o (b \o c)
  BY <1>1
<1> QED
  BY <1>1, <1>2

(* What a flush of the queue moves to the other end. *)
LEMMA Flushed ==
  ASSUME Flow, NEW e \in Ends, NEW unread \in Seq(1 .. Bye), NEW echoed \in Seq(1 .. Bye),
         Flush(e, unread, echoed)
  PROVE  /\ transmits' \in [Ends -> Seq(1 .. Bye)] /\ inbox' \in [Ends -> Seq(1 .. Bye)]
         /\ transmits'[e] = <<>> /\ transmits'[Other(e)] = transmits[Other(e)]
         /\ inbox'[e] = unread
         /\ inbox'[Other(e)] = (inbox[Other(e)] \o transmits[e]) \o echoed
<1>1. Other(e) \in Ends /\ Other(e) # e
  BY DEF Other, Ends
<1>2. (inbox[Other(e)] \o transmits[e]) \o echoed \in Seq(1 .. Bye) /\ <<>> \in Seq(1 .. Bye)
  BY <1>1 DEF Flow
<1>3. transmits \in [Ends -> Seq(1 .. Bye)] /\ inbox \in [Ends -> Seq(1 .. Bye)]
  BY DEF Flow
<1>4. inbox' = [inbox EXCEPT ![e] = unread, ![Other(e)] = @ \o transmits[e] \o echoed]
      /\ transmits' = [transmits EXCEPT ![e] = <<>>]
  BY DEF Flush
<1>5. /\ inbox'[e] = unread /\ inbox'[Other(e)] = (inbox[Other(e)] \o transmits[e]) \o echoed
      /\ DOMAIN inbox' = Ends /\ inbox' = [d \in Ends |-> inbox'[d]]
      /\ \A d \in Ends : d = e \/ d = Other(e)
  BY <1>1, <1>3, <1>4 DEF Other, Ends
<1>6. inbox' \in [Ends -> Seq(1 .. Bye)]
  BY <1>2, <1>5
<1> QED
  BY <1>1, <1>2, <1>3, <1>4, <1>5, <1>6

(* A line is written: it is the last on its way. *)
LEMMA FlowWrites ==
  ASSUME EchoProgram, Flow, yields < Bye, Write
  PROVE  Flow'
<1> DEFINE S == 1 .. Bye  a == Returned \o inbox["child"]
<1>1. /\ yields' = yields + 1 /\ yields + 1 \in S /\ yields \in Nat /\ yields' \in 0 .. Bye
      /\ transmits' = [transmits EXCEPT !["client"] = Append(@, yields + 1)]
      /\ UNCHANGED <<inbox, count, done, heard>>
      /\ "client" \in Ends /\ "child" \in Ends
  BY DEF Flow, Write, Yield, EchoProgram, Bye, Ends
<1>2. /\ transmits["client"] \in Seq(S) /\ transmits["child"] \in Seq(S) /\ heard \in Seq(S)
      /\ inbox["client"] \in Seq(S) /\ inbox["child"] \in Seq(S)
      /\ transmits \in [Ends -> Seq(S)]
  BY <1>1 DEF Flow
<1> HIDE DEF S
<1>3. /\ transmits'["client"] = Append(transmits["client"], yields + 1) /\ transmits'["child"] = transmits["child"]
      /\ transmits' \in [Ends -> Seq(S)]
  BY <1>1, <1>2
<1>4. Returned' = Returned /\ a \in Seq(S)
  BY <1>1, <1>2, <1>3 DEF Returned
<1>5. Wire' = a \o Append(transmits["client"], yields + 1) /\ Wire = a \o transmits["client"]
  BY <1>1, <1>3, <1>4 DEF Wire
<1> HIDE DEF a
<1>6. Wire' = Append(Wire, yields + 1)
  BY <1>1, <1>2, <1>4, <1>5, AppendConcat
<1>7. Wire' = [i \in 1 .. yields' |-> i]
  BY <1>1, <1>6, OneMore DEF Flow
<1> QED
  BY <1>1, <1>3, <1>4, <1>7 DEF Flow, S

(* A connection task writes what is queued. *)
LEMMA FlowFlushes ==
  ASSUME Flow, NEW e \in Ends, Flush(e, inbox[e], <<>>), UNCHANGED <<count, done, heard, yields>>
  PROVE  Flow'
<1> DEFINE S == 1 .. Bye
<1>1. /\ transmits["client"] \in Seq(S) /\ transmits["child"] \in Seq(S) /\ heard \in Seq(S)
      /\ inbox["client"] \in Seq(S) /\ inbox["child"] \in Seq(S) /\ inbox[e] \in Seq(S) /\ <<>> \in Seq(S)
      /\ "client" \in Ends /\ "child" \in Ends /\ e \in {"client", "child"}
  BY DEF Flow, Ends
<1>2. /\ transmits' \in [Ends -> Seq(S)] /\ inbox' \in [Ends -> Seq(S)]
      /\ transmits'[e] = <<>> /\ transmits'[Other(e)] = transmits[Other(e)]
      /\ inbox'[e] = inbox[e]
      /\ inbox'[Other(e)] = (inbox[Other(e)] \o transmits[e]) \o <<>>
  BY <1>1, Flushed
<1> HIDE DEF S
<1>3. Returned \in Seq(S)
  BY <1>1 DEF Returned
<1>4. Wire' = Wire /\ Returned' = Returned
  <2>1. CASE e = "client"
    <3>1. /\ Other(e) = "child" /\ transmits'["client"] = <<>> /\ transmits'["child"] = transmits["child"]
          /\ inbox'["client"] = inbox["client"]
          /\ inbox'["child"] = (inbox["child"] \o transmits["client"]) \o <<>>
      BY <1>2, <2>1 DEF Other
    <3>2. Returned' = Returned
      BY <3>1 DEF Returned
    <3>3. Wire' = (Returned \o ((inbox["child"] \o transmits["client"]) \o <<>>)) \o <<>>
      BY <3>1, <3>2 DEF Wire
    <3>4. Wire = (Returned \o inbox["child"]) \o transmits["client"]
      BY DEF Wire
    <3>5. Wire' = Wire
      <4>1. \A a, b, c \in Seq(S) : (a \o ((b \o c) \o <<>>)) \o <<>> = (a \o b) \o c
        BY MovedOn
      <4>2. (Returned \o ((inbox["child"] \o transmits["client"]) \o <<>>)) \o <<>>
             = (Returned \o inbox["child"]) \o transmits["client"]
        BY <1>1, <1>3, <4>1, Zenon
      <4> QED
        BY <3>3, <3>4, <4>2
    <3> QED
      BY <3>2, <3>5
  <2>2. CASE e = "child"
    <3>1. /\ Other(e) = "client" /\ transmits'["child"] = <<>> /\ transmits'["client"] = transmits["client"]
          /\ inbox'["child"] = inbox["child"]
          /\ inbox'["client"] = (inbox["client"] \o transmits["child"]) \o <<>>
      BY <1>2, <2>2 DEF Other
    <3>2. Returned' = (heard \o ((inbox["client"] \o transmits["child"]) \o <<>>)) \o <<>>
      BY <3>1 DEF Returned
    <3>3. Returned' = Returned
      <4>1. \A a, b, c \in Seq(S) : (a \o ((b \o c) \o <<>>)) \o <<>> = (a \o b) \o c
        BY MovedOn
      <4>2. (heard \o ((inbox["client"] \o transmits["child"]) \o <<>>)) \o <<>>
             = (heard \o inbox["client"]) \o transmits["child"]
        <5> DEFINE p == heard  q == inbox["client"]  r == transmits["child"]
        <5>1. p \in Seq(S) /\ q \in Seq(S) /\ r \in Seq(S)
          BY <1>1
        <5> HIDE DEF p, q, r
        <5>2. (p \o ((q \o r) \o <<>>)) \o <<>> = (p \o q) \o r
          BY <4>1, <5>1
        <5> QED
          BY <5>2 DEF p, q, r
      <4>3. Returned = (heard \o inbox["client"]) \o transmits["child"]
        BY DEF Returned
      <4> QED
        BY <3>2, <4>2, <4>3
    <3> QED
      BY <3>1, <3>3 DEF Wire
  <2> QED
    BY <1>1, <2>1, <2>2
<1> QED
  BY <1>2, <1>4 DEF Flow, S

(* What is known of the last line: who has it has all. *)
LEMMA ByeIsLast ==
  ASSUME NEW n \in Nat, NEW y \in 0 .. n, NEW a \in Seq(1 .. n), NEW b \in Seq(1 .. n), NEW c \in Seq(1 .. n),
         (a \o b) \o c = [i \in 1 .. y |-> i], n \in ToSet(b)
  PROVE  Len(a \o b) = n
<1>1. PICK j \in 1 .. Len(b) : b[j] = n
  BY DEF ToSet
<1> DEFINE u == a \o b  w == u \o c  m == Len(a)
<1>2. /\ m \in Nat /\ Len(b) \in Nat /\ Len(c) \in Nat /\ Len(u) = m + Len(b) /\ Len(w) = Len(u) + Len(c)
      /\ u \in Seq(1 .. n) /\ u[m + j] = n /\ w[m + j] = u[m + j]
  <2>1. m \in Nat /\ Len(b) \in Nat /\ Len(c) \in Nat /\ u \in Seq(1 .. n) /\ Len(u) = m + Len(b)
        /\ \A i \in 1 .. Len(b) : u[m + i] = b[i]
    OBVIOUS
  <2> HIDE DEF u, m
  <2>2. Len(w) = Len(u) + Len(c) /\ \A i \in 1 .. Len(u) : w[i] = u[i]
    <3>1. c \in Seq(1 .. n) /\ u \in Seq(1 .. n)
      BY <2>1
    <3> QED
      BY <3>1
  <2>3. m + j \in 1 .. Len(u)
    BY <2>1
  <2> QED
    BY <1>1, <2>1, <2>2, <2>3
<1> HIDE DEF u, w, m
<1>3. w = [i \in 1 .. y |-> i] /\ Len(w) = y
  BY DEF u, w
<1>4. m + j \in 1 .. y /\ j <= Len(b)
  BY <1>1, <1>2, <1>3
<1>5. m + j = n
  BY <1>2, <1>3, <1>4
<1>6. Len(u) = n
  <2>1. y \in Nat /\ y <= n /\ j \in Nat /\ j <= Len(b)
    BY <1>2, <1>4
  <2>2. m + Len(b) + Len(c) = y
    BY <1>2, <1>3
  <2>3. \A p, q, r, k \in Nat : p + k = n /\ k <= q /\ (p + q) + r = y => p + q = n
    OBVIOUS
  <2> QED
    BY <1>2, <1>5, <2>1, <2>2, <2>3
<1> QED
  BY <1>6 DEF u

(* The ranges of what is on its way. *)
LEMMA FlowTypes ==
  ASSUME EchoProgram, Flow
  PROVE  /\ Bye \in Nat /\ yields \in 0 .. Bye
         /\ heard \in Seq(1 .. Bye) /\ inbox["client"] \in Seq(1 .. Bye)
         /\ transmits["child"] \in Seq(1 .. Bye) /\ inbox["child"] \in Seq(1 .. Bye)
         /\ transmits["client"] \in Seq(1 .. Bye) /\ Returned \in Seq(1 .. Bye)
         /\ Len(Returned) = Len(heard) + Len(inbox["client"]) + Len(transmits["child"])
         /\ Len(Returned) + Len(inbox["child"]) + Len(transmits["client"]) = yields
         /\ "client" \in Ends /\ "child" \in Ends
<1> DEFINE S == 1 .. Bye
<1>1. Bye \in Nat /\ yields \in 0 .. Bye /\ yields \in Nat /\ "client" \in Ends /\ "child" \in Ends
  BY DEF Flow, EchoProgram, Bye, Ends
<1>2. /\ transmits["client"] \in Seq(S) /\ transmits["child"] \in Seq(S) /\ heard \in Seq(S)
      /\ inbox["client"] \in Seq(S) /\ inbox["child"] \in Seq(S)
  BY <1>1 DEF Flow
<1> HIDE DEF S
<1>3. \A s, t \in Seq(S) : s \o t \in Seq(S) /\ Len(s \o t) = Len(s) + Len(t) /\ Len(s) \in Nat
  OBVIOUS
<1>4. /\ Returned \in Seq(S) /\ Len(Returned) = Len(heard) + Len(inbox["client"]) + Len(transmits["child"])
  <2>1. heard \o inbox["client"] \in Seq(S) /\ Len(heard \o inbox["client"]) = Len(heard) + Len(inbox["client"])
    BY <1>2, <1>3
  <2> QED
    BY <1>2, <1>3, <2>1 DEF Returned
<1>5. Wire \in Seq(S) /\ Len(Wire) = Len(Returned) + Len(inbox["child"]) + Len(transmits["client"])
  <2>1. /\ Returned \o inbox["child"] \in Seq(S)
        /\ Len(Returned \o inbox["child"]) = Len(Returned) + Len(inbox["child"])
    BY <1>2, <1>3, <1>4
  <2> QED
    BY <1>2, <1>3, <2>1 DEF Wire
<1>6. Len(Wire) = yields
  BY <1>1 DEF Flow
<1> QED
  BY <1>1, <1>2, <1>3, <1>4, <1>5, <1>6 DEF S

(* There are no more lines than Bye; who has heard Bye has left none. *)
LEMMA FlowLengths ==
  ASSUME EchoProgram, Flow
  PROVE  /\ Len(heard) \in 0 .. Bye /\ Len(Returned) \in 0 .. Bye
         /\ Len(heard) = Bye =>
              /\ inbox["client"] = <<>> /\ transmits["child"] = <<>>
              /\ inbox["child"] = <<>> /\ transmits["client"] = <<>>
<1> DEFINE S == 1 .. Bye
<1>1. /\ heard \in Seq(S) /\ inbox["client"] \in Seq(S) /\ transmits["child"] \in Seq(S)
      /\ inbox["child"] \in Seq(S) /\ transmits["client"] \in Seq(S) /\ Returned \in Seq(S)
  BY FlowTypes
<1>2. /\ Len(Returned) = Len(heard) + Len(inbox["client"]) + Len(transmits["child"])
      /\ Len(Returned) + Len(inbox["child"]) + Len(transmits["client"]) = yields
      /\ yields \in 0 .. Bye /\ Bye \in Nat
  BY FlowTypes
<1> HIDE DEF S
<1>3. /\ Len(heard) \in Nat /\ Len(inbox["client"]) \in Nat /\ Len(transmits["child"]) \in Nat
      /\ Len(inbox["child"]) \in Nat /\ Len(transmits["client"]) \in Nat /\ Len(Returned) \in Nat
  BY <1>1
<1> DEFINE h == Len(heard)  a == Len(inbox["client"])  b == Len(transmits["child"])  r == Len(Returned)
           c == Len(inbox["child"])  d == Len(transmits["client"])
<1>4. /\ h \in Nat /\ a \in Nat /\ b \in Nat /\ c \in Nat /\ d \in Nat /\ r \in Nat
      /\ r = h + a + b /\ r + c + d = yields /\ yields \in 0 .. Bye /\ Bye \in Nat
  BY <1>2, <1>3
<1> HIDE DEF h, a, b, c, d, r
<1>5. h \in 0 .. Bye /\ r \in 0 .. Bye /\ (h = Bye => a = 0 /\ b = 0 /\ c = 0 /\ d = 0)
  BY <1>4
<1>6. \A s \in Seq(S) : Len(s) = 0 => s = <<>>
  OBVIOUS
<1> QED
  BY <1>1, <1>5, <1>6 DEF h, a, b, c, d, r

(* The client's handler gets what was echoed. *)
LEMMA FlowClientReads ==
  ASSUME EchoProgram, Flow, ReadBranch("client")
  PROVE  Flow'
<1> DEFINE S == 1 .. Bye  h == heard  ic == inbox["client"]  tc == transmits["child"]
           is == inbox["child"]  ts == transmits["client"]
<1>1. /\ count' = [count EXCEPT !["client"] = @ + Len(ic)] /\ heard' = h \o ic
      /\ done' = IF Bye \in ToSet(ic) THEN done \cup {"client"} ELSE done
      /\ Flush("client", <<>>, <<>>) /\ yields' = yields
  BY DEF ReadBranch, vars, history, ToSet
<1>2. /\ h \in Seq(S) /\ ic \in Seq(S) /\ tc \in Seq(S) /\ is \in Seq(S) /\ ts \in Seq(S)
      /\ Returned \in Seq(S) /\ <<>> \in Seq(S) /\ Bye \in Nat /\ yields \in 0 .. Bye
      /\ Len(Returned) = Len(h) + Len(ic) + Len(tc) /\ Len(Returned) + Len(is) + Len(ts) = yields
      /\ "client" \in Ends /\ "child" \in Ends
  <2>1. <<>> \in Seq(S)
    OBVIOUS
  <2> HIDE DEF S
  <2> QED
    BY <2>1, FlowTypes DEF S
<1>3. /\ transmits' \in [Ends -> Seq(S)] /\ inbox' \in [Ends -> Seq(S)]
      /\ transmits'["client"] = <<>> /\ transmits'["child"] = tc
      /\ inbox'["client"] = <<>> /\ inbox'["child"] = (is \o ts) \o <<>>
  BY <1>1, <1>2, Flushed DEF Other
<1>4. /\ Returned = (h \o ic) \o tc /\ Wire = (Returned \o is) \o ts
      /\ Wire = [i \in 1 .. yields |-> i]
  BY DEF Returned, Wire, Flow
<1>5. Returned' = ((h \o ic) \o <<>>) \o tc /\ Wire' = (Returned' \o ((is \o ts) \o <<>>)) \o <<>>
  BY <1>1, <1>3 DEF Returned, Wire
<1>6. count = [e \in Ends |-> IF e = "client" THEN Len(h) ELSE Len(Returned)]
  BY DEF Flow
<1>7. done \subseteq Ends /\ \A e \in done : count[e] = Bye
  BY DEF Flow
<1> HIDE DEF S, h, ic, tc, is, ts
<1>8. h \o ic \in Seq(S) /\ Len(h \o ic) = Len(h) + Len(ic)
  BY <1>2
<1>9. Returned' = Returned
  BY <1>2, <1>4, <1>5, <1>8
<1>10. Wire' = Wire
  <2>1. \A a, b, c \in Seq(S) : (a \o ((b \o c) \o <<>>)) \o <<>> = (a \o b) \o c
    BY MovedOn
  <2>2. (Returned \o ((is \o ts) \o <<>>)) \o <<>> = (Returned \o is) \o ts
    BY <1>2, <2>1, Zenon
  <2> QED
    BY <1>4, <1>5, <1>9, <2>2
<1>11. count' = [e \in Ends |-> IF e = "client" THEN Len(h \o ic) ELSE Len(Returned)]
  BY <1>1, <1>2, <1>6, <1>8
(* Who has the last line has all of them. *)
<1>12. ASSUME "client" \in done' PROVE Len(h \o ic) = Bye
  <2>1. CASE "client" \in done
    <3>1. Len(h) = Bye
      BY <1>2, <1>6, <1>7, <2>1
    <3>2. Len(h) \in Nat /\ Len(ic) \in Nat /\ Len(tc) \in Nat /\ Len(is) \in Nat /\ Len(ts) \in Nat
      BY <1>2
    <3> QED
      BY <1>2, <1>8, <3>1, <3>2
  <2>2. CASE Bye \in ToSet(ic)
    <3>1. (h \o ic) \o ((tc \o is) \o ts) = (((h \o ic) \o tc) \o is) \o ts
      <4> DEFINE u == h \o ic
      <4>1. u \in Seq(S)
        BY <1>8
      <4> HIDE DEF u
      <4>2. \A a, b, c \in Seq(S) : a \o (b \o c) = (a \o b) \o c /\ b \o c \in Seq(S)
        BY Regrouped
      <4>3. tc \in Seq(S) /\ is \in Seq(S) /\ ts \in Seq(S)
        BY <1>2
      <4>4. tc \o is \in Seq(S) /\ u \o (tc \o is) = (u \o tc) \o is
        BY <4>1, <4>2, <4>3
      <4>5. u \o ((tc \o is) \o ts) = (u \o (tc \o is)) \o ts
        BY <4>1, <4>2, <4>3, <4>4
      <4> QED
        BY <4>4, <4>5 DEF u
    <3>2. (h \o ic) \o ((tc \o is) \o ts) = [i \in 1 .. yields |-> i]
      BY <1>4, <3>1
    <3>3. (tc \o is) \o ts \in Seq(S)
      BY <1>2
    <3>4. \A a, b, c \in Seq(S) : (a \o b) \o c = [i \in 1 .. yields |-> i] /\ Bye \in ToSet(b)
                                 => Len(a \o b) = Bye
      BY <1>2, ByeIsLast DEF S
    <3> QED
      BY <1>2, <2>2, <3>2, <3>3, <3>4, Zenon
  <2> QED
    BY <1>1, <1>12, <2>1, <2>2
<1>13. \A e \in done' : count'[e] = Bye
  <2>1. ASSUME NEW e \in done', e # "client" PROVE count'[e] = count[e] /\ e \in done
    BY <1>1, <1>2, <1>6, <1>7, <2>1
  <2> QED
    BY <1>2, <1>7, <1>11, <1>12, <2>1
<1>14. done' \subseteq Ends
  BY <1>1, <1>2, <1>7
<1> QED
  BY <1>1, <1>2, <1>3, <1>4, <1>8, <1>9, <1>10, <1>11, <1>13, <1>14 DEF Flow, S

(* The server's handler gets the lines and echoes them. *)
LEMMA FlowServerReads ==
  ASSUME EchoProgram, Flow, ReadBranch("child")
  PROVE  Flow'
<1> DEFINE S == 1 .. Bye  h == heard  ic == inbox["client"]  tc == transmits["child"]
           is == inbox["child"]  ts == transmits["client"]
<1>1. /\ count' = [count EXCEPT !["child"] = @ + Len(is)] /\ heard' = h
      /\ done' = IF Bye \in ToSet(is) THEN done \cup {"child"} ELSE done
      /\ Flush("child", <<>>, is) /\ yields' = yields
  BY DEF ReadBranch, vars, history, ToSet
<1>2. /\ h \in Seq(S) /\ ic \in Seq(S) /\ tc \in Seq(S) /\ is \in Seq(S) /\ ts \in Seq(S)
      /\ Returned \in Seq(S) /\ <<>> \in Seq(S) /\ Bye \in Nat /\ yields \in 0 .. Bye
      /\ Len(Returned) + Len(is) + Len(ts) = yields
      /\ "client" \in Ends /\ "child" \in Ends
  <2>1. <<>> \in Seq(S)
    OBVIOUS
  <2> HIDE DEF S
  <2> QED
    BY <2>1, FlowTypes DEF S
<1>3. /\ transmits' \in [Ends -> Seq(S)] /\ inbox' \in [Ends -> Seq(S)]
      /\ transmits'["child"] = <<>> /\ transmits'["client"] = ts
      /\ inbox'["child"] = <<>> /\ inbox'["client"] = (ic \o tc) \o is
  BY <1>1, <1>2, Flushed DEF Other
<1>4. /\ Returned = (h \o ic) \o tc /\ Wire = (Returned \o is) \o ts
      /\ Wire = [i \in 1 .. yields |-> i]
  BY DEF Returned, Wire, Flow
<1>5. Returned' = (h \o ((ic \o tc) \o is)) \o <<>> /\ Wire' = (Returned' \o <<>>) \o ts
  BY <1>1, <1>3 DEF Returned, Wire
<1>6. count = [e \in Ends |-> IF e = "client" THEN Len(h) ELSE Len(Returned)]
  BY DEF Flow
<1>7. done \subseteq Ends /\ \A e \in done : count[e] = Bye
  BY DEF Flow
<1> HIDE DEF S, h, ic, tc, is, ts
<1>8. Returned \o is \in Seq(S) /\ Len(Returned \o is) = Len(Returned) + Len(is)
  BY <1>2
<1>9. Returned' = Returned \o is
  <2> DEFINE x == ic \o tc
  <2>1. h \in Seq(S) /\ ic \in Seq(S) /\ tc \in Seq(S) /\ is \in Seq(S)
    BY <1>2
  <2>2. \A a, b, c \in Seq(S) : a \o (b \o c) = (a \o b) \o c /\ b \o c \in Seq(S)
    BY Regrouped
  <2>3. x \in Seq(S) /\ h \o x = Returned
    BY <1>4, <2>1, <2>2
  <2> HIDE DEF x
  <2>4. h \o (x \o is) = Returned \o is
    <3>1. \A a, b, c \in Seq(S) : a \o (b \o c) = (a \o b) \o c
      BY <2>2
    <3>2. h \in Seq(S) /\ x \in Seq(S) /\ is \in Seq(S)
      BY <2>1, <2>3
    <3>3. h \o (x \o is) = (h \o x) \o is
      BY <3>1, <3>2
    <3> QED
      BY <2>3, <3>3
  <2>5. (Returned \o is) \o <<>> = Returned \o is
    BY <1>8
  <2> QED
    BY <1>5, <2>4, <2>5 DEF x
<1>10. Wire' = Wire
  <2>1. (Returned \o is) \o <<>> = Returned \o is
    BY <1>8
  <2> QED
    BY <1>4, <1>5, <1>9, <2>1
<1>11. count' = [e \in Ends |-> IF e = "client" THEN Len(h) ELSE Len(Returned \o is)]
  <2>1. \A e \in Ends : e = "client" \/ e = "child"
    BY DEF Ends
  <2> QED
    BY <1>1, <1>2, <1>6, <1>8, <2>1
<1>12. ASSUME "child" \in done' PROVE Len(Returned \o is) = Bye
  <2>1. CASE "child" \in done
    <3>1. Len(Returned) = Bye
      BY <1>2, <1>6, <1>7, <2>1
    <3>2. Len(Returned) \in Nat /\ Len(is) \in Nat /\ Len(ts) \in Nat
      BY <1>2
    <3> QED
      BY <1>2, <1>8, <3>1, <3>2
  <2>2. CASE Bye \in ToSet(is)
    <3>1. (Returned \o is) \o ts = [i \in 1 .. yields |-> i]
      BY <1>4
    <3> QED
      BY <1>2, <2>2, <3>1, ByeIsLast DEF S
  <2> QED
    BY <1>1, <1>12, <2>1, <2>2
<1>13. \A e \in done' : count'[e] = Bye
  <2>1. ASSUME NEW e \in done', e # "child" PROVE count'[e] = count[e] /\ e \in done
    BY <1>1, <1>2, <1>6, <1>7, <2>1
  <2> QED
    BY <1>2, <1>7, <1>11, <1>12, <2>1
<1>14. done' \subseteq Ends
  BY <1>1, <1>2, <1>7
<1> QED
  BY <1>1, <1>2, <1>3, <1>4, <1>8, <1>9, <1>10, <1>11, <1>13, <1>14 DEF Flow, S

-----------------------------------------------------------------------------
(* Where the tasks are, and what they know of the last line. *)
Control ==
  /\ pc \in [Tasks -> {"start", "bound", "count", "server", "connecting", "writing", "recv",
                            "accepting", "draining", "select", "stopping", "over"}]
  /\ closing \in [Ends -> BOOLEAN] /\ fired \in [Ends -> BOOLEAN]
  /\ pc["app"] \in {"start", "connecting", "writing"} => yields < Bye
  /\ pc["app"] \in {"stopping", "over"} => "client" \in done
  /\ pc["main"] \in {"server", "stopping", "over"} => "client" \in done
  /\ pc["main"] \in {"stopping", "over"} => "child" \in done
  /\ \A e \in Ends : closing[e] \/ pc[e] = "over" => "client" \in done

(* The order in which the tasks end. *)
Endings ==
  /\ \A t \in Tasks : status[t] = "done" <=> pc[t] = "over"
  /\ pc["main"] = "over" => pc["listener"] = "over"
  /\ pc["listener"] = "over" => pc["child"] = "over" \/ status["child"] = "unborn"
  /\ status["listener"] # "dropped" /\ status["child"] # "dropped"

TestInv == IInv /\ Flow /\ Control /\ Endings

(* No line is written and only the test's own future is there. *)
LEMMA TestInit ==
  ASSUME EchoProgram, EchoInit
  PROVE  TestInv
<1>1. Init
  BY DEF EchoInit, Init
<1>2. IInv
  BY <1>1, InitIInv
<1>3. /\ status = [t \in Tasks |-> IF t = "main" THEN "runnable" ELSE "unborn"] /\ yields = 0
      /\ pc = [t \in Tasks |-> "start"]
      /\ closing = [e \in Ends |-> FALSE] /\ fired = [e \in Ends |-> FALSE]
      /\ transmits = [e \in Ends |-> <<>>] /\ inbox = [e \in Ends |-> <<>>]
      /\ count = [e \in Ends |-> 0] /\ done = {} /\ heard = <<>>
  BY DEF EchoProgram, EchoInit, Init
<1>4. Bye \in Nat \ {0} /\ "client" \in Ends /\ "child" \in Ends /\ Ends \subseteq Tasks
      /\ "app" \in Tasks /\ "main" \in Tasks /\ "listener" \in Tasks
  BY DEF EchoProgram, Bye, Ends
<1>5. Flow
  <2>1. <<>> \in Seq(1 .. Bye) /\ <<>> \o <<>> \o <<>> = <<>> /\ Len(<<>>) = 0
    OBVIOUS
  <2>2. Returned = <<>> /\ Wire = <<>>
    BY <1>3, <1>4, <2>1 DEF Returned, Wire
  <2>3. Wire = [i \in 1 .. yields |-> i]
    BY <1>3, <2>2
  <2>4. yields \in 0 .. Bye
    BY <1>3, <1>4
  <2> QED
    BY <1>3, <1>4, <2>1, <2>2, <2>3, <2>4 DEF Flow
<1>6. Control
  BY <1>3, <1>4 DEF Control
<1>7. Endings
  BY <1>3, <1>4 DEF Endings
<1> QED
  BY <1>2, <1>5, <1>6, <1>7 DEF TestInv

(* The lines move only in Write and in the connection tasks. *)
LEMMA FlowNext ==
  ASSUME EchoProgram, TestInv, [EchoNext]_echovars
  PROVE  Flow' /\ done \subseteq done' /\ (yields' = yields \/ Write)
<1>1. Flow /\ Control
  BY DEF TestInv
<1>2. CASE Write
  <2>1. yields < Bye
    BY <1>1, <1>2 DEF Control, Write, At
  <2> QED
    BY <1>1, <1>2, <2>1, FlowWrites DEF Write
<1>3. ASSUME NEW e \in Ends, Start(e) \/ TimerBranch(e)
      PROVE  Flow' /\ done \subseteq done' /\ yields' = yields
  BY <1>1, <1>3, FlowFlushes DEF Start, TimerBranch, vars, history
<1>4. ASSUME NEW e \in Ends, ReadBranch(e)
      PROVE  Flow' /\ done \subseteq done' /\ yields' = yields
  <2>1. Flow'
    <3>1. e = "client" \/ e = "child"
      BY DEF Ends
    <3>2. CASE e = "client"
      BY <1>1, <1>4, <3>2, FlowClientReads
    <3>3. CASE e = "child"
      BY <1>1, <1>4, <3>3, FlowServerReads
    <3> QED
      BY <3>1, <3>2, <3>3
  <2> QED
    BY <1>4, <2>1 DEF ReadBranch, vars, history
<1>5. CASE UNCHANGED <<transmits, inbox, count, done, heard, yields>>
  BY <1>1, <1>5 DEF Flow, Returned, Wire
<1>6. ASSUME PollMain \/ RunnerTicks \/ NestedTick \/ YieldReturns("app") \/ Return
      PROVE  yields' = yields
  BY <1>6 DEF PollMain, RunnerTicks, NestedTick, YieldReturns, Return, Poll,
              history
<1>7. ASSUME NEW t, Suspend(t) \/ Complete(t) \/ Wake(t) \/ \E u : Spawn(t, u)
      PROVE  yields' = yields
  BY <1>7 DEF Suspend, Complete, Wake, Spawn, history
<1>8. CASE \/ (PollMain \/ RunnerTicks \/ NestedTick \/ YieldReturns("app") \/ Return)
              /\ UNCHANGED <<pc, closing, lines, fired>>
           \/ Bind \/ SpawnApp \/ SpawnClient \/ Accept \/ Connect \/ Drained
  BY <1>5, <1>6, <1>7, <1>8 DEF lines, Bind, SpawnApp, SpawnClient, Accept, Connect, Drained,
              Await, Finish
<1>9. ASSUME NEW t, Leave(t) \/ Day(t) \/ Waits(t) \/ Stopped(t) \/ WakesUp(t)
      PROVE  Flow' /\ done \subseteq done' /\ yields' = yields
  BY <1>5, <1>7, <1>9 DEF lines, Leave, Day, vars, history, Waits, Stopped, WakesUp, Await,
              Finish
<1>10. CASE \/ MainGoesOn \/ Received \/ Listen \/ ListenerCloses \/ UNCHANGED echovars
  BY <1>5, <1>10 DEF lines, MainGoesOn, Received, Listen, ListenerCloses, echovars, vars,
              history
<1>11. CASE Thread
  <2>1. CASE \E e \in Ends : Start(e) \/ ReadBranch(e) \/ TimerBranch(e) \/ Leave(e)
    BY <1>3, <1>4, <1>9, <2>1
  <2>2. CASE \E t \in Tasks : Waits(t) \/ Stopped(t)
    BY <1>9, <2>2
  <2> QED
    BY <1>2, <1>8, <1>10, <1>11, <2>1, <2>2 DEF Thread
<1>12. CASE \E t \in Tasks : WakesUp(t) \/ (t \in Ends /\ Day(t))
  BY <1>9, <1>12
<1> QED
  BY <1>10, <1>11, <1>12 DEF EchoNext

(* Where the tasks that waited are when they are called. *)
LEMMA CalledIs ==
  /\ Called("main") => /\ pc["main"] = "count" => pc["app"] \in {"stopping", "over"}
                       /\ pc["main"] = "server" => "child" \in done
                       /\ pc["main"] = "stopping" => pc["listener"] = "over"
  /\ Called("app") /\ pc["app"] = "recv" => "client" \in done
  /\ Called("listener") /\ pc["listener"] = "draining" => pc["child"] = "over" \/ status["child"] = "unborn"
  BY DEF Called, Ends

Places == {"start", "bound", "count", "server", "connecting", "writing", "recv",
           "accepting", "draining", "select", "stopping", "over"}

(* There are five tasks. *)
LEMMA TaskNames ==
  ASSUME EchoProgram
  PROVE  /\ {"main", "app", "listener", "child", "client"} = Tasks
         /\ Ends = {"child", "client"} /\ Ends \subseteq Tasks
  BY DEF EchoProgram, Ends

(* Control, of a step that moves no task. *)
LEMMA ControlStays ==
  ASSUME Control, UNCHANGED <<pc, closing>>, fired' \in [Ends -> BOOLEAN], done \subseteq done', yields' = yields
  PROVE  Control'
  BY DEF Control

(* A task comes to p. *)
LEMMA ControlMoves ==
  ASSUME EchoProgram, Control, NEW t \in Tasks, NEW p \in Places,
         pc' = [pc EXCEPT ![t] = p], closing' \in [Ends -> BOOLEAN], fired' = fired,
         done \subseteq done', yields' = yields \/ t = "app",
         t = "app" /\ p \in {"start", "connecting", "writing"} => yields' < Bye,
         t = "app" /\ p \in {"stopping", "over"} => "client" \in done,
         t = "main" /\ p \in {"server", "stopping", "over"} => "client" \in done,
         t = "main" /\ p \in {"stopping", "over"} => "child" \in done,
         t \in Ends /\ p = "over" => "client" \in done,
         \A e \in Ends : closing'[e] => closing[e] \/ "client" \in done
  PROVE  Control'
<1>1. /\ pc \in [Tasks -> Places] /\ fired \in [Ends -> BOOLEAN]
      /\ "app" \in Tasks /\ "main" \in Tasks /\ Ends \subseteq Tasks
  BY TaskNames DEF Control, Places
<1>2. pc' \in [Tasks -> Places] /\ pc'[t] = p /\ \A u \in Tasks : u # t => pc'[u] = pc[u]
  BY <1>1
<1>3. pc'["app"] \in {"start", "connecting", "writing"} => yields' < Bye
  BY <1>1, <1>2 DEF Control
<1>4. /\ pc'["app"] \in {"stopping", "over"} => "client" \in done
      /\ pc'["main"] \in {"server", "stopping", "over"} => "client" \in done
      /\ pc'["main"] \in {"stopping", "over"} => "child" \in done
  BY <1>1, <1>2 DEF Control
<1>5. \A e \in Ends : closing'[e] \/ pc'[e] = "over" => "client" \in done
  BY <1>1, <1>2 DEF Control
<1> QED
  BY <1>1, <1>2, <1>3, <1>4, <1>5 DEF Control, Places

(* A step after which as many tasks are over as before. *)
LEMMA EndingsStay ==
  ASSUME EchoProgram, Endings,
         \A u \in Tasks : /\ status'[u] = "done" <=> status[u] = "done"
                          /\ status'[u] = "dropped" => status[u] = "dropped"
                          /\ pc'[u] = "over" <=> pc[u] = "over",
         status["child"] = "unborn" => status'["child"] = "unborn" \/ pc["listener"] # "over"
  PROVE  Endings'
  BY TaskNames DEF Endings

(* A step in which no task is born or ends, one that spawns a task, and one *)
(* in which the running task ends.                                           *)
LEMMA EndingsLive ==
  ASSUME EchoProgram, Endings, \A u \in Tasks : LivesOn(u),
         \A u \in Tasks : pc'[u] = "over" <=> pc[u] = "over"
  PROVE  Endings'
<1>1. \A u \in Tasks : /\ status'[u] = "done" <=> status[u] = "done"
                       /\ status'[u] = "dropped" => status[u] = "dropped"
                       /\ status[u] = "unborn" => status'[u] = "unborn"
  BY DEF LivesOn, Live
<1> QED
  BY <1>1, EndingsStay, TaskNames

LEMMA EndingsSpawn ==
  ASSUME EchoProgram, TestInv, NEW t \in Tasks, NEW u \in Tasks, Spawn(t, u),
         u = "child" => pc["listener"] # "over",
         \A v \in Tasks : pc'[v] = "over" <=> pc[v] = "over"
  PROVE  Endings'
<1>1. status[u] = "unborn" /\ status'[u] \in Live /\ \A v \in Tasks : v # u => LivesOn(v)
  BY Lives DEF TestInv
<1>2. \A v \in Tasks : /\ status'[v] = "done" <=> status[v] = "done"
                       /\ status'[v] = "dropped" => status[v] = "dropped"
  BY <1>1 DEF LivesOn, Live
<1>3. status["child"] = "unborn" => status'["child"] = "unborn" \/ pc["listener"] # "over"
  BY <1>1, TaskNames DEF LivesOn, Live
<1> QED
  BY <1>2, <1>3, EndingsStay DEF TestInv

LEMMA EndingsComplete ==
  ASSUME EchoProgram, TestInv, NEW t \in Tasks, Complete(t), pc' = [pc EXCEPT ![t] = "over"],
         t = "main" => pc["listener"] = "over",
         t = "listener" => pc["child"] = "over" \/ status["child"] = "unborn"
  PROVE  Endings'
<1>1. status[t] \in Live /\ status'[t] = "done" /\ \A u \in Tasks : u # t => LivesOn(u)
  BY Lives DEF TestInv
<1>2. pc'[t] = "over" /\ \A u \in Tasks : u # t => pc'[u] = pc[u]
  BY DEF TestInv, Control
<1>3. \A u \in Tasks : u # t => /\ status'[u] = "done" <=> status[u] = "done"
                                /\ status'[u] = "dropped" => status[u] = "dropped"
                                /\ status[u] = "unborn" => status'[u] = "unborn"
  BY <1>1 DEF LivesOn, Live
<1>4. Endings
  BY DEF TestInv
<1>5. \A u \in Tasks : status'[u] = "done" <=> pc'[u] = "over"
  BY <1>1, <1>2, <1>3, <1>4 DEF Endings
<1>6. pc'["main"] = "over" => pc'["listener"] = "over"
  BY <1>2, <1>4, TaskNames DEF Endings
<1>7. pc'["listener"] = "over" => pc'["child"] = "over" \/ status'["child"] = "unborn"
  BY <1>2, <1>3, <1>4, TaskNames DEF Endings
<1>8. status'["listener"] # "dropped" /\ status'["child"] # "dropped"
  BY <1>1, <1>3, <1>4, TaskNames DEF Endings
<1> QED
  BY <1>5, <1>6, <1>7, <1>8 DEF Endings

(* When run() returns, the server's tasks are over. *)
LEMMA EndingsReturn ==
  ASSUME EchoProgram, TestInv, Return, pc' = pc
  PROVE  Endings'
<1>1. Endings /\ \A u \in Tasks :
        status'[u] = IF status[u] \in {"runnable", "waiting"} THEN "dropped" ELSE status[u]
  BY Lives DEF TestInv
<1>2. status["main"] = "done"
  BY DEF Return, EchoProgram
<1>3. status["listener"] = "done" /\ status["child"] \in {"done", "unborn"}
  BY <1>1, <1>2, TaskNames DEF Endings
<1>4. \A u \in Tasks : status'[u] = "done" <=> status[u] = "done"
  BY <1>1
<1>5. status'["listener"] = "done" /\ status'["child"] = status["child"]
  BY <1>1, <1>3, TaskNames
<1> QED
  BY <1>1, <1>3, <1>4, <1>5 DEF Endings

(* The places of a task that goes on. *)
LEMMA Places2 ==
  ASSUME EchoProgram, Control, NEW t \in Tasks, NEW p \in Places, pc[t] # "over", p # "over", pc' = [pc EXCEPT ![t] = p]
  PROVE  \A u \in Tasks : pc'[u] = "over" <=> pc[u] = "over"
  BY DEF Control

(* The steps of the executor alone, of main, of app, of listener and of the *)
(* connection tasks.                                                       *)
LEMMA StaysNext ==
  ASSUME EchoProgram, TestInv, pc' = pc, closing' = closing, fired' \in [Ends -> BOOLEAN],
         done \subseteq done', yields' = yields,
         \/ \A u \in Tasks : LivesOn(u)
         \/ Return
         \/ \E t \in Tasks, u \in Tasks :
              Spawn(t, u) /\ (u = "child" => pc["listener"] # "over")
  PROVE  Control' /\ Endings'
<1>1. Control'
  BY ControlStays DEF TestInv
<1>2. CASE \A u \in Tasks : LivesOn(u)
  BY <1>1, <1>2, EndingsLive DEF TestInv
<1>3. CASE Return
  BY <1>1, <1>3, EndingsReturn
<1>4. CASE \E t \in Tasks, u \in Tasks :
              Spawn(t, u) /\ (u = "child" => pc["listener"] # "over")
  BY <1>1, <1>4, EndingsSpawn
<1> QED
  BY <1>1, <1>2, <1>3, <1>4

LEMMA MainNext ==
  ASSUME EchoProgram, TestInv, done \subseteq done', yields' = yields,
         Bind \/ SpawnApp \/ MainGoesOn \/ Stopped("main")
  PROVE  Control' /\ Endings'
<1> USE TaskNames
<1>1. Control /\ Endings /\ closing \in [Ends -> BOOLEAN]
  BY DEF TestInv, Control
<1>2. CASE Bind \/ SpawnApp
  <2>1. PICK u \in {"listener", "app"}, p \in {"bound", "count"} :
          Spawn("main", u) /\ pc' = [pc EXCEPT !["main"] = p] /\ pc["main"] \in {"start", "bound"}
          /\ closing' = closing /\ fired' = fired
    BY <1>2 DEF Bind, SpawnApp, Goto, At
  <2>2. p \in Places /\ p # "over" /\ p \notin {"server", "stopping"}
    BY <2>1 DEF Places
  <2>3. Control'
    BY <1>1, <2>1, <2>2, ControlMoves
  <2>4. \A v \in Tasks : pc'[v] = "over" <=> pc[v] = "over"
    BY <1>1, <2>1, <2>2, Places2
  <2>5. Endings'
    BY <2>1, <2>4, EndingsSpawn
  <2> QED
    BY <2>3, <2>5
<1>3. CASE MainGoesOn
  <2>1. PICK p \in {"server", "stopping"} :
          /\ pc' = [pc EXCEPT !["main"] = p] /\ pc["main"] \in {"count", "server"} /\ fired' = fired
          /\ p = "server" => pc["main"] = "count" /\ closing' = closing
          /\ p = "stopping" => pc["main"] = "server" /\ closing' = [closing EXCEPT !["child"] = TRUE]
    BY <1>3 DEF MainGoesOn, Goto, At
  <2>2. "client" \in done /\ (p = "stopping" => "child" \in done)
    BY <1>1, <1>3, <2>1, CalledIs DEF MainGoesOn, Control
  <2>3. p \in Places /\ p # "over"
    BY <2>1 DEF Places
  <2>4. closing' \in [Ends -> BOOLEAN]
    BY <1>1, <2>1
  <2>5. Control'
    BY <1>1, <2>1, <2>2, <2>3, <2>4, ControlMoves
  <2>6. \A v \in Tasks : pc'[v] = "over" <=> pc[v] = "over"
    BY <1>1, <2>1, <2>3, Places2
  <2>7. \A u \in Tasks : LivesOn(u)
    BY <1>3 DEF MainGoesOn, vars, history, LivesOn
  <2> QED
    BY <1>1, <2>5, <2>6, <2>7, EndingsLive
<1>4. CASE Stopped("main")
  <2>1. /\ pc["main"] = "stopping" /\ Called("main") /\ Complete("main")
        /\ pc' = [pc EXCEPT !["main"] = "over"] /\ closing' = closing /\ fired' = fired
    BY <1>4 DEF Stopped, Finish, At, Goto
  <2>2. pc["listener"] = "over" /\ "client" \in done /\ "child" \in done
    BY <1>1, <2>1, CalledIs DEF Control
  <2>3. Control'
    BY <1>1, <2>1, <2>2, ControlMoves DEF Places
  <2> QED
    BY <2>1, <2>2, <2>3, EndingsComplete
<1> QED
  BY <1>2, <1>3, <1>4

LEMMA AppNext ==
  ASSUME EchoProgram, TestInv, done \subseteq done', yields' = yields \/ Write,
         Connect \/ SpawnClient \/ Write \/ Received \/ Stopped("app")
  PROVE  Control' /\ Endings'
<1> USE TaskNames
<1>1. Control /\ Endings /\ closing \in [Ends -> BOOLEAN] /\ IInv
  BY DEF TestInv, Control
<1>2. CASE Connect
  <2>1. /\ pc["app"] = "start" /\ Suspend("app") /\ pc' = [pc EXCEPT !["app"] = "connecting"]
        /\ closing' = closing /\ fired' = fired /\ yields' = yields
    BY <1>2 DEF Connect, Await, At, Goto, Suspend, history
  <2>2. yields' < Bye
    BY <1>1, <2>1 DEF Control
  <2>3. Control'
    BY <1>1, <2>1, <2>2, ControlMoves DEF Places
  <2>4. \A v \in Tasks : pc'[v] = "over" <=> pc[v] = "over"
    BY <1>1, <2>1, Places2 DEF Places
  <2> QED
    BY <1>1, <2>1, <2>3, <2>4, EndingsLive, Lives
<1>3. CASE SpawnClient
  <2>1. /\ pc["app"] = "connecting" /\ Spawn("app", "client") /\ pc' = [pc EXCEPT !["app"] = "writing"]
        /\ closing' = closing /\ fired' = fired /\ yields' = yields
    BY <1>3 DEF SpawnClient, At, Goto, Spawn, history
  <2>2. yields' < Bye
    BY <1>1, <2>1 DEF Control
  <2>3. Control'
    BY <1>1, <2>1, <2>2, ControlMoves DEF Places
  <2>4. \A v \in Tasks : pc'[v] = "over" <=> pc[v] = "over"
    BY <1>1, <2>1, Places2 DEF Places
  <2> QED
    BY <2>1, <2>3, <2>4, EndingsSpawn
<1>4. CASE Write
  <2>1. PICK p \in {"recv", "writing"} :
        /\ pc["app"] = "writing" /\ Yield("app", "yielding") /\ pc' = [pc EXCEPT !["app"] = p]
        /\ p = "writing" => yields + 1 # Bye
        /\ closing' = closing /\ fired' = fired /\ yields' = yields + 1
    BY <1>4 DEF Write, At, Goto, Yield
  <2>2. p = "writing" => yields' < Bye
    <3>1. yields \in 0 .. Bye /\ Bye \in Nat /\ yields < Bye
      BY <1>1, <2>1 DEF TestInv, Flow, Control, EchoProgram, Bye
    <3> QED
      BY <2>1, <3>1
  <2>3. p \in Places /\ p \notin {"start", "connecting", "stopping", "over"}
    BY <2>1 DEF Places
  <2>4. Control'
    BY <1>1, <2>1, <2>2, <2>3, ControlMoves
  <2>5. \A v \in Tasks : pc'[v] = "over" <=> pc[v] = "over"
    BY <1>1, <2>1, <2>3, Places2
  <2> QED
    BY <1>1, <2>1, <2>4, <2>5, EndingsLive, Lives
<1>5. CASE Received
  <2>1. /\ pc["app"] = "recv" /\ Called("app") /\ pc' = [pc EXCEPT !["app"] = "stopping"]
        /\ closing' = [closing EXCEPT !["client"] = TRUE] /\ fired' = fired /\ yields' = yields
        /\ \A u \in Tasks : LivesOn(u)
    BY <1>5 DEF Received, At, Goto, vars, history, LivesOn
  <2>2. "client" \in done /\ closing' \in [Ends -> BOOLEAN]
    BY <1>1, <2>1, CalledIs
  <2>3. Control'
    BY <1>1, <2>1, <2>2, ControlMoves DEF Places
  <2>4. \A v \in Tasks : pc'[v] = "over" <=> pc[v] = "over"
    BY <1>1, <2>1, Places2 DEF Places
  <2> QED
    BY <1>1, <2>1, <2>3, <2>4, EndingsLive
<1>6. CASE Stopped("app")
  <2>1. /\ pc["app"] = "stopping" /\ Complete("app") /\ pc' = [pc EXCEPT !["app"] = "over"]
        /\ closing' = closing /\ fired' = fired /\ yields' = yields
    BY <1>6 DEF Stopped, Finish, At, Goto, Complete, history
  <2>2. "client" \in done
    BY <1>1, <2>1 DEF Control
  <2>3. Control'
    BY <1>1, <2>1, <2>2, ControlMoves DEF Places
  <2> QED
    BY <2>1, <2>3, EndingsComplete
<1> QED
  BY <1>2, <1>3, <1>4, <1>5, <1>6

LEMMA ListenerNext ==
  ASSUME EchoProgram, TestInv, done \subseteq done', yields' = yields,
         Listen \/ ListenerCloses \/ Drained
  PROVE  Control' /\ Endings'
<1> USE TaskNames
<1>1. Control /\ Endings /\ closing \in [Ends -> BOOLEAN]
  BY DEF TestInv, Control
<1>2. CASE Listen \/ ListenerCloses
  <2>1. PICK p \in {"accepting", "draining"} :
        /\ pc["listener"] # "over" /\ pc' = [pc EXCEPT !["listener"] = p]
        /\ closing' = closing /\ fired' = fired
        /\ \A u \in Tasks : LivesOn(u)
    BY <1>2 DEF Listen, ListenerCloses, At, Goto, vars, history, LivesOn
  <2>2. p \in Places /\ p # "over"
    BY <2>1 DEF Places
  <2>3. Control'
    BY <1>1, <2>1, <2>2, ControlMoves
  <2>4. \A v \in Tasks : pc'[v] = "over" <=> pc[v] = "over"
    BY <1>1, <2>1, <2>2, Places2
  <2> QED
    BY <1>1, <2>1, <2>3, <2>4, EndingsLive
<1>3. CASE Drained
  <2>1. /\ pc["listener"] = "draining" /\ Called("listener") /\ Complete("listener")
        /\ pc' = [pc EXCEPT !["listener"] = "over"] /\ closing' = closing /\ fired' = fired
    BY <1>3 DEF Drained, Finish, At, Goto
  <2>2. pc["child"] = "over" \/ status["child"] = "unborn"
    BY <2>1, CalledIs
  <2>3. Control'
    BY <1>1, <2>1, ControlMoves DEF Places
  <2> QED
    BY <2>1, <2>2, <2>3, EndingsComplete
<1> QED
  BY <1>2, <1>3

LEMMA EndNext ==
  ASSUME EchoProgram, TestInv, done \subseteq done', yields' = yields,
         NEW e \in Ends, Start(e) \/ Leave(e)
  PROVE  Control' /\ Endings'
<1> USE TaskNames
<1>1. Control /\ Endings /\ closing \in [Ends -> BOOLEAN]
  BY DEF TestInv, Control
<1>2. CASE Start(e)
  <2>1. /\ pc[e] = "start" /\ pc' = [pc EXCEPT ![e] = "select"] /\ closing' = closing /\ fired' = fired
        /\ \A u \in Tasks : LivesOn(u)
    BY <1>2 DEF Start, At, Goto, vars, history, LivesOn
  <2>2. Control'
    BY <1>1, <2>1, ControlMoves DEF Places
  <2>3. \A v \in Tasks : pc'[v] = "over" <=> pc[v] = "over"
    BY <1>1, <2>1, Places2 DEF Places
  <2> QED
    BY <1>1, <2>1, <2>2, <2>3, EndingsLive
<1>3. CASE Leave(e)
  <2>1. /\ pc[e] = "select" /\ Complete(e) /\ pc' = [pc EXCEPT ![e] = "over"]
        /\ closing' = closing /\ fired' = fired /\ (closing[e] \/ pc[Other(e)] = "over")
    BY <1>3 DEF Leave, Finish, At, Goto
  <2>2. "client" \in done
    BY <1>1, <2>1 DEF Control, Other
  <2>3. Control'
    BY <1>1, <2>1, <2>2, ControlMoves DEF Places
  <2> QED
    BY <2>1, <2>3, EndingsComplete
<1> QED
  BY <1>2, <1>3

(* Every step keeps Control and Endings. *)
LEMMA ControlNext ==
  ASSUME EchoProgram, TestInv, [EchoNext]_echovars
  PROVE  Control' /\ Endings'
<1> USE TaskNames
<1>1. done \subseteq done' /\ (yields' = yields \/ Write) /\ fired \in [Ends -> BOOLEAN]
  BY FlowNext DEF TestInv, Control
<1>2. IInv
  BY DEF TestInv
<1>3. ASSUME PollMain \/ RunnerTicks \/ NestedTick \/ YieldReturns("app") \/ Return,
             UNCHANGED <<pc, closing, lines, fired>>
      PROVE  Control' /\ Endings'
  <2>1. yields' = yields
    BY <1>3 DEF PollMain, RunnerTicks, NestedTick, YieldReturns, Return, Poll,
              history
  <2>2. (\A u \in Tasks : LivesOn(u)) \/ Return
    BY <1>2, <1>3, Lives
  <2> QED
    BY <1>1, <1>3, <2>1, <2>2, StaysNext
<1>4. CASE Accept
  <2>1. Spawn("listener", "child") /\ pc["listener"] = "accepting" /\ UNCHANGED <<pc, closing, fired, yields>>
    BY <1>4 DEF Accept, At, Spawn, history
  <2> QED
    BY <1>1, <2>1, StaysNext
<1>5. ASSUME NEW e \in Ends, ReadBranch(e) \/ TimerBranch(e) \/ Day(e)
      PROVE  Control' /\ Endings'
  <2>1. UNCHANGED <<pc, closing, yields>> /\ fired' \in [Ends -> BOOLEAN]
    BY <1>1, <1>5 DEF ReadBranch, TimerBranch, Day, vars, history
  <2>2. \A u \in Tasks : LivesOn(u)
    BY <1>5 DEF ReadBranch, TimerBranch, Day, vars, history, LivesOn
  <2> QED
    BY <1>1, <2>1, <2>2, StaysNext
<1>6. ASSUME NEW t \in Tasks, Waits(t) \/ WakesUp(t) PROVE Control' /\ Endings'
  <2>1. UNCHANGED <<pc, closing, fired, yields>>
    BY <1>6 DEF Waits, WakesUp, Await, Suspend, Wake, history
  <2>2. \A u \in Tasks : LivesOn(u)
    BY <1>2, <1>6, Lives DEF Waits, WakesUp, Await
  <2> QED
    BY <1>1, <2>1, <2>2, StaysNext
<1>7. CASE UNCHANGED echovars
  <2>1. UNCHANGED <<pc, closing, fired, yields>> /\ \A u \in Tasks : LivesOn(u)
    BY <1>7 DEF echovars, vars, history, LivesOn
  <2> QED
    BY <1>1, <2>1, StaysNext
<1>8. ASSUME NEW t \in Tasks, Stopped(t) PROVE Control' /\ Endings'
  <2>1. t \in {"main", "app"} /\ yields' = yields
    BY <1>8 DEF Stopped, Finish, Complete, history
  <2> QED
    BY <1>1, <1>8, <2>1, MainNext, AppNext
<1>9. ASSUME NEW e \in Ends, Start(e) \/ Leave(e) PROVE Control' /\ Endings'
  <2>1. yields' = yields
    BY <1>9 DEF Start, Leave, Finish, vars, Complete, history
  <2> QED
    BY <1>1, <1>9, <2>1, EndNext
<1>10. CASE Bind \/ SpawnApp \/ MainGoesOn
  <2>1. yields' = yields
    BY <1>10 DEF Bind, SpawnApp, MainGoesOn, vars, Spawn, history
  <2> QED
    BY <1>1, <1>10, <2>1, MainNext
<1>11. CASE Connect \/ SpawnClient \/ Write \/ Received
  BY <1>1, <1>11, AppNext
<1>12. CASE Listen \/ ListenerCloses \/ Drained
  <2>1. yields' = yields
    BY <1>12 DEF Listen, ListenerCloses, Drained, Finish, vars, Complete, history
  <2> QED
    BY <1>1, <1>12, <2>1, ListenerNext
<1>13. CASE Thread
  <2>1. CASE \E e \in Ends : Start(e) \/ ReadBranch(e) \/ TimerBranch(e) \/ Leave(e)
    BY <1>5, <1>9, <2>1
  <2>2. CASE \E t \in Tasks : Waits(t) \/ Stopped(t)
    BY <1>6, <1>8, <2>2
  <2> QED
    BY <1>3, <1>4, <1>10, <1>11, <1>12, <1>13, <2>1, <2>2 DEF Thread
<1>14. CASE \E t \in Tasks : WakesUp(t) \/ (t \in Ends /\ Day(t))
  BY <1>5, <1>6, <1>14
<1> QED
  BY <1>7, <1>13, <1>14 DEF EchoNext

(* Every step keeps the invariant, and so does every behaviour. *)
LEMMA TestNext ==
  ASSUME EchoProgram, TestInv, [EchoNext]_echovars
  PROVE  TestInv'
<1>1. IInv'
  BY TestSchedules, NextIInv DEF TestInv
<1>2. Flow' /\ Control' /\ Endings'
  BY FlowNext, ControlNext
<1> QED
  BY <1>1, <1>2 DEF TestInv

LEMMA TestInvariant ==
  ASSUME EchoProgram
  PROVE  EchoSpec => []TestInv
<1>1. EchoInit => TestInv
  BY TestInit
<1>2. TestInv /\ [EchoNext]_echovars => TestInv'
  BY TestNext
<1> QED
  BY <1>1, <1>2, PTL DEF EchoSpec

(* The echo test is a program of the executor: each of its steps is one of *)
(* the executor's or leaves the scheduling alone, so what ExecutorProofs   *)
(* shows of every program holds of this one.                               *)
THEOREM EchoIsScheduled ==
  ASSUME EchoProgram
  PROVE  EchoSpec => Spec
<1>1. EchoInit => Init
  BY DEF EchoInit, Init
<1>2. [EchoNext]_echovars => [Next]_vars
  BY TestSchedules
<1> QED
  BY <1>1, <1>2, PTL DEF EchoSpec, Spec

(* In the echo test, for any number of lines and whatever the order in     *)
(* which the executor runs the tasks inside of each other, every line is   *)
(* in one place on its way and in order.                                   *)
THEOREM EchoInOrder ==
  ASSUME EchoProgram
  PROVE  EchoSpec => []LinesInOrder
<1>1. TestInv => LinesInOrder
  <2> SUFFICES ASSUME TestInv PROVE LinesInOrder
    OBVIOUS
  <2>1. Flow /\ Control /\ IInv
    BY DEF TestInv
  <2>2. TypeOK
    BY <2>1 DEF IInv, TypeOK, Polled
  <2>3. count \in [Ends -> 0 .. Bye]
    <3>1. Len(heard) \in 0 .. Bye /\ Len(Returned) \in 0 .. Bye
      BY <2>1, FlowLengths
    <3> QED
      BY <2>1, <3>1 DEF Flow
  <2>4. EchoTypeOK
    BY <2>1, <2>2, <2>3 DEF EchoTypeOK, Flow, Control
  <2>5. heard \o inbox["client"] \o transmits["child"] \o inbox["child"] \o transmits["client"]
          = [i \in 1 .. yields |-> i]
    BY <2>1 DEF Flow, Wire, Returned
  <2> QED
    BY <2>4, <2>5 DEF LinesInOrder
<1> QED
  BY <1>1, TestInvariant, PTL

(* Neither stop loses a line, and run() cuts no task of the server short.  *)
THEOREM EchoLosesNothing ==
  ASSUME EchoProgram
  PROVE  EchoSpec => []NothingLost
<1>1. TestInv => NothingLost
  <2> SUFFICES ASSUME TestInv PROVE NothingLost
    OBVIOUS
  <2>1. Flow /\ Control /\ Endings
    BY DEF TestInv
  <2>2. ASSUME "client" \in done
        PROVE  \A e \in Ends : inbox[e] = <<>> /\ transmits[e] = <<>>
    <3>1. Len(heard) = Bye
      BY <2>1, <2>2, TaskNames DEF Flow
    <3>2. /\ inbox["client"] = <<>> /\ transmits["child"] = <<>>
          /\ inbox["child"] = <<>> /\ transmits["client"] = <<>>
      BY <2>1, <3>1, FlowLengths
    <3> QED
      BY <3>2, TaskNames
  <2>3. \A e \in Ends : closing[e] \/ pc[e] = "over" => inbox[e] = <<>> /\ transmits[e] = <<>>
    BY <2>1, <2>2 DEF Control
  <2>4. pc["main"] \in {"stopping", "over"} => \A e \in Ends : count[e] = Iter + 1
    BY <2>1, TaskNames DEF Control, Flow, Bye
  <2> QED
    BY <2>1, <2>3, <2>4 DEF Endings, NothingLost
<1> QED
  BY <1>1, TestInvariant, PTL
=============================================================================
