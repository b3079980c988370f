------------------------ MODULE UdpConnectionProofs -------------------------
(***************************************************************************)
(* The task of a UDP socket keeps the promise of ConnectionLifecycle to    *)
(* its handlers, and gives them each datagram once, for any batches,       *)
(* coalesced datagrams, errors and queue.                                  *)
(***************************************************************************)
EXTENDS UdpConnection, SequenceTheorems, FiniteSetTheorems, WellFoundedInduction, TLAPS

(* What the handlers have seen at each point of the task. *)
Phase ==
  /\ pc \in {"start", "turn", "timers", "send", "select", "leave", "done"}
  /\ pc = "start" => callback = "none"
  /\ pc \in {"turn", "timers", "send", "select"} => callback \in {"active", "read", "timeout"}
  /\ pc = "leave" => callback \in {"active", "read", "timeout", "eof"}
  /\ pc = "done" => callback = "inactive"

(* The actions that call no handler. *)
Silent == \/ PollTransmit \/ Drained \/ SendOk \/ SendError \/ Wait \/ CloseBranch
          \/ RecvError \/ Others \/ TimePasses \/ UNCHANGED vars

(* A batch of empty datagrams is read without a callback. *)
LEMMA ReadCalls ==
  ASSUME RecvBranch
  PROVE  pc = "select" /\ pc' = "turn" /\ callback' \in {callback, "read"}
BY DEF RecvBranch, Read

LEMMA SilentKeeps == ASSUME Silent PROVE callback' = callback
BY DEF Silent, PollTransmit, Drained, SendOk, SendError, Wait, CloseBranch, RecvError, Others,
       AppWrite, Stop, Trouble, KernelSends, Arrive, TimePasses, vars

LEMMA NextPhase == Phase /\ [Next]_vars => Phase'
<1> SUFFICES ASSUME Phase, [Next]_vars PROVE Phase'
  OBVIOUS
<1> USE DEF Phase
<1>1. CASE Start
  BY <1>1 DEF Start, Callback
<1>2. CASE Expired \/ TimerBranch \/ ZeroBranch
  BY <1>2 DEF Expired, TimerBranch, ZeroBranch, Callback
<1>3. CASE RecvBranch
  BY <1>3, ReadCalls
<1>4. CASE Leave
  BY <1>4 DEF Leave, Callback
<1>5. CASE Silent
  <2>1. callback' = callback
    BY <1>5, SilentKeeps
  <2>2. CASE PollTransmit \/ Drained \/ SendOk \/ SendError \/ Wait \/ CloseBranch \/ RecvError
    BY <2>1, <2>2 DEF PollTransmit, Drained, SendOk, SendError, Wait, CloseBranch, RecvError
  <2>3. CASE Others \/ TimePasses \/ UNCHANGED vars
    <3>1. pc' = pc
      BY <2>3 DEF Others, AppWrite, Stop, Trouble, KernelSends, Arrive, TimePasses, vars
    <3> QED
      BY <2>1, <3>1
  <2> QED
    BY <1>5, <2>2, <2>3 DEF Silent
<1> QED
  BY <1>1, <1>2, <1>3, <1>4, <1>5 DEF Next, Task, Silent

(* A step of the task is a step of the life cycle or leaves it alone. *)
LEMMA StepRefines == Phase /\ [Next]_vars => [Lifecycle!Next]_callback
<1> SUFFICES ASSUME Phase, [Next]_vars PROVE Lifecycle!Next \/ UNCHANGED callback
  OBVIOUS
<1> USE DEF Lifecycle!Next, Lifecycle!Activate, Lifecycle!Deliver, Lifecycle!Deactivate, Phase
<1>1. CASE Start
  BY <1>1 DEF Start, Callback
<1>2. CASE Expired \/ TimerBranch \/ ZeroBranch
  BY <1>2 DEF Expired, TimerBranch, ZeroBranch, Callback
<1>3. CASE RecvBranch
  BY <1>3, ReadCalls
<1>4. CASE Leave
  BY <1>4 DEF Leave, Callback
<1>5. CASE Silent
  BY <1>5, SilentKeeps
<1> QED
  BY <1>1, <1>2, <1>3, <1>4, <1>5 DEF Next, Task, Silent

(* Whatever a recv answers, the handlers of a UDP socket see what the      *)
(* handlers of a TCP connection see: one start, reads and timeouts, one    *)
(* end of file at most, one end (mod.rs:95-181).                           *)
THEOREM UdpLifecycle == Spec => RefinesLifecycle
<1>1. Init => Phase /\ Lifecycle!Init
  BY DEF Init, Phase, Lifecycle!Init
<1> QED
  BY <1>1, NextPhase, StepRefines, PTL DEF Spec, RefinesLifecycle, Lifecycle!Spec

-----------------------------------------------------------------------------
(* Induction, for a set. *)
LEMMA NatSet ==
  ASSUME NEW S, 0 \in S, \A n \in Nat : n \in S => n + 1 \in S
  PROVE  Nat \subseteq S
<1> DEFINE R == {ss \in Nat \X Nat : ss[1] < ss[2]}
<1>1. IsWellFoundedOn(R, Nat)
  BY NatLessThanWellFounded DEF OpToRel
<1> SUFFICES ASSUME Nat \ S # {} PROVE FALSE
  OBVIOUS
<1>2. PICK x \in Nat \ S : \A y \in Nat \ S : ~(<<y, x>> \in R)
  <2> HIDE DEF R
  <2> QED
    BY <1>1, WFMin
<1>3. \A y \in Nat \ S : ~(y < x)
  BY <1>2
<1>4. x # 0 /\ x - 1 \in Nat /\ x - 1 < x /\ (x - 1) + 1 = x
  OBVIOUS
<1>5. x - 1 \in S
  BY <1>3, <1>4
<1> QED
  BY <1>4, <1>5

(* FlattenSeq puts one sequence behind the other. *)
LEMMA FlattenIs ==
  ASSUME NEW S, NEW n \in Nat \ {0}, NEW q \in [1 .. n -> Seq(S)]
  PROVE  \E f : /\ \A i \in 1 .. n : f[i] = IF i = 1 THEN q[i] ELSE f[i - 1] \o q[i]
                /\ FlattenSeq(q) = f[n]
<1> DEFINE Flat(f, m) == f = [i \in 1 .. m |-> IF i = 1 THEN q[i] ELSE f[i - 1] \o q[i]]
           T == {m \in Nat : \E f : Flat(f, m)}
<1>1. 0 \in T
  <2>1. Flat(<<>>, 0)
    OBVIOUS
  <2> QED
    BY <2>1
<1>2. ASSUME NEW m \in Nat, m \in T PROVE m + 1 \in T
  <2>1. PICK f : Flat(f, m)
    BY <1>2
  <2> DEFINE g == [i \in 1 .. m + 1 |-> IF i = 1 THEN q[i] ELSE f[i - 1] \o q[i]]
  <2>2. ASSUME NEW i \in 1 .. m PROVE g[i] = f[i]
    <3>1. i \in 1 .. m + 1 /\ \A j \in 1 .. m : f[j] = IF j = 1 THEN q[j] ELSE f[j - 1] \o q[j]
      <4> DEFINE h == [j \in 1 .. m |-> IF j = 1 THEN q[j] ELSE f[j - 1] \o q[j]]
      <4>1. f = h
        BY <2>1
      <4>2. \A j \in 1 .. m : h[j] = IF j = 1 THEN q[j] ELSE f[j - 1] \o q[j]
        OBVIOUS
      <4>3. \A j \in 1 .. m : f[j] = IF j = 1 THEN q[j] ELSE f[j - 1] \o q[j]
        <5> HIDE DEF h
        <5> QED
          BY <4>1, <4>2
      <4> QED
        BY <4>3
    <3> QED
      BY <3>1
  <2>3. ASSUME NEW i \in 1 .. m + 1, i # 1 PROVE g[i - 1] = f[i - 1]
    <3>1. i - 1 \in 1 .. m
      BY <2>3
    <3> QED
      BY <2>2, <3>1
  <2>4. Flat(g, m + 1)
    BY <2>3
  <2> HIDE DEF Flat, g
  <2> QED
    BY <2>4
<1>3. PICK f : Flat(f, n)
  <2> HIDE DEF T
  <2>1. n \in T
    BY <1>1, <1>2, NatSet
  <2> QED
    BY <2>1 DEF T
<1>4. Len(q) = n /\ n # 0
  OBVIOUS
<1> DEFINE F == CHOOSE g : Flat(g, n)
<1>5. Flat(F, n)
  BY <1>3
<1>6. FlattenSeq(q) = F[n]
  BY <1>4 DEF FlattenSeq
<1>7. \A i \in 1 .. n : F[i] = IF i = 1 THEN q[i] ELSE F[i - 1] \o q[i]
  <2> DEFINE h == [i \in 1 .. n |-> IF i = 1 THEN q[i] ELSE F[i - 1] \o q[i]]
  <2> HIDE DEF F
  <2>1. F = h
    BY <1>5
  <2>2. \A i \in 1 .. n : h[i] = IF i = 1 THEN q[i] ELSE F[i - 1] \o q[i]
    OBVIOUS
  <2> HIDE DEF h
  <2> QED
    BY <2>1, <2>2
<1> QED
  BY <1>6, <1>7

-----------------------------------------------------------------------------
(* Increasing sequences of numbers, and what is in them. *)
Increasing(s) == \A j, k \in DOMAIN s : j < k => s[j] < s[k]
Has(s, x) == \E j \in DOMAIN s : s[j] = x
Below(s, t) == \A j \in DOMAIN s, k \in DOMAIN t : s[j] < t[k]

(* A concatenation has what its parts have, and increases if they do and *)
(* the first is below the second.                                        *)
LEMMA ConcatHas ==
  ASSUME NEW S, NEW s \in Seq(S), NEW t \in Seq(S)
  PROVE  \A x : Has(s \o t, x) <=> Has(s, x) \/ Has(t, x)
<1> DEFINE m == Len(s)  n == Len(t)  u == s \o t
<1>1. /\ m \in Nat /\ n \in Nat /\ DOMAIN s = 1 .. m /\ DOMAIN t = 1 .. n /\ DOMAIN u = 1 .. m + n
      /\ \A j \in 1 .. m : u[j] = s[j]
      /\ \A j \in 1 .. n : u[m + j] = t[j]
  OBVIOUS
<1> HIDE DEF m, n, u
<1>2. ASSUME NEW x, Has(u, x) PROVE Has(s, x) \/ Has(t, x)
  <2>1. PICK j \in 1 .. m + n : u[j] = x
    BY <1>1, <1>2 DEF Has
  <2>2. CASE j <= m
    <3>1. j \in 1 .. m
      BY <1>1, <2>2
    <3> QED
      BY <1>1, <2>1, <3>1 DEF Has
  <2>3. CASE ~(j <= m)
    <3>1. j - m \in 1 .. n /\ m + (j - m) = j
      BY <1>1, <2>3
    <3>2. t[j - m] = x
      BY <1>1, <2>1, <3>1
    <3> QED
      BY <1>1, <3>1, <3>2 DEF Has
  <2> QED
    BY <2>2, <2>3
<1>3. ASSUME NEW x, Has(s, x) PROVE Has(u, x)
  <2>1. PICK j \in 1 .. m : s[j] = x
    BY <1>1, <1>3 DEF Has
  <2>2. j \in 1 .. m + n
    BY <1>1
  <2> QED
    BY <1>1, <2>1, <2>2 DEF Has
<1>4. ASSUME NEW x, Has(t, x) PROVE Has(u, x)
  <2>1. PICK j \in 1 .. n : t[j] = x
    BY <1>1, <1>4 DEF Has
  <2>2. m + j \in 1 .. m + n
    BY <1>1
  <2> QED
    BY <1>1, <2>1, <2>2 DEF Has
<1> QED
  BY <1>2, <1>3, <1>4 DEF u

LEMMA ConcatIncreasing ==
  ASSUME NEW S \in SUBSET Int, NEW s \in Seq(S), NEW t \in Seq(S)
  PROVE  Increasing(s \o t) <=> Increasing(s) /\ Increasing(t) /\ Below(s, t)
<1> DEFINE m == Len(s)  n == Len(t)  u == s \o t
<1>1. /\ m \in Nat /\ n \in Nat /\ DOMAIN s = 1 .. m /\ DOMAIN t = 1 .. n /\ DOMAIN u = 1 .. m + n
      /\ \A j \in 1 .. m : u[j] = s[j]
      /\ \A j \in 1 .. n : u[m + j] = t[j]
  OBVIOUS
<1> HIDE DEF m, n, u
<1>2. ASSUME Increasing(u) PROVE Increasing(s) /\ Increasing(t) /\ Below(s, t)
  <2>1. ASSUME NEW j \in 1 .. m, NEW k \in 1 .. m, j < k PROVE s[j] < s[k]
    <3>1. j \in 1 .. m + n /\ k \in 1 .. m + n
      BY <1>1
    <3> QED
      BY <1>1, <1>2, <2>1, <3>1 DEF Increasing
  <2>2. ASSUME NEW j \in 1 .. n, NEW k \in 1 .. n, j < k PROVE t[j] < t[k]
    <3>1. m + j \in 1 .. m + n /\ m + k \in 1 .. m + n /\ m + j < m + k
      BY <1>1, <2>2
    <3>2. u[m + j] < u[m + k]
      BY <1>1, <1>2, <3>1 DEF Increasing
    <3> QED
      BY <1>1, <3>2
  <2>3. ASSUME NEW j \in 1 .. m, NEW k \in 1 .. n PROVE s[j] < t[k]
    <3>1. j \in 1 .. m + n /\ m + k \in 1 .. m + n /\ j < m + k
      BY <1>1
    <3>2. u[j] < u[m + k]
      BY <1>1, <1>2, <3>1 DEF Increasing
    <3> QED
      BY <1>1, <3>2
  <2> QED
    BY <1>1, <2>1, <2>2, <2>3 DEF Increasing, Below
<1>3. ASSUME Increasing(s), Increasing(t), Below(s, t) PROVE Increasing(u)
  <2> SUFFICES ASSUME NEW j \in 1 .. m + n, NEW k \in 1 .. m + n, j < k PROVE u[j] < u[k]
    BY <1>1 DEF Increasing
  <2>1. CASE j \in 1 .. m /\ k \in 1 .. m
    BY <1>1, <1>3, <2>1 DEF Increasing
  <2>2. CASE j \in 1 .. m /\ k - m \in 1 .. n
    <3>1. m + (k - m) = k
      BY <1>1
    <3>2. u[k] = t[k - m] /\ u[j] = s[j] /\ s[j] < t[k - m]
      BY <1>1, <1>3, <2>2, <3>1 DEF Below
    <3> QED
      BY <3>2
  <2>3. CASE j - m \in 1 .. n /\ k - m \in 1 .. n
    <3>1. m + (k - m) = k /\ m + (j - m) = j /\ j - m < k - m
      BY <1>1
    <3>2. u[k] = t[k - m] /\ u[j] = t[j - m] /\ t[j - m] < t[k - m]
      BY <1>1, <1>3, <2>3, <3>1 DEF Increasing
    <3> QED
      BY <3>2
  <2>4. (j \in 1 .. m \/ j - m \in 1 .. n) /\ (k \in 1 .. m \/ k - m \in 1 .. n)
    BY <1>1
  <2>5. ~(j - m \in 1 .. n /\ k \in 1 .. m)
    BY <1>1
  <2> QED
    BY <2>1, <2>2, <2>3, <2>4, <2>5
<1> QED
  BY <1>2, <1>3 DEF u

(* A part of an increasing sequence: p is what s has after its first a       *)
(* elements and up to the b-th.                                              *)
IsPart(p, s, a, b) ==
  /\ Increasing(p) /\ Len(p) = b - a
  /\ \A x : Has(p, x) <=> \E j \in a + 1 .. b : s[j] = x

LEMMA PartIncreasing ==
  ASSUME NEW S \in SUBSET Int, NEW s \in Seq(S), NEW a \in Nat, NEW b \in Nat,
         Increasing(s), a <= b, b <= Len(s)
  PROVE  SubSeq(s, a + 1, b) \in Seq(S) /\ IsPart(SubSeq(s, a + 1, b), s, a, b)
<1> DEFINE p == SubSeq(s, a + 1, b)  n == Len(s)
<1>1. n \in Nat /\ DOMAIN s = 1 .. n /\ b <= n
  OBVIOUS
<1>2. p \in Seq(S) /\ Len(p) = b - a /\ DOMAIN p = 1 .. b - a /\ \A k \in 1 .. b - a : p[k] = s[a + k]
  <2>1. \A k \in a + 1 .. b : k \in 1 .. n
    BY <1>1
  <2>2. \A k \in a + 1 .. b : s[k] \in S
    BY <1>1, <2>1
  <2>3. IF a + 1 <= b THEN b - (a + 1) + 1 = b - a ELSE b - a = 0
    OBVIOUS
  <2>4. p \in Seq(S) /\ Len(p) = b - a
    BY <1>1, <2>2, <2>3, SubSeqProperties
  <2>5. \A k \in 1 .. b - a : p[k] = s[a + k]
    BY <1>1, <2>1
  <2> QED
    BY <2>4, <2>5
<1> HIDE DEF p, n
<1>3. ASSUME NEW k \in 1 .. b - a
      PROVE  k + a \in a + 1 .. b /\ k + a \in 1 .. n /\ p[k] = s[k + a]
  <2>1. k + a = a + k
    OBVIOUS
  <2> QED
    BY <1>1, <1>2, <2>1
<1>4. Increasing(p)
  <2> SUFFICES ASSUME NEW j \in 1 .. b - a, NEW k \in 1 .. b - a, j < k PROVE p[j] < p[k]
    BY <1>2 DEF Increasing
  <2>1. j + a < k + a /\ j + a \in 1 .. n /\ k + a \in 1 .. n
    BY <1>1
  <2> QED
    BY <1>1, <1>3, <2>1 DEF Increasing
<1>5. ASSUME NEW x PROVE Has(p, x) <=> \E j \in a + 1 .. b : s[j] = x
  <2>1. ASSUME NEW j \in a + 1 .. b, s[j] = x PROVE Has(p, x)
    <3>1. j - a \in 1 .. b - a /\ (j - a) + a = j
      OBVIOUS
    <3> QED
      BY <1>2, <1>3, <2>1, <3>1 DEF Has
  <2> QED
    BY <1>2, <1>3, <2>1 DEF Has
<1>6. p \in Seq(S) /\ IsPart(p, s, a, b)
  BY <1>2, <1>4, <1>5 DEF IsPart
<1> QED
  BY <1>6, Zenon DEF p

-----------------------------------------------------------------------------
(* What one recv reads. *)
ReadBuffers(n) == [k \in 1 .. n |-> IF k \in FullMetas(n) THEN metas'[k] ELSE <<>>]

(* A buffer gives the datagrams it was filled with that are not empty. *)
LEMMA BufferGives ==
  ASSUME TypeOK, Increasing(inbox), NEW n \in 1 .. BatchSize, NEW ends \in Cuts(n), Filled(n, ends),
         NEW k \in 1 .. n
  PROVE  LET q == ReadBuffers(n)[k]
         IN  /\ metas'[k] \in Seq(1 .. Len(arrived))
             /\ q \in Seq(1 .. Len(arrived)) /\ Increasing(q)
             /\ \A x : Has(q, x) <=> \E j \in ends[k - 1] + 1 .. ends[k] : inbox[j] = x /\ ~arrived[x]
<1> DEFINE S == 1 .. Len(arrived)  a == ends[k - 1]  b == ends[k]  d == Piece(ends, k)
           q == ReadBuffers(n)[k]
<1>1. /\ n \in Nat /\ BatchSize \in Nat /\ k \in 1 .. BatchSize /\ metas'[k] = d /\ Coalesced(d)
  <2>1. n \in Nat /\ BatchSize \in Nat /\ k \in 1 .. BatchSize /\ k <= n
    BY UdpAssumption
  <2> QED
    BY <2>1 DEF Filled
<1>2. a \in Nat /\ b \in Nat /\ a < b /\ b <= Len(inbox) /\ S \in SUBSET Int /\ inbox \in Seq(S)
  <2>1. Len(inbox) \in Nat /\ inbox \in Seq(S)
    BY DEF TypeOK
  <2>2. k \in 0 .. n /\ k - 1 \in 0 .. n
    BY <1>1
  <2>3. a \in 0 .. Len(inbox) /\ b \in 0 .. Len(inbox) /\ a < b
    BY <2>2 DEF Cuts
  <2> QED
    BY <2>1, <2>3
<1>3. d = SubSeq(inbox, a + 1, b)
  BY DEF Piece
<1>4. q = IF Full(d) THEN d ELSE <<>>
  BY <1>1 DEF ReadBuffers, FullMetas
<1> HIDE DEF S, a, b, d, q
<1>5. /\ d \in Seq(S) /\ Increasing(d) /\ Len(d) = b - a
      /\ \A x : Has(d, x) <=> \E j \in a + 1 .. b : inbox[j] = x
  <2>1. a <= b /\ Increasing(inbox)
    BY <1>2
  <2>2. d \in Seq(S) /\ IsPart(d, inbox, a, b)
    BY <1>2, <1>3, <2>1, PartIncreasing, Zenon
  <2> QED
    BY <2>2 DEF IsPart
<1>6. CASE Full(d)
  <2>1. \A i \in DOMAIN d : ~arrived[d[i]]
    <3>1. CASE Len(d) > 1
      BY <1>1, <3>1 DEF Coalesced
    <3>2. CASE ~(Len(d) > 1)
      <4>1. DOMAIN d = 1 .. Len(d) /\ Len(d) = 1
        BY <1>2, <1>5, <3>2
      <4> QED
        BY <1>6, <4>1 DEF Full
    <3> QED
      BY <3>1, <3>2
  <2>2. \A x : Has(d, x) => ~arrived[x]
    BY <2>1 DEF Has
  <2> QED
    BY <1>1, <1>4, <1>5, <1>6, <2>2 DEF S, a, b, q
<1>7. CASE ~Full(d)
  <2>1. \A x : Has(d, x) => arrived[x]
    BY <1>7 DEF Full, Has
  <2>2. q = <<>>
    BY <1>4, <1>7
  <2>3. q \in Seq(S) /\ Increasing(q) /\ \A x : ~Has(q, x)
    BY <2>2 DEF Increasing, Has
  <2>4. \A x : ~\E j \in a + 1 .. b : inbox[j] = x /\ ~arrived[x]
    BY <1>5, <2>1
  <2>5. metas'[k] \in Seq(S)
    BY <1>1, <1>5
  <2> QED
    BY <2>3, <2>4, <2>5 DEF S, a, b, q
<1> QED
  BY <1>6, <1>7

(* All n of them give what they took out of the inbox and is not empty. *)
LEMMA BatchGives ==
  ASSUME TypeOK, Increasing(inbox), NEW n \in 1 .. BatchSize, NEW ends \in Cuts(n), Filled(n, ends)
  PROVE  LET f == FlattenSeq(ReadBuffers(n))
         IN  /\ f \in Seq(1 .. Len(arrived)) /\ Increasing(f)
             /\ \A x : Has(f, x) <=> \E j \in 1 .. ends[n] : inbox[j] = x /\ ~arrived[x]
<1> DEFINE S == 1 .. Len(arrived)  q == ReadBuffers(n)
<1>1. /\ n \in Nat \ {0} /\ Len(inbox) \in Nat /\ S \in SUBSET Int /\ inbox \in Seq(S)
      /\ DOMAIN inbox = 1 .. Len(inbox)
  BY UdpAssumption DEF TypeOK
<1>2. ASSUME NEW k \in 0 .. n PROVE ends[k] \in Nat /\ ends[k] <= Len(inbox)
  BY <1>1 DEF Cuts
<1>3. ends[0] = 0 /\ \A k \in 1 .. n : ends[k - 1] < ends[k]
  BY DEF Cuts
<1>4. ASSUME NEW k \in 1 .. n
      PROVE  /\ q[k] \in Seq(S) /\ Increasing(q[k])
             /\ \A x : Has(q[k], x) <=>
                  \E j \in ends[k - 1] + 1 .. ends[k] : inbox[j] = x /\ ~arrived[x]
  BY BufferGives
<1>5. q \in [1 .. n -> Seq(S)]
  BY <1>4 DEF ReadBuffers
<1> HIDE DEF S, q
<1>6. PICK f : /\ \A i \in 1 .. n : f[i] = IF i = 1 THEN q[i] ELSE f[i - 1] \o q[i]
               /\ FlattenSeq(q) = f[n]
  BY <1>1, <1>5, FlattenIs
<1> DEFINE Good(k) == /\ f[k] \in Seq(S) /\ Increasing(f[k])
                      /\ \A x : Has(f[k], x) <=> \E j \in 1 .. ends[k] : inbox[j] = x /\ ~arrived[x]
           T == {m \in Nat : m + 1 \in 1 .. n => Good(m + 1)}
<1>7. Good(1)
  <2>1. 1 \in 1 .. n /\ 1 - 1 = 0 /\ 0 + 1 = 1
    BY <1>1
  <2>2. f[1] = q[1] /\ ends[1 - 1] + 1 = 1
    BY <1>3, <1>6, <2>1
  <2> QED
    BY <1>4, <2>1, <2>2
<1>8. ASSUME NEW k \in 1 .. n, k + 1 \in 1 .. n, Good(k) PROVE Good(k + 1)
  <2> DEFINE a == ends[k]  b == ends[k + 1]  s == f[k]  t == q[k + 1]
  <2>1. (k + 1) - 1 = k /\ k + 1 # 1 /\ k \in 0 .. n /\ k + 1 \in 0 .. n
    BY <1>1, <1>8
  <2>2. /\ f[k + 1] = s \o t /\ a \in Nat /\ b \in Nat /\ a < b /\ b <= Len(inbox)
    BY <1>2, <1>3, <1>6, <1>8, <2>1
  <2>3. /\ t \in Seq(S) /\ Increasing(t)
        /\ \A x : Has(t, x) <=> \E j \in a + 1 .. b : inbox[j] = x /\ ~arrived[x]
    BY <1>4, <1>8, <2>1
  <2>4. /\ s \in Seq(S) /\ Increasing(s)
        /\ \A x : Has(s, x) <=> \E j \in 1 .. a : inbox[j] = x /\ ~arrived[x]
    BY <1>8
  <2> HIDE DEF a, b, s, t, Good
  <2>5. Below(s, t)
    <3> SUFFICES ASSUME NEW i \in DOMAIN s, NEW j \in DOMAIN t PROVE s[i] < t[j]
      BY DEF Below
    <3>1. Has(s, s[i]) /\ Has(t, t[j])
      BY DEF Has
    <3>2. PICK i0 \in 1 .. a : inbox[i0] = s[i]
      BY <2>4, <3>1
    <3>3. PICK j0 \in a + 1 .. b : inbox[j0] = t[j]
      BY <2>3, <3>1
    <3>4. i0 \in 1 .. Len(inbox) /\ j0 \in 1 .. Len(inbox) /\ i0 < j0
      BY <1>1, <2>2
    <3>5. inbox[i0] < inbox[j0]
      BY <1>1, <3>4 DEF Increasing
    <3> QED
      BY <3>2, <3>3, <3>5
  <2>6. s \o t \in Seq(S) /\ Increasing(s \o t)
    BY <1>1, <2>3, <2>4, <2>5, ConcatIncreasing
  <2>7. \A x : Has(s \o t, x) <=> \E j \in 1 .. b : inbox[j] = x /\ ~arrived[x]
    <3>1. \A x : Has(s \o t, x) <=> Has(s, x) \/ Has(t, x)
      BY <2>3, <2>4, ConcatHas
    <3>2. \A j \in 1 .. b : j \in 1 .. a \/ j \in a + 1 .. b
      BY <2>2
    <3>3. \A j \in 1 .. a : j \in 1 .. b
      BY <2>2
    <3>4. \A j \in a + 1 .. b : j \in 1 .. b
      BY <2>2
    <3> QED
      BY <2>3, <2>4, <3>1, <3>2, <3>3, <3>4
  <2> QED
    BY <2>2, <2>6, <2>7 DEF Good, b
<1> HIDE DEF Good
<1>9. 0 \in T
  BY <1>7
<1>10. ASSUME NEW m \in Nat, m \in T PROVE m + 1 \in T
  <2> SUFFICES ASSUME (m + 1) + 1 \in 1 .. n PROVE Good((m + 1) + 1)
    OBVIOUS
  <2>1. m + 1 \in 1 .. n
    BY <1>1
  <2> QED
    BY <1>8, <1>10, <2>1
<1> HIDE DEF T
<1>11. n - 1 \in T
  <2>1. n - 1 \in Nat
    BY <1>1
  <2> QED
    BY <1>9, <1>10, <2>1, NatSet
<1>12. Good(n)
  <2>1. (n - 1) + 1 = n /\ n \in 1 .. n
    BY <1>1
  <2> QED
    BY <1>11, <2>1 DEF T
<1> QED
  BY <1>6, <1>12 DEF Good, S, q

-----------------------------------------------------------------------------
(* The datagrams, where they are.  *)
Datagrams ==
  /\ Increasing(delivered \o inbox)
  /\ \A i \in 1 .. Len(arrived) : ~arrived[i] => Has(delivered \o inbox, i)
  /\ \A x : Has(delivered, x) => ~arrived[x]

LEMMA DeliveredOnceIs == DeliveredOnce <=> TypeOK /\ Datagrams
<1>1. (\A j \in DOMAIN delivered : ~arrived[delivered[j]]) <=> \A x : Has(delivered, x) => ~arrived[x]
  BY DEF Has
<1> QED
  BY <1>1 DEF DeliveredOnce, Datagrams, Increasing, Has

(* Writing keeps the queue's type. *)
LEMMA PushTyped ==
  ASSUME TypeOK, NEW n \in Nat, Push(n)
  PROVE  transmits' \in Seq(Messages) /\ written' \in 0 .. MaxWrites
<1>1. MaxWrites \in Nat /\ written \in 0 .. MaxWrites /\ transmits \in Seq(Messages)
  BY UdpAssumption DEF TypeOK
<1>2. PICK w \in 0 .. Smaller(n, MaxWrites - written) :
        written' = written + w /\ transmits' = transmits \o [i \in 1 .. w |-> written + i]
  BY DEF Push
<1>3. w \in Nat /\ w <= MaxWrites - written
  BY <1>1, <1>2 DEF Smaller
<1>4. [i \in 1 .. w |-> written + i] \in Seq(Messages)
  <2>1. \A i \in 1 .. w : written + i \in Messages
    BY <1>1, <1>3 DEF Messages
  <2> QED
    BY <1>3, <2>1
<1> QED
  BY <1>1, <1>2, <1>3, <1>4

(* A sequence over a set is one over a larger set. *)
LEMMA WiderSeq ==
  ASSUME NEW S, NEW T, S \subseteq T, NEW s \in Seq(S)
  PROVE  s \in Seq(T)
OBVIOUS

LEMMA InitDelivered == Init => TypeOK /\ Datagrams
<1> SUFFICES ASSUME Init PROVE TypeOK /\ Datagrams
  OBVIOUS
<1>1. /\ delivered = <<>> /\ inbox = <<>> /\ arrived = <<>> /\ Len(arrived) = 0 /\ transmits = <<>>
      /\ wire = <<>> /\ delivered \o inbox = <<>>
  BY DEF Init
<1>2. Datagrams
  BY <1>1 DEF Datagrams, Increasing, Has
<1>3. /\ metas \in [1 .. BatchSize -> Seq(1 .. Len(arrived))] /\ credit \in 0 .. SendBuf
      /\ 0 \in 0 .. MaxWrites
  BY <1>1, UdpAssumption DEF Init
<1>4. /\ pc = "start" /\ current = None /\ pending = FALSE /\ closing = FALSE /\ written = 0
      /\ deadline = "none" /\ callback = "none"
  BY DEF Init
<1>5. /\ inbox \in Seq(1 .. Len(arrived)) /\ delivered \in Seq(1 .. Len(arrived))
      /\ arrived \in Seq(BOOLEAN) /\ transmits \in Seq(Messages)
      /\ wire \in Seq([msg : Messages, ok : BOOLEAN]) /\ Len(arrived) <= MaxArrivals
  BY <1>1, UdpAssumption
<1>6. TypeOK
  BY <1>3, <1>4, <1>5 DEF TypeOK, Deadlines
<1> QED
  BY <1>2, <1>6

(* The steps that move no datagram. *)
Elsewhere == \/ Start \/ PollTransmit \/ Drained \/ SendOk \/ SendError \/ Expired \/ Wait
             \/ CloseBranch \/ TimerBranch \/ ZeroBranch \/ RecvError \/ Leave
             \/ AppWrite \/ Stop \/ Trouble \/ KernelSends \/ TimePasses \/ UNCHANGED vars

LEMMA ElsewhereKeeps ==
  ASSUME TypeOK, Datagrams, Elsewhere
  PROVE  TypeOK' /\ Datagrams'
<1>1. UNCHANGED <<inbox, arrived, metas, delivered>>
  BY DEF Elsewhere, Start, PollTransmit, Drained, SendOk, SendError, Expired, Wait, CloseBranch,
         TimerBranch, ZeroBranch, RecvError, Leave, AppWrite, Stop, Trouble, KernelSends, TimePasses,
         vars, socket, reads, queue
<1>2. Datagrams'
  BY <1>1 DEF Datagrams
<1> USE UdpAssumption DEF socket, reads, queue
<1>3. CASE Start \/ Expired \/ TimerBranch \/ ZeroBranch \/ Leave
  <2>1. Push(1) /\ UNCHANGED <<current, credit, pending, closing, wire>>
    BY <1>3 DEF Start, Expired, TimerBranch, ZeroBranch, Leave, Callback
  <2>2. transmits' \in Seq(Messages) /\ written' \in 0 .. MaxWrites
    BY <2>1, PushTyped
  <2>3. /\ deadline' \in Deadlines
        /\ callback' \in {"none", "active", "read", "timeout", "eof", "inactive"}
        /\ pc' \in {"turn", "leave", "done"} /\ pc # "send"
    BY <1>3 DEF Start, Expired, TimerBranch, ZeroBranch, Leave, Callback, TypeOK
  <2> QED
    BY <1>1, <1>2, <2>1, <2>2, <2>3 DEF TypeOK
<1>4. CASE PollTransmit
  <2>1. transmits \in Seq(Messages) /\ transmits # <<>>
    BY <1>4 DEF PollTransmit, TypeOK
  <2>2. Head(transmits) \in Messages /\ Tail(transmits) \in Seq(Messages)
    BY <2>1
  <2>3. current' # None
    BY <1>4, <2>2 DEF PollTransmit, Messages
  <2> QED
    BY <1>1, <1>2, <1>4, <2>2, <2>3 DEF PollTransmit, TypeOK
<1>5. CASE SendOk \/ SendError
  <2>1. current \in Messages /\ wire \in Seq([msg : Messages, ok : BOOLEAN])
    BY <1>5 DEF SendOk, SendError, TypeOK
  <2>2. \A b \in BOOLEAN : Append(wire, [msg |-> current, ok |-> b]) \in Seq([msg : Messages, ok : BOOLEAN])
    BY <2>1
  <2>3. wire' \in Seq([msg : Messages, ok : BOOLEAN])
    BY <1>5, <2>2 DEF SendOk, SendError
  <2>4. credit' \in 0 .. SendBuf /\ pending' \in BOOLEAN
    <3>1. credit \in 0 .. SendBuf /\ SendBuf \in Nat /\ pending \in BOOLEAN
      BY DEF TypeOK
    <3>2. CASE SendOk
      BY <3>1, <3>2 DEF SendOk
    <3>3. CASE SendError
      BY <3>1, <3>3 DEF SendError
    <3> QED
      BY <1>5, <3>2, <3>3
  <2>5. current' = None /\ pc' \in {"turn", "timers"} /\ UNCHANGED <<queue, deadline, closing, callback>>
    BY <1>5 DEF SendOk, SendError
  <2> QED
    BY <1>1, <1>2, <2>3, <2>4, <2>5 DEF TypeOK
<1>6. CASE AppWrite
  <2>1. /\ written \in 0 .. MaxWrites /\ written < MaxWrites /\ transmits \in Seq(Messages)
        /\ written' = written + 1 /\ transmits' = Append(transmits, written + 1)
    BY <1>6 DEF AppWrite, TypeOK
  <2>2. written + 1 \in Messages /\ written' \in 0 .. MaxWrites
    BY <2>1 DEF Messages
  <2>3. transmits' \in Seq(Messages)
    BY <2>1, <2>2
  <2> QED
    BY <1>1, <1>2, <1>6, <2>2, <2>3 DEF AppWrite, TypeOK
<1>7. CASE Drained \/ Wait \/ CloseBranch \/ RecvError
  BY <1>1, <1>2, <1>7 DEF Drained, Wait, CloseBranch, RecvError, TypeOK
<1>8. CASE KernelSends
  BY <1>1, <1>2, <1>8 DEF KernelSends, TypeOK
<1>9. CASE TimePasses
  BY <1>1, <1>2, <1>9 DEF TimePasses, TypeOK, Deadlines
<1>10. CASE Stop \/ Trouble \/ UNCHANGED vars
  BY <1>1, <1>2, <1>10 DEF Stop, Trouble, vars, TypeOK
<1> QED
  BY <1>3, <1>4, <1>5, <1>6, <1>7, <1>8, <1>9, <1>10 DEF Elsewhere

(* A datagram that arrives has the greatest number. *)
LEMMA ArriveKeeps ==
  ASSUME TypeOK, Datagrams, NEW e \in BOOLEAN, Arrive(e)
  PROVE  TypeOK' /\ Datagrams'
<1> DEFINE n == Len(arrived)
<1>1. /\ arrived \in Seq(BOOLEAN) /\ n \in Nat /\ n < MaxArrivals /\ MaxArrivals \in Nat
      /\ inbox \in Seq(1 .. n) /\ delivered \in Seq(1 .. n)
      /\ metas \in [1 .. BatchSize -> Seq(1 .. n)] /\ 1 .. n \subseteq 1 .. n + 1
      /\ inbox' = Append(inbox, n + 1) /\ arrived' = Append(arrived, e)
      /\ UNCHANGED <<delivered, metas>>
  BY UdpAssumption DEF TypeOK, Arrive, reads
<1>2. /\ arrived' \in Seq(BOOLEAN) /\ Len(arrived') = n + 1 /\ arrived'[n + 1] = e
      /\ \A i \in 1 .. n : arrived'[i] = arrived[i]
  BY <1>1
<1> HIDE DEF n
<1>3. /\ inbox \in Seq(1 .. n + 1) /\ delivered \in Seq(1 .. n + 1)
      /\ metas \in [1 .. BatchSize -> Seq(1 .. n + 1)]
  <2>1. \A s : s \in Seq(1 .. n) => s \in Seq(1 .. n + 1)
    BY <1>1, WiderSeq
  <2> QED
    BY <1>1, <2>1
<1>4. n + 1 \in 1 .. n + 1 /\ inbox' \in Seq(1 .. n + 1)
  BY <1>1, <1>3
<1>5. TypeOK'
  BY <1>1, <1>2, <1>3, <1>4 DEF TypeOK, Arrive, queue, reads
<1> DEFINE all == delivered \o inbox  one == <<n + 1>>
<1>6. all \in Seq(1 .. n) /\ one \in Seq(1 .. n + 1) /\ all \in Seq(1 .. n + 1)
  BY <1>1, <1>3, <1>4
<1>7. (delivered \o inbox)' = all \o one
  <2>1. delivered \o Append(inbox, n + 1) = (delivered \o inbox) \o <<n + 1>>
    BY <1>3, <1>4, ConcatAssociative, AppendIsConcat
  <2> QED
    BY <1>1, <2>1
<1>8. \A x : Has(one, x) <=> x = n + 1
  BY DEF Has
<1>9. \A x : Has(all \o one, x) <=> Has(all, x) \/ x = n + 1
  <2> HIDE DEF all, one
  <2> QED
    BY <1>6, <1>8, ConcatHas
<1>10. Increasing(all \o one)
  <2>1. Increasing(one)
    BY <1>1 DEF Increasing
  <2>2. Below(all, one)
    <3>1. \A k \in DOMAIN one : one[k] = n + 1
      OBVIOUS
    <3> HIDE DEF all, one
    <3>2. \A j \in DOMAIN all : all[j] \in 1 .. n
      <4> DEFINE T == 1 .. n
      <4>1. all \in Seq(T)
        BY <1>6
      <4> HIDE DEF T
      <4>2. \A j \in DOMAIN all : all[j] \in T
        BY <4>1
      <4> QED
        BY <4>2 DEF T
    <3> QED
      BY <1>1, <3>1, <3>2 DEF Below
  <2>3. Increasing(all)
    BY DEF Datagrams
  <2>4. 1 .. n + 1 \in SUBSET Int
    BY <1>1
  <2> HIDE DEF all, one
  <2> QED
    BY <1>6, <2>1, <2>2, <2>3, <2>4, ConcatIncreasing
<1>11. Datagrams'
  <2>1. ASSUME NEW i \in 1 .. n + 1, ~arrived'[i] PROVE Has(all \o one, i)
    <3>1. CASE i = n + 1
      BY <1>9, <3>1
    <3>2. CASE i # n + 1
      <4>1. i \in 1 .. n
        BY <1>1, <3>2
      <4>2. Has(all, i)
        BY <1>2, <2>1, <4>1 DEF Datagrams, n
      <4> QED
        BY <1>9, <4>2
    <3> QED
      BY <3>1, <3>2
  <2>2. ASSUME NEW x, Has(delivered, x) PROVE ~arrived'[x]
    <3>1. x \in 1 .. n
      BY <1>1, <2>2 DEF Has
    <3> QED
      BY <1>2, <2>2, <3>1 DEF Datagrams
  <2>3. \A x : Has(delivered, x)' <=> Has(delivered, x)
    BY <1>1 DEF Has
  <2> HIDE DEF all, one
  <2> QED
    BY <1>1, <1>2, <1>7, <1>10, <2>1, <2>2 DEF Datagrams, Has
<1> QED
  BY <1>5, <1>11

(* A batch moves the head of the inbox to the handlers. *)
LEMMA RecvKeeps ==
  ASSUME TypeOK, Datagrams, RecvBranch
  PROVE  TypeOK' /\ Datagrams'
<1> DEFINE S == 1 .. Len(arrived)  l == Len(inbox)
<1>0. PICK n \in 1 .. BatchSize : \E ends \in Cuts(n) : Filled(n, ends) /\ Read(n)
  BY DEF RecvBranch
<1>1. PICK ends \in Cuts(n) : Filled(n, ends) /\ Read(n)
  BY <1>0
<1>2. /\ pc = "select" /\ pc' = "turn" /\ UNCHANGED <<current, credit, pending, arrived, closing, wire>>
  BY DEF RecvBranch
<1> DEFINE f == FlattenSeq(ReadBuffers(n))  c == ends[n]
<1>3. /\ delivered \in Seq(S) /\ inbox \in Seq(S) /\ S \in SUBSET Int /\ l \in Nat
      /\ DOMAIN inbox = 1 .. l /\ n \in Nat \ {0} /\ c \in Nat /\ c <= l
      /\ delivered' = delivered \o f /\ inbox' = SubSeq(inbox, c + 1, l)
  <2>1. delivered \in Seq(S) /\ inbox \in Seq(S) /\ l \in Nat /\ DOMAIN inbox = 1 .. l
    BY DEF TypeOK
  <2>2. n \in Nat \ {0}
    BY UdpAssumption
  <2>3. c \in 0 .. l
    BY <2>2 DEF Cuts
  <2> QED
    BY <1>1, <2>1, <2>2, <2>3 DEF Filled, Read, ReadBuffers
<1>4. Increasing(delivered) /\ Increasing(inbox) /\ Below(delivered, inbox)
  <2> HIDE DEF S
  <2> QED
    BY <1>3, ConcatIncreasing DEF Datagrams
<1>5. /\ f \in Seq(S) /\ Increasing(f)
      /\ \A x : Has(f, x) <=> \E j \in 1 .. c : inbox[j] = x /\ ~arrived[x]
  BY <1>1, <1>4, BatchGives
<1>6. /\ inbox' \in Seq(S) /\ Increasing(inbox')
      /\ \A x : Has(inbox', x) <=> \E j \in c + 1 .. l : inbox[j] = x
  <2> DEFINE p == SubSeq(inbox, c + 1, l)
  <2>1. p \in Seq(S) /\ Increasing(p) /\ \A x : Has(p, x) <=> \E j \in c + 1 .. l : inbox[j] = x
    <3>1. /\ inbox \in Seq(S) /\ S \in SUBSET Int /\ Increasing(inbox)
          /\ c \in Nat /\ l \in Nat /\ c <= l /\ l <= Len(inbox)
      BY <1>3, <1>4
    <3> HIDE DEF S, f, c, l
    <3>2. p \in Seq(S) /\ IsPart(p, inbox, c, l)
      BY <3>1, PartIncreasing, Zenon
    <3> QED
      BY <3>2 DEF IsPart
  <2> QED
    BY <1>3, <2>1
<1> HIDE DEF S, l, f, c
<1>7. TypeOK'
  <2>1. delivered' \in Seq(S)
    BY <1>3, <1>5
  <2>2. metas' \in [1 .. BatchSize -> Seq(S)]
    <3>1. ASSUME NEW k \in 1 .. n PROVE metas'[k] \in Seq(S)
      BY <1>1, <1>4, BufferGives DEF S
    <3>2. metas \in [1 .. BatchSize -> Seq(S)]
      BY DEF TypeOK, S
    <3>3. metas' = [k \in 1 .. BatchSize |-> IF k <= n THEN Piece(ends, k) ELSE metas[k]]
      BY <1>1 DEF Filled
    <3>4. ASSUME NEW k \in 1 .. BatchSize
          PROVE  (IF k <= n THEN Piece(ends, k) ELSE metas[k]) \in Seq(S)
      <4>1. CASE k <= n
        <5>1. k \in 1 .. n /\ metas'[k] = Piece(ends, k)
          BY <1>3, <3>3, <4>1
        <5> QED
          BY <3>1, <4>1, <5>1
      <4>2. CASE ~(k <= n)
        BY <3>2, <4>2
      <4> QED
        BY <4>1, <4>2
    <3> QED
      BY <3>3, <3>4
  <2>3. Cardinality(FullMetas(n)) \in Nat
    <3>1. IsFiniteSet(1 .. n) /\ FullMetas(n) \subseteq 1 .. n
      BY <1>3, FS_Interval DEF FullMetas
    <3> QED
      BY <3>1, FS_Subset, FS_CardinalityType
  <2>4. transmits' \in Seq(Messages) /\ written' \in 0 .. MaxWrites
    BY <1>1, <2>3, PushTyped DEF Read
  <2>5. deadline' \in Deadlines /\ callback' \in {"none", "active", "read", "timeout", "eof", "inactive"}
    BY <1>1, UdpAssumption DEF Read, TypeOK
  <2> QED
    BY <1>2, <1>6, <2>1, <2>2, <2>4, <2>5 DEF TypeOK, S
<1>8. \A j \in 1 .. c : j \in DOMAIN inbox
  BY <1>3
<1>9. Below(f, inbox')
  <2> SUFFICES ASSUME NEW i \in DOMAIN f, NEW k \in DOMAIN inbox' PROVE f[i] < inbox'[k]
    BY DEF Below
  <2>1. PICK i0 \in 1 .. c : inbox[i0] = f[i]
    BY <1>5 DEF Has
  <2>2. PICK k0 \in c + 1 .. l : inbox[k0] = inbox'[k]
    BY <1>6 DEF Has
  <2>3. i0 \in 1 .. l /\ k0 \in 1 .. l /\ i0 < k0
    BY <1>3
  <2>4. inbox[i0] < inbox[k0]
    BY <1>3, <1>4, <2>3 DEF Increasing
  <2> QED
    BY <2>1, <2>2, <2>4
<1>10. Below(delivered, f) /\ Below(delivered, inbox')
  <2>1. ASSUME NEW i \in DOMAIN delivered, NEW k \in DOMAIN f PROVE delivered[i] < f[k]
    <3>1. PICK k0 \in 1 .. c : inbox[k0] = f[k]
      BY <1>5 DEF Has
    <3> QED
      BY <1>3, <1>4, <1>8, <3>1 DEF Below
  <2>2. ASSUME NEW i \in DOMAIN delivered, NEW k \in DOMAIN inbox' PROVE delivered[i] < inbox'[k]
    <3>1. PICK k0 \in c + 1 .. l : inbox[k0] = inbox'[k]
      BY <1>6 DEF Has
    <3>2. k0 \in 1 .. l
      BY <1>3
    <3> QED
      BY <1>3, <1>4, <3>1, <3>2 DEF Below
  <2> QED
    BY <2>1, <2>2 DEF Below
<1> DEFINE d == delivered \o f
<1>11. /\ d \in Seq(S) /\ Increasing(d) /\ \A x : Has(d, x) <=> Has(delivered, x) \/ Has(f, x)
  BY <1>3, <1>4, <1>5, <1>10, ConcatIncreasing, ConcatHas
<1>12. Below(d, inbox')
  <2> SUFFICES ASSUME NEW i \in DOMAIN d, NEW k \in DOMAIN inbox' PROVE d[i] < inbox'[k]
    BY DEF Below
  <2>1. Has(delivered, d[i]) \/ Has(f, d[i])
    <3> HIDE DEF d
    <3>1. Has(d, d[i])
      BY DEF Has
    <3> QED
      BY <1>11, <3>1
  <2> QED
    BY <1>9, <1>10, <2>1 DEF Below, Has
<1>13. /\ Increasing(d \o inbox') /\ \A x : Has(d \o inbox', x) <=> Has(d, x) \/ Has(inbox', x)
  <2> HIDE DEF d
  <2>1. Increasing(d \o inbox')
    BY <1>3, <1>6, <1>11, <1>12, ConcatIncreasing
  <2>2. \A x : Has(d \o inbox', x) <=> Has(d, x) \/ Has(inbox', x)
    BY <1>6, <1>11, ConcatHas
  <2> QED
    BY <2>1, <2>2
<1>14. ASSUME NEW i \in 1 .. Len(arrived), ~arrived[i] PROVE Has(d \o inbox', i)
  <2>1. Has(delivered, i) \/ Has(inbox, i)
    <3>1. Has(delivered \o inbox, i)
      BY <1>14 DEF Datagrams
    <3> QED
      BY <1>3, <3>1, ConcatHas
  <2>2. CASE Has(delivered, i)
    BY <1>11, <1>13, <2>2
  <2>3. CASE Has(inbox, i)
    <3>1. PICK j \in 1 .. l : inbox[j] = i
      BY <1>3, <2>3 DEF Has
    <3>2. CASE j \in 1 .. c
      BY <1>5, <1>11, <1>13, <1>14, <3>1, <3>2
    <3>3. CASE j \in c + 1 .. l
      BY <1>6, <1>13, <3>1, <3>3
    <3>4. j \in 1 .. c \/ j \in c + 1 .. l
      BY <1>3
    <3> QED
      BY <3>2, <3>3, <3>4
  <2> QED
    BY <2>1, <2>2, <2>3
<1>15. ASSUME NEW x, Has(d, x) PROVE ~arrived[x]
  BY <1>5, <1>11, <1>15 DEF Datagrams
<1>16. Datagrams'
  <2>1. delivered' = d /\ arrived' = arrived
    BY <1>2, <1>3
  <2> HIDE DEF d
  <2> QED
    BY <1>13, <1>14, <1>15, <2>1 DEF Datagrams, Has, Increasing
<1> QED
  BY <1>7, <1>16

LEMMA NextDelivered == TypeOK /\ Datagrams /\ [Next]_vars => TypeOK' /\ Datagrams'
<1> SUFFICES ASSUME TypeOK, Datagrams, [Next]_vars PROVE TypeOK' /\ Datagrams'
  OBVIOUS
<1>1. CASE Elsewhere
  BY <1>1, ElsewhereKeeps
<1>2. CASE \E e \in BOOLEAN : Arrive(e)
  BY <1>2, ArriveKeeps
<1>3. CASE RecvBranch
  BY <1>3, RecvKeeps
<1> QED
  BY <1>1, <1>2, <1>3 DEF Next, Task, Others, Elsewhere

(* Each datagram reaches the handlers once and in order, whatever batches  *)
(* they come in, except the empty ones; every variable keeps its type.     *)
THEOREM DatagramsOnce == Spec => []DeliveredOnce
<1>1. TypeOK /\ Datagrams => DeliveredOnce
  BY DeliveredOnceIs
<1> QED
  BY <1>1, InitDelivered, NextDelivered, PTL DEF Spec
=============================================================================
