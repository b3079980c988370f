--------------------------- MODULE ExampleProofs ---------------------------
(***************************************************************************)
(* The safety of the example programs, for any number of peers, lines and  *)
(* buffers:                                                                *)
(*   - ChatServerTcp: the map of the peers and the handlers agree, and all *)
(*     members hear the same conversation;                                 *)
(*   - EchoClient: the typed lines reach the socket in order;              *)
(*   - ChatServerUdp: the damage of a line too long ends with the next     *)
(*     buffer that begins with a line, and all peers that take part hear   *)
(*     the same conversation.                                              *)
(* The programs share the variables of ExampleTask; no formula below is    *)
(* about two of them.                                                      *)
(***************************************************************************)
EXTENDS ChatServerTcp, ChatServerUdp, EchoClient, SequenceTheorems, FiniteSetTheorems, TLAPS

(* Increasing sequences of numbers, and what is in them. *)
Increasing(s) == \A j, k \in DOMAIN s : j < k => s[j] < s[k]
Has(s, x) == \E j \in DOMAIN s : s[j] = x
Below(s, t) == \A j \in DOMAIN s, k \in DOMAIN t : s[j] < t[k]

(* A concatenation has what its parts have, and increases if they do and *)
(* the first is below the second.                                        *)
LEMMA ConcatHas ==
  ASSUME NEW S, NEW s \in Seq(S), NEW t \in Seq(S)
  PROVE  \A x : Has(s \o t, x) <=> Has(s, x) \/ Has(t, x)
<1> DEFINE m == Len(s)  n == Len(t)  u == s \o t
<1>1. /\ m \in Nat /\ n \in Nat /\ DOMAIN s = 1 .. m /\ DOMAIN t = 1 .. n /\ DOMAIN u = 1 .. m + n
      /\ \A j \in 1 .. m : u[j] = s[j]
      /\ \A j \in 1 .. n : u[m + j] = t[j]
  OBVIOUS
<1> HIDE DEF m, n, u
<1>2. ASSUME NEW x, Has(u, x) PROVE Has(s, x) \/ Has(t, x)
  <2>1. PICK j \in 1 .. m + n : u[j] = x
    BY <1>1, <1>2 DEF Has
  <2>2. CASE j <= m
    <3>1. j \in 1 .. m
      BY <1>1, <2>2
    <3> QED
      BY <1>1, <2>1, <3>1 DEF Has
  <2>3. CASE ~(j <= m)
    <3>1. j - m \in 1 .. n /\ m + (j - m) = j
      BY <1>1, <2>3
    <3>2. t[j - m] = x
      BY <1>1, <2>1, <3>1
    <3> QED
      BY <1>1, <3>1, <3>2 DEF Has
  <2> QED
    BY <2>2, <2>3
<1>3. ASSUME NEW x, Has(s, x) PROVE Has(u, x)
  <2>1. PICK j \in 1 .. m : s[j] = x
    BY <1>1, <1>3 DEF Has
  <2>2. j \in 1 .. m + n
    BY <1>1
  <2> QED
    BY <1>1, <2>1, <2>2 DEF Has
<1>4. ASSUME NEW x, Has(t, x) PROVE Has(u, x)
  <2>1. PICK j \in 1 .. n : t[j] = x
    BY <1>1, <1>4 DEF Has
  <2>2. m + j \in 1 .. m + n
    BY <1>1
  <2> QED
    BY <1>1, <2>1, <2>2 DEF Has
<1> QED
  BY <1>2, <1>3, <1>4 DEF u

LEMMA ConcatIncreasing ==
  ASSUME NEW S \in SUBSET Int, NEW s \in Seq(S), NEW t \in Seq(S)
  PROVE  Increasing(s \o t) <=> Increasing(s) /\ Increasing(t) /\ Below(s, t)
<1> DEFINE m == Len(s)  n == Len(t)  u == s \o t
<1>1. /\ m \in Nat /\ n \in Nat /\ DOMAIN s = 1 .. m /\ DOMAIN t = 1 .. n /\ DOMAIN u = 1 .. m + n
      /\ \A j \in 1 .. m : u[j] = s[j]
      /\ \A j \in 1 .. n : u[m + j] = t[j]
  OBVIOUS
<1> HIDE DEF m, n, u
<1>2. ASSUME Increasing(u) PROVE Increasing(s) /\ Increasing(t) /\ Below(s, t)
  <2>1. ASSUME NEW j \in 1 .. m, NEW k \in 1 .. m, j < k PROVE s[j] < s[k]
    <3>1. j \in 1 .. m + n /\ k \in 1 .. m + n
      BY <1>1
    <3> QED
      BY <1>1, <1>2, <2>1, <3>1 DEF Increasing
  <2>2. ASSUME NEW j \in 1 .. n, NEW k \in 1 .. n, j < k PROVE t[j] < t[k]
    <3>1. m + j \in 1 .. m + n /\ m + k \in 1 .. m + n /\ m + j < m + k
      BY <1>1, <2>2
    <3>2. u[m + j] < u[m + k]
      BY <1>1, <1>2, <3>1 DEF Increasing
    <3> QED
      BY <1>1, <3>2
  <2>3. ASSUME NEW j \in 1 .. m, NEW k \in 1 .. n PROVE s[j] < t[k]
    <3>1. j \in 1 .. m + n /\ m + k \in 1 .. m + n /\ j < m + k
      BY <1>1
    <3>2. u[j] < u[m + k]
      BY <1>1, <1>2, <3>1 DEF Increasing
    <3> QED
      BY <1>1, <3>2
  <2> QED
    BY <1>1, <2>1, <2>2, <2>3 DEF Increasing, Below
<1>3. ASSUME Increasing(s), Increasing(t), Below(s, t) PROVE Increasing(u)
  <2> SUFFICES ASSUME NEW j \in 1 .. m + n, NEW k \in 1 .. m + n, j < k PROVE u[j] < u[k]
    BY <1>1 DEF Increasing
  <2>1. CASE j \in 1 .. m /\ k \in 1 .. m
    BY <1>1, <1>3, <2>1 DEF Increasing
  <2>2. CASE j \in 1 .. m /\ k - m \in 1 .. n
    <3>1. m + (k - m) = k
      BY <1>1
    <3>2. u[k] = t[k - m] /\ u[j] = s[j] /\ s[j] < t[k - m]
      BY <1>1, <1>3, <2>2, <3>1 DEF Below
    <3> QED
      BY <3>2
  <2>3. CASE j - m \in 1 .. n /\ k - m \in 1 .. n
    <3>1. m + (k - m) = k /\ m + (j - m) = j /\ j - m < k - m
      BY <1>1
    <3>2. u[k] = t[k - m] /\ u[j] = t[j - m] /\ t[j - m] < t[k - m]
      BY <1>1, <1>3, <2>3, <3>1 DEF Increasing
    <3> QED
      BY <3>2
  <2>4. (j \in 1 .. m \/ j - m \in 1 .. n) /\ (k \in 1 .. m \/ k - m \in 1 .. n)
    BY <1>1
  <2>5. ~(j - m \in 1 .. n /\ k \in 1 .. m)
    BY <1>1
  <2> QED
    BY <2>1, <2>2, <2>3, <2>4, <2>5
<1> QED
  BY <1>2, <1>3 DEF u
-----------------------------------------------------------------------------
(* A socket has its peer's address from accept on, and a handler that      *)
(* joined knows it.                                                        *)
Known ==
  /\ \A c \in Conns : addr[c] = None <=> phase[c] = "unborn"
  /\ \A c \in Conns : peer_addr[c] # None => peer_addr[c] = addr[c]

(* Lines come from accepted sockets, and a handler joins with the next.    *)
Spoken ==
  /\ \A i \in DOMAIN lines : addr[lines[i]] # None
  /\ \A c \in Conns : joined[c] <= Len(lines) + 1

(* A handler that never joined hears nothing. *)
Strangers == \A c \in Conns : peer_addr[c] = None => sent[c] = <<>> /\ transmits[c] = <<>>

(* What a member has been told or will be, and what it should be told. *)
Stream(c) == sent[c] \o transmits[c]
Due(c) == {i \in DOMAIN lines : i >= joined[c] /\ addr[lines[i]] # addr[c]}
Follows(c) == Increasing(Stream(c)) /\ \A i : Has(Stream(c), i) <=> i \in Due(c)
Member(c) == Alive(c) /\ peer_addr[c] # None

(* MembersHear in these terms. *)
LEMMA MembersHearIs == MembersHear <=> \A c \in Conns : Member(c) => Follows(c)
<1>1. ASSUME NEW c
      PROVE  Follows(c) <=> /\ \A j, k \in DOMAIN Stream(c) : j < k => Stream(c)[j] < Stream(c)[k]
                          /\ ToSet(Stream(c)) = Due(c)
  <2>1. \A i : Has(Stream(c), i) <=> i \in ToSet(Stream(c))
    BY DEF Has, ToSet
  <2> QED
    BY <2>1 DEF Follows, Increasing, Stream
<1> QED
  BY <1>1 DEF MembersHear, Member, Due, Stream

LEMMA MembersHearNext == (\A c \in Conns : Member(c) => Follows(c))' => MembersHear'
  BY MembersHearIs, PTL

IInv == Entries /\ Known /\ Spoken /\ Strangers /\ MembersHear

(* Nobody has joined and nothing was said. *)
LEMMA InitIInv == Init => IInv
<1> SUFFICES ASSUME Init PROVE IInv
  OBVIOUS
<1>1. \A c \in Conns : addr[c] = None /\ peer_addr[c] = None /\ phase[c] = "unborn"
                       /\ transmits[c] = <<>> /\ sent[c] = <<>> /\ joined[c] = 0
  BY DEF Init
<1>2. lines = <<>> /\ DOMAIN lines = {} /\ Len(lines) = 0 /\ lines \in Seq(Conns)
  BY DEF Init
<1>3. TypeOK
  <2>1. 0 \in 0 .. MaxLines /\ 0 \in Nat /\ <<>> \in Seq(Nat)
    BY ChatAssumption
  <2> QED
    BY <1>1, <1>2, <2>1 DEF Init, TypeOK
<1>4. Entries
  BY <1>1, <1>3 DEF Entries, Init
<1>5. Known /\ Spoken /\ Strangers
  BY <1>1, <1>2 DEF Known, Spoken, Strangers
<1>6. MembersHear
  BY <1>1 DEF MembersHear
<1> QED
  BY <1>4, <1>5, <1>6 DEF IInv

(* Steps that say nothing: who is a member stays one, or the task ends.    *)
LEMMA SilentKeeps ==
  ASSUME IInv, TypeOK', UNCHANGED <<lines, joined, peer_addr>>,
         \A c \in Conns : Alive(c)' /\ peer_addr[c] # None =>
           Alive(c) /\ Stream(c)' = Stream(c),
         \A c \in Conns : addr[c] # None => addr'[c] = addr[c],
         \A c \in Conns : addr'[c] = None <=> phase'[c] = "unborn",
         \A c \in Conns : peer_addr[c] = None => sent'[c] = <<>> /\ transmits'[c] = <<>>,
         \A p \in Addrs : peers'[p] # None => peers'[p] = peers[p],
         \A c \in Conns : Alive(c)' /\ peer_addr[c] # None => peers'[peer_addr[c]] = peers[peer_addr[c]]
  PROVE  IInv'
<1>1. TypeOK /\ Entries /\ Known /\ Spoken /\ Strangers /\ MembersHear
  BY DEF IInv, Entries
<1>2. Entries'
  BY <1>1 DEF Entries
<1>3. \A c \in Conns : peer_addr[c] # None => addr[c] # None /\ addr'[c] = addr[c]
  BY <1>1 DEF Known
<1>4. Known'
  BY <1>1, <1>3 DEF Known
<1>5. \A i \in DOMAIN lines : lines[i] \in Conns /\ addr[lines[i]] # None /\ addr'[lines[i]] = addr[lines[i]]
  BY <1>1 DEF Spoken, TypeOK
<1>6. Spoken'
  BY <1>1, <1>5 DEF Spoken
<1>7. Strangers'
  BY DEF Strangers
<1>8. ASSUME NEW c \in Conns, Member(c)' PROVE Follows(c)'
  <2>1. Member(c) /\ Stream(c)' = Stream(c)
    BY <1>8 DEF Member
  <2>2. Due(c)' = Due(c)
    BY <1>3, <1>5, <2>1 DEF Due, Member
  <2>3. Follows(c)
    BY <1>1, <2>1, MembersHearIs
  <2> QED
    BY <2>1, <2>2, <2>3 DEF Follows
<1>9. MembersHear'
  <2>1. (\A c \in Conns : Member(c) => Follows(c))'
    BY <1>8
  <2> QED
    BY <2>1, MembersHearNext
<1> QED
  BY <1>2, <1>4, <1>6, <1>7, <1>9 DEF IInv

(* The steps of a task. *)
LEMMA AcceptKeeps ==
  ASSUME IInv, NEW c \in Conns, NEW p \in Addrs, Accept(c, p)
  PROVE  IInv'
<1>1. TypeOK /\ Known /\ Strangers /\ p # None
  BY ChatAssumption DEF IInv, Entries
<1>2. /\ phase[c] = "unborn" /\ addr[c] = None /\ peer_addr[c] = None
      /\ phase' = [phase EXCEPT ![c] = "start"] /\ addr' = [addr EXCEPT ![c] = p]
      /\ UNCHANGED <<peers, peer_addr, lines, joined, transmits, sent, remote, inbox, typed, closing>>
  BY <1>1 DEF Accept, Known, shared
<1>3. TypeOK'
  BY <1>1, <1>2 DEF TypeOK
<1>4. \A d \in Conns : d # c => phase'[d] = phase[d] /\ addr'[d] = addr[d]
  BY <1>1, <1>2 DEF TypeOK
<1>5. phase'[c] = "start" /\ addr'[c] = p
  BY <1>1, <1>2 DEF TypeOK
<1>6. \A d \in Conns : addr'[d] = None <=> phase'[d] = "unborn"
  BY <1>1, <1>4, <1>5 DEF Known
<1>7. \A d \in Conns : Alive(d)' /\ peer_addr[d] # None => Alive(d) /\ Stream(d)' = Stream(d)
  BY <1>2, <1>4 DEF Alive, Stream
<1> QED
  BY <1>1, <1>2, <1>3, <1>4, <1>6, <1>7, SilentKeeps DEF Strangers

(* A task that starts has not joined. *)
LEMMA StartKeeps ==
  ASSUME IInv, NEW c \in Conns, Start(c) \/ Day(c)
  PROVE  IInv'
<1>1. TypeOK /\ Known /\ Strangers
  BY DEF IInv, Entries
<1>2. /\ phase[c] \in {"start", "select"}
      /\ phase' = [phase EXCEPT ![c] = phase'[c]] /\ phase'[c] \in {"select", "write", "done"}
      /\ phase'[c] = "write" => transmits[c] # <<>>
      /\ UNCHANGED <<peers, peer_addr, lines, joined, transmits, sent, remote, inbox, typed, closing, addr>>
  <2>1. phase \in [Conns -> {"unborn", "start", "select", "write", "done"}]
    BY <1>1 DEF TypeOK
  <2>2. CASE Start(c)
    BY <2>1, <2>2 DEF Start, shared, network
  <2>3. CASE Day(c)
    BY <2>1, <2>3 DEF Day, Proceed, shared, network
  <2> QED
    BY <2>2, <2>3
<1>3. TypeOK'
  BY <1>1, <1>2 DEF TypeOK
<1>4. \A d \in Conns : d # c => phase'[d] = phase[d]
  BY <1>1, <1>2 DEF TypeOK
<1>5. \A d \in Conns : addr'[d] = None <=> phase'[d] = "unborn"
  BY <1>1, <1>2, <1>4 DEF Known
<1>6. \A d \in Conns : Alive(d)' /\ peer_addr[d] # None => Alive(d) /\ Stream(d)' = Stream(d)
  BY <1>2, <1>4 DEF Alive, Stream
<1> QED
  BY <1>1, <1>2, <1>3, <1>5, <1>6, SilentKeeps DEF Strangers

(* The end of a task takes its own entry out, if any. *)
LEMMA EndKeeps ==
  ASSUME IInv, NEW c \in Conns, EofBranch(c) \/ Dropped(c)
  PROVE  IInv'
<1>1. TypeOK /\ Entries /\ Known /\ Strangers
  BY DEF IInv, Entries
<1>2. /\ phase[c] = "select"
      /\ phase' = [phase EXCEPT ![c] = "done"] /\ transmits' = [transmits EXCEPT ![c] = <<>>]
      /\ UNCHANGED <<peer_addr, lines, joined, sent, remote, inbox, typed, closing, addr>>
      /\ \/ peers' = peers
         \/ peer_addr[c] # None /\ peers' = [peers EXCEPT ![peer_addr[c]] = None]
  BY DEF EofBranch, Dropped, End, shared, network
<1>3. /\ peers \in [Addrs -> Conns \cup {None}] /\ peer_addr \in [Conns -> Addrs \cup {None}]
      /\ phase \in [Conns -> {"unborn", "start", "select", "write", "done"}]
      /\ transmits \in [Conns -> Seq(Nat)]
  BY <1>1 DEF TypeOK
<1>4. peers' \in [Addrs -> Conns \cup {None}] /\ transmits' \in [Conns -> Seq(Nat)]
  <2>1. <<>> \in Seq(Nat)
    OBVIOUS
  <2> QED
    BY <1>2, <1>3, <2>1
<1>5. \A d \in Conns : d # c => phase'[d] = phase[d] /\ transmits'[d] = transmits[d]
  BY <1>2, <1>3
<1>6. phase'[c] = "done" /\ transmits'[c] = <<>>
  BY <1>2, <1>3
<1>7. TypeOK'
  <2>1. \A d \in Conns : phase'[d] = "write" => transmits'[d] # <<>>
    BY <1>1, <1>5, <1>6 DEF TypeOK
  <2>2. phase' \in [Conns -> {"unborn", "start", "select", "write", "done"}]
    BY <1>2, <1>3
  <2> QED
    BY <1>1, <1>2, <1>4, <2>1, <2>2 DEF TypeOK
<1>8. \A d \in Conns : addr'[d] = None <=> phase'[d] = "unborn"
  BY <1>1, <1>2, <1>5, <1>6 DEF Known
<1>9. \A d \in Conns : Alive(d)' => d # c /\ Alive(d) /\ Stream(d)' = Stream(d)
  BY <1>2, <1>5, <1>6 DEF Alive, Stream
<1>10. \A p \in Addrs : peers'[p] # None => peers'[p] = peers[p]
  BY <1>2, <1>3
<1>11. ASSUME NEW d \in Conns, Alive(d)', peer_addr[d] # None
       PROVE  peers'[peer_addr[d]] = peers[peer_addr[d]]
  <2>1. d # c /\ peers[peer_addr[d]] = d
    BY <1>1, <1>9, <1>11 DEF Entries
  <2>2. ASSUME peer_addr[c] # None PROVE peers[peer_addr[c]] = c
    BY <1>1, <1>2, <2>2 DEF Entries, Alive
  <2>3. peer_addr[c] # None => peer_addr[c] # peer_addr[d]
    BY <2>1, <2>2
  <2> QED
    BY <1>2, <1>3, <1>11, <2>3
<1>12. \A d \in Conns : peer_addr[d] = None => sent'[d] = <<>> /\ transmits'[d] = <<>>
  BY <1>1, <1>2, <1>5, <1>6 DEF Strangers
<1> QED
  BY <1>2, <1>7, <1>8, <1>9, <1>10, <1>11, <1>12, SilentKeeps

(* A message moves from the queue to the socket. *)
LEMMA WriteKeeps ==
  ASSUME IInv, NEW c \in Conns, Write(c)
  PROVE  IInv'
<1>1. TypeOK /\ Entries /\ Known /\ Strangers
  BY DEF IInv, Entries
<1>2. /\ phase[c] = "write" /\ transmits[c] # <<>>
      /\ sent' = [sent EXCEPT ![c] = Append(@, Head(transmits[c]))]
      /\ transmits' = [transmits EXCEPT ![c] = Tail(@)]
      /\ phase' = [phase EXCEPT ![c] = phase'[c]] /\ phase'[c] \in {"select", "write"}
      /\ phase'[c] = "write" => transmits'[c] # <<>>
      /\ UNCHANGED <<peers, peer_addr, lines, joined, remote, inbox, typed, closing, addr>>
  <2>1. phase \in [Conns -> {"unborn", "start", "select", "write", "done"}]
    BY <1>1 DEF TypeOK
  <2> QED
    BY <1>1, <2>1 DEF Write, Proceed, shared, network, TypeOK
<1>3. /\ sent \in [Conns -> Seq(Nat)] /\ transmits \in [Conns -> Seq(Nat)]
      /\ phase \in [Conns -> {"unborn", "start", "select", "write", "done"}]
  BY <1>1 DEF TypeOK
<1>4. /\ transmits[c] \in Seq(Nat) /\ sent[c] \in Seq(Nat) /\ Head(transmits[c]) \in Nat
      /\ Tail(transmits[c]) \in Seq(Nat) /\ Append(sent[c], Head(transmits[c])) \in Seq(Nat)
  BY <1>2, <1>3
<1>5. \A d \in Conns : d # c => phase'[d] = phase[d] /\ transmits'[d] = transmits[d] /\ sent'[d] = sent[d]
  BY <1>2, <1>3
<1>6. sent'[c] = Append(sent[c], Head(transmits[c])) /\ transmits'[c] = Tail(transmits[c])
  BY <1>2, <1>3
<1>7. TypeOK'
  <2>1. \A d \in Conns : phase'[d] = "write" => transmits'[d] # <<>>
    BY <1>1, <1>2, <1>5 DEF TypeOK
  <2>2. phase' \in [Conns -> {"unborn", "start", "select", "write", "done"}]
    BY <1>2, <1>3
  <2>3. sent' \in [Conns -> Seq(Nat)] /\ transmits' \in [Conns -> Seq(Nat)]
    BY <1>2, <1>3, <1>4
  <2> QED
    BY <1>1, <1>2, <2>1, <2>2, <2>3 DEF TypeOK
<1>8. Stream(c)' = Stream(c)
  <2>1. \A s, t \in Seq(Nat) : t # <<>> => Append(s, Head(t)) \o Tail(t) = s \o t
    OBVIOUS
  <2> QED
    BY <1>2, <1>4, <1>6, <2>1 DEF Stream
<1>9. \A d \in Conns : Alive(d)' => Alive(d) /\ Stream(d)' = Stream(d)
  BY <1>2, <1>5, <1>8 DEF Alive, Stream
<1>10. \A d \in Conns : addr'[d] = None <=> phase'[d] = "unborn"
  BY <1>1, <1>2, <1>5 DEF Known
<1>11. \A d \in Conns : peer_addr[d] = None => sent'[d] = <<>> /\ transmits'[d] = <<>>
  BY <1>1, <1>2, <1>5 DEF Strangers
<1> QED
  BY <1>2, <1>7, <1>9, <1>10, <1>11, SilentKeeps

(* The peers and the application change nothing of the tasks. *)
LEMMA OutsideKeeps ==
  ASSUME IInv, (\E c \in Conns : Type(c) \/ Hangup(c)) \/ Stop \/ UNCHANGED vars
  PROVE  IInv'
<1>1. TypeOK /\ Known /\ Strangers
  BY DEF IInv, Entries
<1>2. UNCHANGED <<peers, peer_addr, lines, joined, transmits, sent, phase, addr>>
  BY DEF Type, Hangup, Stop, vars, shared, network
<1>3. remote' \in [Conns -> {"up", "closed", "reset"}] /\ inbox' \in [Conns -> Nat]
      /\ typed' \in 0 .. MaxLines /\ closing' \in BOOLEAN
  <2>1. /\ remote \in [Conns -> {"up", "closed", "reset"}] /\ inbox \in [Conns -> Nat]
        /\ typed \in 0 .. MaxLines /\ closing \in BOOLEAN /\ MaxLines \in Nat
    BY <1>1, ChatAssumption DEF TypeOK
  <2>2. ASSUME NEW c \in Conns, Type(c)
        PROVE  inbox' \in [Conns -> Nat] /\ typed' \in 0 .. MaxLines /\ UNCHANGED <<remote, closing>>
    BY <2>1, <2>2 DEF Type
  <2>3. ASSUME NEW c \in Conns, Hangup(c)
        PROVE  remote' \in [Conns -> {"up", "closed", "reset"}] /\ UNCHANGED <<inbox, typed, closing>>
    BY <2>1, <2>3 DEF Hangup
  <2>4. CASE Stop \/ UNCHANGED vars
    BY <2>1, <2>4 DEF Stop, vars, network
  <2> QED
    BY <2>1, <2>2, <2>3, <2>4
<1>4. TypeOK'
  BY <1>1, <1>2, <1>3 DEF TypeOK
<1>5. \A d \in Conns : Alive(d)' => Alive(d) /\ Stream(d)' = Stream(d)
  BY <1>2 DEF Alive, Stream
<1> QED
  BY <1>1, <1>2, <1>4, <1>5, SilentKeeps DEF Known, Strangers

-----------------------------------------------------------------------------
(* n lines of c are handled. *)
LEMMA ReadKeeps ==
  ASSUME IInv, NEW c \in Conns, ReadBranch(c)
  PROVE  IInv'
<1>1. TypeOK /\ Entries /\ Known /\ Spoken /\ Strangers /\ \A d \in Conns : Member(d) => Follows(d)
  BY MembersHearIs DEF IInv, Entries
<1>2. PICK n \in 1 .. inbox[c] : HandleRead(c, n) /\ inbox' = [inbox EXCEPT ![c] = @ - n]
  BY DEF ReadBranch
<1> DEFINE l == Len(lines)  p == addr[c]  new == [i \in 1 .. n |-> l + i]
           In(d) == d \in Audience(peers', p)
<1>3. /\ n \in Nat \ {0} /\ n <= inbox[c] /\ inbox[c] \in Nat /\ l \in Nat /\ p # None /\ p \in Addrs
      /\ phase[c] = "select" /\ UNCHANGED <<addr, remote, typed, closing, sent>>
      /\ phase' = [phase EXCEPT ![c] = IF transmits'[c] = <<>> THEN "select" ELSE "write"]
      /\ lines \in Seq(Conns)
  BY <1>1, <1>2 DEF ReadBranch, Proceed, TypeOK, Known
<1>4. /\ peers \in [Addrs -> Conns \cup {None}] /\ peer_addr \in [Conns -> Addrs \cup {None}]
      /\ phase \in [Conns -> {"unborn", "start", "select", "write", "done"}]
      /\ transmits \in [Conns -> Seq(Nat)] /\ joined \in [Conns -> Nat] /\ sent \in [Conns -> Seq(Nat)]
      /\ inbox \in [Conns -> Nat]
  BY <1>1 DEF TypeOK
<1>5. /\ lines' = lines \o [i \in 1 .. n |-> c]
      /\ transmits' = [d \in Conns |-> IF In(d) THEN transmits[d] \o new ELSE transmits[d]]
  BY <1>2 DEF HandleRead, broadcast
<1>6. /\ lines' \in Seq(Conns) /\ Len(lines') = l + n
      /\ DOMAIN lines = 1 .. l /\ DOMAIN lines' = 1 .. l + n
      /\ \A i \in 1 .. l : lines'[i] = lines[i]
      /\ \A i \in l + 1 .. l + n : lines'[i] = c
  <2> DEFINE t == [i \in 1 .. n |-> c]
  <2>1. t \in Seq(Conns) /\ Len(t) = n /\ \A i \in 1 .. n : t[i] = c
    BY <1>3
  <2> HIDE DEF t
  <2>2. /\ lines \o t \in Seq(Conns) /\ Len(lines \o t) = l + n
        /\ \A i \in 1 .. l : (lines \o t)[i] = lines[i]
        /\ \A i \in l + 1 .. l + n : (lines \o t)[i] = t[i - l] /\ i - l \in 1 .. n
    BY <1>3, <2>1
  <2> QED
    BY <1>3, <1>5, <2>1, <2>2 DEF t
<1>7. new \in Seq(Nat) /\ Len(new) = n /\ DOMAIN new = 1 .. n /\ \A i \in 1 .. n : new[i] = l + i
  BY <1>3
<1> HIDE DEF l, p, new, In
(* Who joins is the one that speaks, under an address nobody is kept for.  *)
<1>8. \/ peers[p] # None /\ UNCHANGED <<peers, peer_addr, joined>>
      \/ /\ peers[p] = None /\ peer_addr[c] = None
         /\ peers' = [peers EXCEPT ![p] = c] /\ peer_addr' = [peer_addr EXCEPT ![c] = p]
         /\ joined' = [joined EXCEPT ![c] = l + 1]
  <2>1. CASE peers[p] # None
    BY <1>2, <2>1 DEF HandleRead, contains, p
  <2>2. CASE peers[p] = None
    <3>1. peer_addr[c] = None
      <4> SUFFICES ASSUME peer_addr[c] # None PROVE FALSE
        OBVIOUS
      <4>1. Alive(c) /\ peer_addr[c] = p
        BY <1>1, <1>3 DEF Alive, Known, p
      <4>2. peers[p] = c
        BY <1>1, <4>1, <1>3 DEF Entries
      <4> QED
        BY <2>2, <4>2, ChatAssumption
    <3> QED
      BY <1>2, <2>2, <3>1 DEF HandleRead, contains, p, l
  <2> QED
    BY <2>1, <2>2
<1>9. /\ peers' \in [Addrs -> Conns \cup {None}] /\ peer_addr' \in [Conns -> Addrs \cup {None}]
      /\ joined' \in [Conns -> Nat] /\ c # None
      /\ \A d \in Conns : d # c => peer_addr'[d] = peer_addr[d] /\ joined'[d] = joined[d]
      /\ \A q \in Addrs : q # p => peers'[q] = peers[q]
  <2>1. CASE peers[p] # None /\ UNCHANGED <<peers, peer_addr, joined>>
    BY <1>4, <2>1, ChatAssumption
  <2>2. CASE /\ peers[p] = None /\ peer_addr[c] = None
             /\ peers' = [peers EXCEPT ![p] = c] /\ peer_addr' = [peer_addr EXCEPT ![c] = p]
             /\ joined' = [joined EXCEPT ![c] = l + 1]
    <3>1. l + 1 \in Nat /\ c # None
      BY <1>3, ChatAssumption
    <3> QED
      BY <1>3, <1>4, <2>2, <3>1
  <2> QED
    BY <1>8, <2>1, <2>2
<1>10. \A d \in Conns : (Alive(d)' <=> Alive(d)) /\ (phase'[d] = "unborn" <=> phase[d] = "unborn")
  BY <1>3, <1>4 DEF Alive
(* Entries and members agree. *)
<1>11. /\ \A q \in Addrs : peers'[q] # None => peer_addr'[peers'[q]] = q
       /\ \A d \in Conns : Alive(d) /\ peer_addr'[d] # None => peers'[peer_addr'[d]] = d
  <2>1. CASE peers[p] # None /\ UNCHANGED <<peers, peer_addr, joined>>
    BY <1>1, <2>1 DEF Entries
  <2>2. CASE /\ peers[p] = None /\ peer_addr[c] = None
             /\ peers' = [peers EXCEPT ![p] = c] /\ peer_addr' = [peer_addr EXCEPT ![c] = p]
             /\ joined' = [joined EXCEPT ![c] = l + 1]
    <3>1. peers'[p] = c /\ peer_addr'[c] = p
      BY <1>3, <1>4, <2>2
    <3>2. ASSUME NEW q \in Addrs, peers'[q] # None PROVE peer_addr'[peers'[q]] = q
      <4>1. CASE q = p
        BY <3>1, <4>1
      <4>2. CASE q # p
        <5>1. peers'[q] = peers[q] /\ peers[q] \in Conns /\ peer_addr[peers[q]] = q
          BY <1>1, <1>4, <1>9, <3>2, <4>2 DEF Entries
        <5>2. peers[q] # c
          BY <2>2, <5>1, ChatAssumption
        <5> QED
          BY <1>9, <5>1, <5>2
      <4> QED
        BY <4>1, <4>2
    <3>3. ASSUME NEW d \in Conns, Alive(d), peer_addr'[d] # None PROVE peers'[peer_addr'[d]] = d
      <4>1. CASE d = c
        BY <3>1, <4>1
      <4>2. CASE d # c
        <5>1. peer_addr'[d] = peer_addr[d] /\ peer_addr[d] \in Addrs /\ peers[peer_addr[d]] = d
          BY <1>1, <1>4, <1>9, <3>3, <4>2 DEF Entries
        <5>2. peer_addr[d] # p
          BY <2>2, <5>1, ChatAssumption
        <5> QED
          BY <1>9, <5>1, <5>2
      <4> QED
        BY <4>1, <4>2
    <3> QED
      BY <3>2, <3>3
  <2> QED
    BY <1>8, <2>1, <2>2
<1>12. \A d \in Conns : peer_addr'[d] # None => peer_addr'[d] = addr[d]
  BY <1>1, <1>3, <1>4, <1>8 DEF Known, p
(* The audience are the members with other addresses. *)
<1>13. \A d \in Conns : In(d) <=> Alive(d) /\ peer_addr'[d] # None /\ addr[d] # p
  <2>1. ASSUME NEW d \in Conns, In(d) PROVE Alive(d) /\ peer_addr'[d] # None /\ addr[d] # p
    <3>1. PICK q \in Addrs : q # p /\ peers'[q] # None /\ Alive(peers'[q]) /\ d = peers'[q]
      BY <2>1 DEF In, Audience
    <3>2. peer_addr'[d] = q
      BY <1>11, <3>1
    <3> QED
      BY <1>12, <3>1, <3>2, ChatAssumption
  <2>2. ASSUME NEW d \in Conns, Alive(d), peer_addr'[d] # None, addr[d] # p PROVE In(d)
    <3> DEFINE q == peer_addr'[d]
    <3>1. q \in Addrs /\ q # p /\ peers'[q] = d /\ d # None
      BY <1>9, <1>11, <1>12, <2>2, ChatAssumption
    <3> QED
      BY <2>2, <3>1 DEF In, Audience
  <2> QED
    BY <2>1, <2>2
<1>14. ASSUME NEW d \in Conns
       PROVE  /\ transmits'[d] \in Seq(Nat) /\ transmits[d] \in Seq(Nat)
              /\ transmits'[d] = IF In(d) THEN transmits[d] \o new ELSE transmits[d]
              /\ transmits[d] # <<>> => transmits'[d] # <<>>
  <2>1. transmits'[d] = IF In(d) THEN transmits[d] \o new ELSE transmits[d]
    BY <1>5
  <2>2. transmits[d] \in Seq(Nat)
    BY <1>4
  <2>3. transmits[d] \o new \in Seq(Nat) /\ transmits[d] \o new # <<>>
    <3>0. new \in Seq(Nat) /\ Len(new) = n
      BY <1>7
    <3>1. Len(transmits[d] \o new) = Len(transmits[d]) + n /\ transmits[d] \o new \in Seq(Nat)
      BY <2>2, <3>0
    <3> QED
      BY <1>3, <2>2, <3>1
  <2> QED
    BY <2>1, <2>2, <2>3
<1>15. TypeOK'
  <2>1. inbox' \in [Conns -> Nat]
    BY <1>2, <1>3, <1>4
  <2>2. transmits' \in [Conns -> Seq(Nat)]
    BY <1>5, <1>14
  <2>3. phase' \in [Conns -> {"unborn", "start", "select", "write", "done"}]
    BY <1>3, <1>4
  <2>4. \A d \in Conns : phase'[d] = "write" => transmits'[d] # <<>>
    <3> SUFFICES ASSUME NEW d \in Conns, phase'[d] = "write" PROVE transmits'[d] # <<>>
      OBVIOUS
    <3>1. CASE d = c
      BY <1>3, <1>4, <3>1
    <3>2. CASE d # c
      BY <1>1, <1>3, <1>4, <1>14, <3>2 DEF TypeOK
    <3> QED
      BY <3>1, <3>2
  <2> QED
    BY <1>1, <1>3, <1>6, <1>9, <2>1, <2>2, <2>3, <2>4 DEF TypeOK
<1>16. Entries'
  BY <1>10, <1>11, <1>15 DEF Entries
<1>17. Known'
  BY <1>1, <1>3, <1>10, <1>12 DEF Known
<1>18. Spoken'
  <2>1. ASSUME NEW i \in 1 .. l + n PROVE addr[lines'[i]] # None
    <3>1. CASE i \in 1 .. l
      BY <1>1, <1>6, <3>1 DEF Spoken
    <3>2. CASE i \in l + 1 .. l + n
      BY <1>3, <1>6, <3>2 DEF p
    <3>3. i \in 1 .. l \/ i \in l + 1 .. l + n
      BY <1>3
    <3> QED
      BY <3>1, <3>2, <3>3
  <2>2. ASSUME NEW d \in Conns PROVE joined'[d] <= l + n + 1
    <3>1. joined[d] \in Nat /\ joined[d] <= l + 1
      BY <1>1, <1>4 DEF Spoken, l
    <3>2. joined'[d] \in {joined[d], l + 1}
      BY <1>4, <1>8
    <3> QED
      BY <1>3, <3>1, <3>2
  <2> QED
    BY <1>3, <1>6, <2>1, <2>2 DEF Spoken
<1>19. Strangers'
  <2> SUFFICES ASSUME NEW d \in Conns, peer_addr'[d] = None PROVE sent[d] = <<>> /\ transmits'[d] = <<>>
    BY <1>3 DEF Strangers
  <2>1. peer_addr[d] = None
    <3>1. p # None
      BY <1>3
    <3> QED
      BY <1>4, <1>8, <3>1
  <2> QED
    BY <1>1, <1>13, <1>14, <2>1 DEF Strangers
(* What a member hears, and what it is due to hear. *)
<1>20. ASSUME NEW d \in Conns, Alive(d), peer_addr'[d] # None PROVE Follows(d)'
  <2> DEFINE h == Stream(d)  u == {i \in 1 .. l : i >= joined[d] /\ addr[lines[i]] # addr[d]}
  <2>1. /\ h \in Seq(Nat) /\ Stream(d)' = sent[d] \o transmits'[d] /\ h = sent[d] \o transmits[d]
        /\ sent[d] \in Seq(Nat) /\ transmits[d] \in Seq(Nat)
    BY <1>3, <1>4 DEF Stream
  <2>2. Stream(d)' = IF addr[d] # p THEN h \o new ELSE h
    <3>1. CASE addr[d] # p
      <4>1. transmits'[d] = transmits[d] \o new
        BY <1>13, <1>14, <1>20, <3>1
      <4>2. sent[d] \o (transmits[d] \o new) = (sent[d] \o transmits[d]) \o new
        <5> DEFINE a == sent[d]  b == transmits[d]
        <5>1. a \in Seq(Nat) /\ b \in Seq(Nat) /\ new \in Seq(Nat)
          BY <1>7, <2>1
        <5> HIDE DEF a, b
        <5>2. (a \o b) \o new = a \o (b \o new)
          BY <5>1, ConcatAssociative
        <5> QED
          BY <5>2 DEF a, b
      <4> QED
        BY <2>1, <3>1, <4>1, <4>2
    <3>2. CASE addr[d] = p
      BY <1>13, <1>14, <2>1, <3>2
    <3> QED
      BY <3>1, <3>2
  <2>3. CASE peer_addr[d] # None
    <3>1. Follows(d) /\ joined'[d] = joined[d] /\ joined[d] \in Nat /\ joined[d] <= l + 1
      BY <1>1, <1>4, <1>8, <1>20, <2>3 DEF Member, Spoken, l
    <3>2. Increasing(h) /\ \A i : Has(h, i) <=> i \in u
      BY <1>6, <3>1 DEF Follows, Due
    <3>3. Due(d)' = {i \in 1 .. l + n : i >= joined[d] /\ addr[lines'[i]] # addr[d]}
      BY <1>3, <1>6, <3>1 DEF Due
    <3>4. CASE addr[d] = p
      <4>1. Due(d)' = u
        <5>1. ASSUME NEW i \in 1 .. l + n, addr[lines'[i]] # addr[d] PROVE i \in 1 .. l
          <6>1. i \in 1 .. l \/ i \in l + 1 .. l + n
            BY <1>3
          <6> QED
            BY <1>6, <3>4, <5>1, <6>1 DEF p
        <5>2. \A i \in 1 .. l : i \in 1 .. l + n /\ lines'[i] = lines[i]
          BY <1>3, <1>6
        <5> QED
          BY <3>3, <5>1, <5>2
      <4> QED
        BY <2>2, <3>2, <3>4, <4>1 DEF Follows
    <3>5. CASE addr[d] # p
      <4>1. \A i : i \in Due(d)' <=> i \in u \/ i \in l + 1 .. l + n
        <5>1. \A i \in l + 1 .. l + n : i \in 1 .. l + n /\ i >= joined[d] /\ lines'[i] = c
          BY <1>3, <1>6, <3>1
        <5>2. \A i \in 1 .. l : i \in 1 .. l + n /\ lines'[i] = lines[i]
          BY <1>3, <1>6
        <5>3. \A i \in 1 .. l + n : i \in 1 .. l \/ i \in l + 1 .. l + n
          BY <1>3
        <5> QED
          BY <3>3, <3>5, <5>1, <5>2, <5>3 DEF p
      <4>2. \A i : Has(new, i) <=> i \in l + 1 .. l + n
        <5>1. ASSUME NEW i \in l + 1 .. l + n PROVE Has(new, i)
          <6>1. i - l \in 1 .. n /\ l + (i - l) = i
            BY <1>3
          <6> QED
            BY <1>7, <6>1 DEF Has
        <5>2. \A j \in 1 .. n : l + j \in l + 1 .. l + n
          BY <1>3
        <5> QED
          BY <1>7, <5>1, <5>2 DEF Has
      <4>3. Increasing(new)
        BY <1>3, <1>7 DEF Increasing
      <4>4. Below(h, new)
        <5>1. ASSUME NEW j \in DOMAIN h, NEW k \in DOMAIN new PROVE h[j] < new[k]
          <6>1. h[j] \in 1 .. l
            BY <3>2 DEF Has
          <6>2. new[k] = l + k /\ k \in 1 .. n
            BY <1>7
          <6> QED
            BY <1>3, <6>1, <6>2
        <5> QED
          BY <5>1 DEF Below
      <4> HIDE DEF h, u
      <4>5. h \in Seq(Nat) /\ new \in Seq(Nat) /\ Nat \in SUBSET Int /\ Increasing(h)
        BY <1>7, <2>1, <3>2
      <4>6. Increasing(h \o new)
        BY <4>3, <4>4, <4>5, ConcatIncreasing
      <4>7. \A i : Has(h \o new, i) <=> Has(h, i) \/ Has(new, i)
        BY <4>5, ConcatHas
      <4> QED
        BY <2>2, <3>2, <3>5, <4>1, <4>2, <4>6, <4>7 DEF Follows
    <3> QED
      BY <3>4, <3>5
  <2>4. CASE peer_addr[d] = None
    <3>1. d = c /\ addr[d] = p /\ joined'[d] = l + 1
      BY <1>4, <1>8, <1>9, <1>20, <2>4 DEF p
    <3>2. Stream(d)' = <<>>
      BY <1>1, <2>1, <2>2, <2>4, <3>1 DEF Strangers
    <3>3. Due(d)' = {}
      <4>1. \A i \in 1 .. l + n : i >= l + 1 => i \in l + 1 .. l + n
        BY <1>3
      <4>2. \A i \in DOMAIN lines' : i >= joined'[d] => addr'[lines'[i]] = addr'[d]
        BY <1>3, <1>6, <3>1, <4>1 DEF p
      <4> QED
        BY <4>2 DEF Due
    <3>4. Increasing(<<>>) /\ \A i : ~Has(<<>>, i)
      BY DEF Increasing, Has
    <3> QED
      BY <3>2, <3>3, <3>4 DEF Follows
  <2> QED
    BY <2>3, <2>4
<1>21. MembersHear'
  <2>1. (\A d \in Conns : Member(d) => Follows(d))'
    BY <1>10, <1>20 DEF Member
  <2> QED
    BY <2>1, MembersHearNext
<1> QED
  BY <1>16, <1>17, <1>18, <1>19, <1>21 DEF IInv

(* Every step keeps the invariant, and so does every behaviour. *)
LEMMA NextIInv == IInv /\ [Next]_vars => IInv'
<1> SUFFICES ASSUME IInv, [Next]_vars PROVE IInv'
  OBVIOUS
<1>1. CASE \E c \in Conns : Task(c)
  BY <1>1, StartKeeps, ReadKeeps, EndKeeps, WriteKeeps DEF Task
<1>2. CASE \E c \in Conns, p \in Addrs : Accept(c, p)
  BY <1>2, AcceptKeeps
<1>3. CASE (\E c \in Conns : Type(c) \/ Hangup(c)) \/ Stop \/ UNCHANGED vars
  BY <1>3, OutsideKeeps
<1> QED
  BY <1>1, <1>2, <1>3 DEF Next

LEMMA Invariant == Spec => []IInv
  BY InitIInv, NextIInv, PTL DEF Spec

(* The map of the peers agrees with what the handlers think, for any       *)
(* sockets and addresses, also if a peer comes back from the same address. *)
THEOREM EntriesAgree == Spec => []Entries
<1>1. IInv => Entries
  BY DEF IInv
<1> QED
  BY <1>1, Invariant, PTL

(* Every member hears each line of the others after it joined once and in  *)
(* order.                                                                  *)
THEOREM AllMembersHear == Spec => []MembersHear
<1>1. IInv => MembersHear
  BY DEF IInv
<1> QED
  BY <1>1, Invariant, PTL

-----------------------------------------------------------------------------
-----------------------------------------------------------------------------
(* Elements that move from one sequence to the next one. *)
LEMMA HeadMoves ==
  ASSUME NEW S, NEW s \in Seq(S), NEW t \in Seq(S), t # <<>>
  PROVE  /\ Head(t) \in S /\ Tail(t) \in Seq(S) /\ Len(Tail(t)) = Len(t) - 1
         /\ Append(s, Head(t)) \in Seq(S) /\ Append(s, Head(t)) \o Tail(t) = s \o t
  OBVIOUS

(* What is appended to the second of two sequences is the last of both. *)
LEMMA AppendConcat ==
  ASSUME NEW S, NEW s \in Seq(S), NEW t \in Seq(S), NEW x \in S
  PROVE  s \o Append(t, x) = Append(s \o t, x)
  OBVIOUS

(* The numbers up to n, one after the other. *)
LEMMA OneMore ==
  ASSUME NEW n \in Nat
  PROVE  Append([i \in 1 .. n |-> i], n + 1) = [i \in 1 .. n + 1 |-> i]
<1> DEFINE s == [i \in 1 .. n |-> i]
<1>1. s \in Seq(Nat) /\ Len(s) = n /\ \A i \in 1 .. n : s[i] = i
  OBVIOUS
<1> HIDE DEF s
<1>2. Append(s, n + 1) = [i \in 1 .. n + 1 |-> i]
  BY <1>1
<1> QED
  BY <1>2 DEF s

(* ------------------------------------------------------------ the client *)
(* What EveryLineOnce needs besides: a write has something to write.       *)
ClientInv == EveryLineOnce /\ (phase = "write" => transmits # <<>>)

(* Nothing is on its way. *)
LEMMA ClientInvInit == ASSUME ClientInit PROVE ClientInv
<1>1. /\ input = <<>> /\ reader = "reading" /\ channel = <<>> /\ main = "awaiting"
      /\ transmits = <<>> /\ phase = "start" /\ closed = FALSE
      /\ sent = <<>> /\ echoes = 0 /\ server = "up"
  BY DEF ClientInit
<1>2. MaxInput \in Nat /\ Capacity \in Nat /\ 0 \in 0 .. 0 /\ Len(<<>>) = 0
  BY EchoClientAssumption
<1>3. ClientTypeOK
  <2>1. Len(input) <= MaxInput /\ Len(channel) <= Capacity /\ echoes \in 0 .. Len(sent)
    BY <1>1, <1>2
  <2>2. /\ input \in Seq({"text", "bye", "empty"}) /\ channel \in Seq(Lines)
        /\ transmits \in Seq(Lines) /\ sent \in Seq(Lines)
    BY <1>1
  <2> QED
    BY <1>1, <2>1, <2>2 DEF ClientTypeOK
<1>4. <<>> \o <<>> \o <<>> = [i \in 1 .. Len(<<>> \o <<>> \o <<>>) |-> i] /\ Len(<<>> \o <<>> \o <<>>) = 0
  OBVIOUS
<1> QED
  BY <1>1, <1>3, <1>4 DEF ClientInv, EveryLineOnce

AllLines == sent \o transmits \o channel
InOrder ==
  /\ AllLines = [i \in 1 .. Len(AllLines) |-> i]
  /\ Len(AllLines) \in {Len(input), Len(input) - 1}
  /\ reader = "reading" => Len(AllLines) = Len(input)

(* The invariant, with the lines on their way as one sequence. *)
LEMMA ClientInvIs ==
  ClientInv <=> ClientTypeOK /\ (phase = "write" => transmits # <<>>) /\ (phase # "done" => InOrder)
  BY DEF ClientInv, EveryLineOnce, AllLines, InOrder

LEMMA ClientInvNext ==
  (ClientTypeOK /\ (phase = "write" => transmits # <<>>) /\ (phase # "done" => InOrder))' => ClientInv'
  BY ClientInvIs, PTL

(* Steps that leave the lines and where they are, if the connection lives. *)
LEMMA ClientSilent ==
  ASSUME ClientInv, UNCHANGED <<input, reader, channel, sent>>,
         main' \in {"awaiting", "looping", "stopping", "done"}, closed' \in BOOLEAN,
         phase' \in {"start", "select", "write", "done"}, server' \in {"up", "closed"},
         echoes' \in 0 .. Len(sent),
         phase' # "done" => phase # "done" /\ transmits' = transmits,
         phase' = "done" => transmits' \in {<<>>, transmits},
         phase' = "write" => transmits # <<>>
  PROVE  ClientInv'
<1>1. ClientTypeOK'
  <2>1. ClientTypeOK
    BY ClientInvIs
  <2>2. transmits' \in Seq(Lines)
    <3>1. transmits \in Seq(Lines) /\ <<>> \in Seq(Lines)
      BY <2>1 DEF ClientTypeOK
    <3> QED
      BY <3>1
  <2> QED
    BY <2>1, <2>2 DEF ClientTypeOK
<1>2. ASSUME phase' # "done" PROVE InOrder'
  BY <1>2, ClientInvIs DEF InOrder, AllLines
<1>3. phase' = "write" => transmits' # <<>>
  OBVIOUS
<1> QED
  BY <1>1, <1>2, <1>3, ClientInvNext

(* The thread numbers what it passes on.  *)
LEMMA ClientTypes ==
  ASSUME ClientInv,
         NEW kind \in {"text", "bye", "empty"}, Input(kind)
  PROVE  ClientInv'
<1> DEFINE m == Len(input)
<1>1. /\ ClientTypeOK /\ (phase = "write" => transmits # <<>>) /\ (phase # "done" => InOrder)
  BY ClientInvIs
<1>2. /\ reader = "reading" /\ m < MaxInput /\ input' = Append(input, kind)
      /\ UNCHANGED <<transmits, phase, main, closed, sent, echoes, server>>
      /\ \/ reader' = "ended" /\ UNCHANGED channel
         \/ channel' = Append(channel, m + 1) /\ reader' \in {"reading", "ended"} /\ Len(channel) # Capacity
  BY DEF Input, PassOn, app, net
<1>3. /\ m \in Nat /\ MaxInput \in Nat /\ m + 1 \in Lines /\ Len(input') = m + 1
      /\ input' \in Seq({"text", "bye", "empty"}) /\ Lines \subseteq Nat
      /\ channel \in Seq(Lines) /\ transmits \in Seq(Lines) /\ sent \in Seq(Lines)
      /\ Len(channel) <= Capacity /\ Capacity \in Nat
  BY <1>1, <1>2, EchoClientAssumption DEF ClientTypeOK, Lines
<1>4. /\ Append(channel, m + 1) \in Seq(Lines)
      /\ Len(Append(channel, m + 1)) = Len(channel) + 1 /\ Len(channel) \in Nat
  BY <1>3
<1>5. ClientTypeOK'
  <2>1. channel' \in Seq(Lines) /\ Len(channel') <= Capacity /\ reader' \in {"reading", "ended"}
    <3>1. CASE reader' = "ended" /\ UNCHANGED channel
      BY <1>3, <3>1
    <3>2. CASE channel' = Append(channel, m + 1) /\ reader' \in {"reading", "ended"} /\ Len(channel) # Capacity
      <4> HIDE DEF m
      <4>1. Len(channel) + 1 <= Capacity
        BY <1>3, <1>4, <3>2
      <4> QED
        BY <1>4, <3>2, <4>1
    <3> QED
      BY <1>2, <3>1, <3>2
  <2>2. Len(input') <= MaxInput
    BY <1>2, <1>3
  <2> QED
    BY <1>1, <1>2, <1>3, <2>1, <2>2 DEF ClientTypeOK
<1>6. ASSUME phase # "done" PROVE InOrder'
  <2> DEFINE a == sent \o transmits
  <2>1. /\ AllLines = [i \in 1 .. m |-> i] /\ Len(AllLines) = m
    BY <1>1, <1>2, <1>6 DEF InOrder
  <2>2. a \in Seq(Lines) /\ AllLines = a \o channel
    BY <1>3 DEF AllLines
  <2>3. CASE reader' = "ended" /\ UNCHANGED channel
    <3>1. AllLines' = AllLines
      BY <1>2, <2>3 DEF AllLines
    <3> QED
      BY <1>3, <2>1, <2>3, <3>1 DEF InOrder
  <2>4. CASE channel' = Append(channel, m + 1)
    <3>1. AllLines' = a \o Append(channel, m + 1)
      BY <1>2, <2>4 DEF AllLines
    <3> HIDE DEF a, m
    <3>2. AllLines' = Append(AllLines, m + 1)
      BY <1>3, <2>2, <3>1, AppendConcat
    <3>3. AllLines' = [i \in 1 .. m + 1 |-> i]
      BY <1>3, <2>1, <3>2, OneMore
    <3>4. Len(AllLines') = m + 1
      BY <1>3, <3>3
    <3> QED
      BY <1>3, <3>3, <3>4 DEF InOrder
  <2> QED
    BY <1>2, <2>3, <2>4
<1> QED
  BY <1>1, <1>2, <1>5, <1>6, ClientInvNext

(* main takes a line from the channel into the queue. *)
LEMMA ClientTakes ==
  ASSUME ClientInv, TakeLine
  PROVE  ClientInv'
<1>1. /\ ClientTypeOK /\ (phase = "write" => transmits # <<>>) /\ (phase # "done" => InOrder)
  BY ClientInvIs
<1>2. /\ channel # <<>> /\ channel' = Tail(channel)
      /\ transmits' = IF phase = "done" THEN transmits ELSE Append(transmits, Head(channel))
      /\ main' \in {"looping", "stopping"} /\ closed' \in {TRUE, closed}
      /\ UNCHANGED <<input, reader, phase, sent, echoes, server>>
  BY DEF TakeLine, GracefulStop, app, net
<1>3. /\ channel \in Seq(Lines) /\ transmits \in Seq(Lines) /\ sent \in Seq(Lines)
      /\ Len(channel) <= Capacity /\ Capacity \in Nat
  BY <1>1, EchoClientAssumption DEF ClientTypeOK
<1>4. /\ Head(channel) \in Lines /\ Tail(channel) \in Seq(Lines)
      /\ Len(Tail(channel)) = Len(channel) - 1 /\ Len(channel) \in Nat
      /\ Append(transmits, Head(channel)) \in Seq(Lines) /\ Append(transmits, Head(channel)) # <<>>
  <2>1. Append(transmits, Head(channel)) # <<>> /\ Len(channel) \in Nat
    BY <1>3
  <2> QED
    BY <1>2, <1>3, <2>1, HeadMoves
<1>5. ClientTypeOK'
  <2>1. Len(channel') <= Capacity /\ channel' \in Seq(Lines)
    BY <1>2, <1>3, <1>4
  <2>2. transmits' \in Seq(Lines)
    BY <1>2, <1>3, <1>4
  <2> QED
    BY <1>1, <1>2, <2>1, <2>2 DEF ClientTypeOK
<1>6. phase' = "write" => transmits' # <<>>
  BY <1>1, <1>2, <1>4
<1>7. ASSUME phase # "done" PROVE InOrder'
  <2> DEFINE a == sent \o transmits
  <2>1. a \in Seq(Lines) /\ AllLines = a \o channel
    BY <1>3 DEF AllLines
  <2>2. sent \o Append(transmits, Head(channel)) = Append(a, Head(channel))
    BY <1>3, <1>4, AppendConcat
  <2>3. AllLines' = Append(a, Head(channel)) \o Tail(channel)
    BY <1>2, <1>7, <2>2 DEF AllLines
  <2> HIDE DEF a
  <2>4. AllLines' = AllLines
    BY <1>2, <1>3, <2>1, <2>3, HeadMoves
  <2> QED
    BY <1>1, <1>2, <1>7, <2>4 DEF InOrder
<1> QED
  BY <1>2, <1>5, <1>6, <1>7, ClientInvNext

(* The task gives the first message of the queue to the socket. *)
LEMMA LineWritten ==
  ASSUME ClientInv, ClientWrites \/ ClientWriteError
  PROVE  ClientInv'
<1>1. /\ ClientTypeOK /\ (phase = "write" => transmits # <<>>) /\ (phase # "done" => InOrder)
  BY ClientInvIs
<1>2. /\ phase = "write" /\ transmits # <<>>
      /\ sent' = Append(sent, Head(transmits)) /\ transmits' = Tail(transmits)
      /\ phase' \in {"select", "write"} /\ (phase' = "write" => transmits' # <<>>)
      /\ UNCHANGED <<input, reader, channel, main, closed, echoes, server>>
  BY <1>1 DEF ClientWrites, ClientWriteError, TaskRuns, ClientProceed, app
<1>3. /\ channel \in Seq(Lines) /\ transmits \in Seq(Lines) /\ sent \in Seq(Lines)
      /\ echoes \in 0 .. Len(sent)
  BY <1>1 DEF ClientTypeOK
<1>4. /\ sent' \in Seq(Lines) /\ transmits' \in Seq(Lines)
      /\ sent' \o transmits' = sent \o transmits
  BY <1>2, <1>3, HeadMoves
<1>5. ClientTypeOK'
  <2>1. Len(sent') = Len(sent) + 1 /\ Len(sent) \in Nat
    BY <1>2, <1>3
  <2>2. echoes' \in 0 .. Len(sent')
    BY <1>2, <1>3, <2>1
  <2> QED
    BY <1>1, <1>2, <1>4, <2>2 DEF ClientTypeOK
<1>6. AllLines' = AllLines
  BY <1>2, <1>4 DEF AllLines
<1> QED
  BY <1>1, <1>2, <1>5, <1>6, ClientInvNext DEF InOrder

(* One step for each branch of the client's loops. *)
LEMMA ClientInvKept ==
  ASSUME ClientInv, [ClientNext]_clientvars
  PROVE  ClientInv'
<1>1. CASE \E kind \in {"text", "bye", "empty"} : Input(kind)
  BY <1>1, ClientTypes
<1>2. CASE TakeLine
  BY <1>2, ClientTakes
<1>3. CASE ClientWrites \/ ClientWriteError
  BY <1>3, LineWritten
<1>4. CASE \/ Wakes \/ Awaits \/ LoopEnds \/ Returns
           \/ ClientStarts \/ ClientReads \/ ClientReadError \/ ClientEof \/ CloseBranch
           \/ ClientDay \/ Echo \/ ServerCloses \/ UNCHANGED clientvars
  <2>1. /\ main \in {"awaiting", "looping", "stopping", "done"} /\ closed \in BOOLEAN
        /\ phase \in {"start", "select", "write", "done"} /\ server \in {"up", "closed"}
        /\ echoes \in 0 .. Len(sent) /\ Len(sent) \in Nat /\ (phase = "write" => transmits # <<>>)
    BY ClientInvIs DEF ClientTypeOK
  <2>2. CASE Wakes \/ Awaits \/ LoopEnds \/ Returns
    BY <2>1, <2>2, ClientSilent
    DEF Wakes, Awaits, LoopEnds, Returns, GracefulStop, net
  <2>3. CASE ClientStarts \/ ClientDay
    BY <2>1, <2>3, ClientSilent
    DEF ClientStarts, ClientDay, TaskRuns, ClientProceed, app, net
  <2>4. CASE ClientReads
    <3>1. echoes' \in 0 .. Len(sent)
      BY <2>1, <2>4 DEF ClientReads
    <3> QED
      BY <2>1, <2>4, <3>1, ClientSilent DEF ClientReads, TaskRuns, ClientProceed, app
  <2>5. CASE ClientReadError \/ ClientEof \/ CloseBranch
    BY <2>1, <2>5, ClientSilent DEF ClientReadError, ClientEof, CloseBranch, ClientEnd, app, net
  <2>6. CASE Echo
    <3>1. echoes' \in 0 .. Len(sent)
      BY <2>1, <2>6 DEF Echo
    <3> QED
      BY <2>1, <2>6, <3>1, ClientSilent DEF Echo, app
  <2>7. CASE ServerCloses \/ UNCHANGED clientvars
    BY <2>1, <2>7, ClientSilent DEF ServerCloses, clientvars, app, net
  <2> QED
    BY <1>4, <2>2, <2>3, <2>4, <2>5, <2>6, <2>7
<1> QED
  BY <1>1, <1>2, <1>3, <1>4 DEF ClientNext, Program

(* The lines of the client, for any user, any channel and any server: each *)
(* is in one place, in order, as long as the connection lives.             *)
THEOREM ClientKeepsLines == ClientSpec => []EveryLineOnce
<1>1. ClientInit => ClientInv
  BY ClientInvInit
<1>2. ClientInv /\ [ClientNext]_clientvars => ClientInv'
  BY ClientInvKept
<1>3. ClientInv => EveryLineOnce
  BY DEF ClientInv
<1> QED
  BY <1>1, <1>2, <1>3, PTL DEF ClientSpec

-----------------------------------------------------------------------------
(* ------------------------------------------------- the chat over UDP *)
(* What was given to the socket or waits; before the next piece; one line  *)
(* before another.                                                         *)
Wire == sent \o transmits
Past(i, a) == i < Number \/ (i = Number /\ a <= at)
Before(x, y) == x.buf < y.buf \/ (x.buf = y.buf /\ x.at < y.at)

(* The parts of DamageBounded: in order, only what may be, all that must. *)
Sorted == \A j, k \in DOMAIN handled : j < k => Before(handled[j], handled[k])
Sound == \A k \in DOMAIN handled : ~Lost(handled[k].buf) /\ handled[k].at \in Whole(handled[k].buf)
Complete == \A i \in 1 .. Len(arrived) : \A a \in Whole(i) :
  ~Lost(i) /\ Past(i, a) => \E k \in DOMAIN handled : handled[k] = [buf |-> i, at |-> a]

(* What the decoder is in the midst of, and who takes part after what is   *)
(* handled; when the queue is empty.                                       *)
Midst ==
  /\ discarding <=> Lost(Number)
  /\ discarding => at = 0
  /\ at > 0 => unread > 0 /\ at \in Whole(Number)
  /\ \A k \in DOMAIN handled : Past(handled[k].buf, handled[k].at)
Mode ==
  /\ IsFiniteSet(members)
  /\ \A p \in Peers : p \in members <=> TakesPart(p, Len(handled) + 1)
  /\ phase = "send" => transmits # <<>>
  /\ phase = "done" \/ (failed = {} /\ phase = "select") => transmits = <<>>

(* The copies in w for p are in order; one of them is of line n; what p is *)
(* given, of what it should hear.                                          *)
Ordered(w, p) == \A j, k \in DOMAIN w : w[j].to = p /\ w[k].to = p /\ j < k => w[j].line < w[k].line
Told(w, p, n) == \E k \in DOMAIN w : w[k].to = p /\ w[k].line = n
Hears(p) ==
  /\ Ordered(Wire, p)
  /\ \A n : Told(Wire, p, n) => n \in Heard(p)
  /\ \A k \in Heard(p) : \A l : k < l /\ Told(Wire, p, l) => Told(Wire, p, k)
  /\ phase # "done" \/ failed = {} => \A k \in Heard(p) : Told(Wire, p, k)

UdpInv == UdpTypeOK /\ Sorted /\ Sound /\ Complete /\ Midst /\ Mode /\ \A p \in Peers : Hears(p)

LEMMA UdpInvDamage == UdpInv => DamageBounded
  BY DEF UdpInv, DamageBounded, Sorted, Sound, Complete, Past, Before, ToSet

LEMMA UdpInvHears == UdpInv => OneConversation
<1> SUFFICES ASSUME UdpInv, NEW p \in Peers PROVE HearsOnly(p)
  BY DEF OneConversation
<1>1. Hears(p) /\ Mode /\ UdpTypeOK
  BY DEF UdpInv
<1> DEFINE w == Wire
<1>2. \A n : n \in Given(p, w) <=> Told(w, p, n)
  BY DEF Given, Told
<1>3. /\ \A i, j \in DOMAIN w : i < j /\ w[i].to = p /\ w[j].to = p => w[i].line < w[j].line
      /\ Given(p, w) \subseteq Heard(p)
      /\ \A k \in Heard(p), l \in Given(p, w) : k < l => k \in Given(p, w)
      /\ phase # "done" => Heard(p) \subseteq Given(p, w)
      /\ failed = {} => Given(p, w) = Heard(p)
  BY <1>1, <1>2 DEF Hears, Ordered
<1>4. failed = {} /\ phase \in {"select", "done"} => w = sent
  <2>1. sent \o <<>> = sent
    BY <1>1 DEF UdpTypeOK
  <2> QED
    BY <1>1, <2>1 DEF Mode, Wire
<1> QED
  BY <1>3, <1>4 DEF HearsOnly, Wire

(* Buffers and lines after which more come are still what they were. *)
LEMMA StillSays ==
  ASSUME NEW m \in Nat,
         \A k \in 1 .. m : handled'[k] = handled[k] /\ arrived'[handled[k].buf] = arrived[handled[k].buf]
  PROVE  /\ \A k \in 1 .. m : (Speaks(k)' <=> Speaks(k)) /\ From(k)' = From(k)
         /\ \A p : \A k \in 1 .. m + 1 : TakesPart(p, k)' <=> TakesPart(p, k)
<1>1. \A k \in 1 .. m : (Speaks(k)' <=> Speaks(k)) /\ From(k)' = From(k)
  BY DEF Speaks, From
<1>2. ASSUME NEW p, NEW k \in 1 .. m + 1 PROVE TakesPart(p, k)' <=> TakesPart(p, k)
  <2>1. 1 .. k - 1 \subseteq 1 .. m
    OBVIOUS
  <2>2. SaidBefore(p, k)' = SaidBefore(p, k)
    BY <1>1, <2>1 DEF SaidBefore
  <2>3. SaidBefore(p, k) \subseteq 1 .. m
    BY <2>1 DEF SaidBefore
  <2> QED
    BY <1>1, <2>2, <2>3 DEF TakesPart
<1> QED
  BY <1>1, <1>2

LEMMA StillHeard ==
  ASSUME DOMAIN handled = 1 .. Len(handled), Len(handled) \in Nat, handled' = handled,
         \A k \in 1 .. Len(handled) : arrived'[handled[k].buf] = arrived[handled[k].buf]
  PROVE  /\ \A p : TakesPart(p, Len(handled) + 1)' <=> TakesPart(p, Len(handled) + 1)
         /\ \A p : Heard(p)' = Heard(p)
<1> DEFINE m == Len(handled)
<1>1. m \in Nat /\ m + 1 \in 1 .. m + 1 /\ \A k \in 1 .. m : k \in 1 .. m + 1
  OBVIOUS
<1>2. /\ \A k \in 1 .. m : (Speaks(k)' <=> Speaks(k)) /\ From(k)' = From(k)
      /\ \A p : \A k \in 1 .. m + 1 : TakesPart(p, k)' <=> TakesPart(p, k)
  BY StillSays
<1>3. \A p : TakesPart(p, m + 1)' <=> TakesPart(p, m + 1)
  BY <1>1, <1>2 DEF TakesPart, SaidBefore, Speaks, From
<1>4. \A p : Heard(p)' = Heard(p)
  BY <1>1, <1>2 DEF Heard
<1> QED
  BY <1>3, <1>4

LEMMA StillLost ==
  ASSUME NEW m \in Nat, \A i \in 1 .. m : arrived'[i] = arrived[i],
         \A i \in 1 .. m : Damages(i)' <=> Damages(i)
  PROVE  \A i \in 1 .. m + 1 : Lost(i)' <=> Lost(i)
<1> TAKE i \in 1 .. m + 1
<1>1. 1 .. i - 1 \subseteq 1 .. m /\ \A j \in 1 .. i - 1 : j + 1 .. i - 1 \subseteq 1 .. m
  OBVIOUS
<1>2. \A j \in 1 .. m : Begins(j)' <=> Begins(j)
  BY DEF Begins
<1> QED
  BY <1>1, <1>2 DEF Lost

(* The next buffer is lost by the damage of this one, or as this one was. *)
LEMMA LostNext ==
  ASSUME NEW i \in Nat, i > 0
  PROVE  Lost(i + 1) <=> Damages(i) \/ (Lost(i) /\ ~Begins(i))
<1>1. /\ \A j \in 1 .. (i + 1) - 1 : j \in 1 .. i - 1 \/ j = i
      /\ i \in 1 .. (i + 1) - 1 /\ 1 .. i - 1 \subseteq 1 .. (i + 1) - 1
      /\ i + 1 .. (i + 1) - 1 = {}
      /\ \A j \in 1 .. i - 1 : j + 1 .. (i + 1) - 1 = (j + 1 .. i - 1) \cup {i}
  OBVIOUS
<1> QED
  BY <1>1 DEF Lost

(* Who takes part after the next line is handled. *)
LEMMA TakesPartNext ==
  ASSUME NEW m \in Nat, NEW p
  PROVE  TakesPart(p, m + 2) <=> IF From(m + 1) = p THEN Speaks(m + 1) ELSE TakesPart(p, m + 1)
<1>1. /\ (m + 2) - 1 = m + 1 /\ (m + 1) - 1 = m
      /\ 1 .. m + 1 = (1 .. m) \cup {m + 1}
      /\ \A i \in 1 .. m : i <= m + 1 /\ ~(m + 1 <= i)
  OBVIOUS
<1>2. CASE From(m + 1) = p
  <2>1. SaidBefore(p, m + 2) = SaidBefore(p, m + 1) \cup {m + 1}
    BY <1>1, <1>2 DEF SaidBefore
  <2>2. SaidBefore(p, m + 1) \subseteq 1 .. m
    BY <1>1 DEF SaidBefore
  <2>3. m + 1 <= m + 1
    OBVIOUS
  <2> QED
    BY <1>1, <1>2, <2>1, <2>2, <2>3 DEF TakesPart
<1>3. CASE From(m + 1) # p
  <2>1. SaidBefore(p, m + 2) = SaidBefore(p, m + 1)
    BY <1>1, <1>3 DEF SaidBefore
  <2> QED
    BY <1>3, <2>1 DEF TakesPart
<1> QED
  BY <1>2, <1>3

(* A list of a finite set has each element once. *)
LEMMA ListsAll ==
  ASSUME NEW S, IsFiniteSet(S), NEW order \in SetToSeqs(S)
  PROVE  /\ order \in Seq(S) /\ DOMAIN order = 1 .. Len(order)
         /\ \A x \in S : \E i \in 1 .. Len(order) : order[i] = x
         /\ \A i, j \in 1 .. Len(order) : order[i] = order[j] => i = j
<1> DEFINE n == Cardinality(S)
<1>1. n \in Nat
  BY FS_CardinalityType
<1>2. order \in [1 .. n -> S] /\ \A i, j \in 1 .. n : i # j => order[i] # order[j]
  BY DEF SetToSeqs
<1> HIDE DEF n
<1>3. order \in Seq(S) /\ Len(order) = n
  BY <1>1, <1>2
<1>4. order \in Injection(1 .. n, S)
  BY <1>2 DEF Injection, IsInjective
<1>5. Cardinality(1 .. n) = n
  BY <1>1, FS_Interval
<1>6. order \in Surjection(1 .. n, S)
  BY <1>4, <1>5, FS_Injection DEF n
<1>7. \A x \in S : \E i \in 1 .. n : order[i] = x
  BY <1>6 DEF Surjection
<1> QED
  BY <1>2, <1>3, <1>7

(* Two sequences one after the other, by index. *)
LEMMA ConcatParts ==
  ASSUME NEW S, NEW s \in Seq(S), NEW t \in Seq(S)
  PROVE  /\ Len(s) \in Nat /\ Len(t) \in Nat
         /\ DOMAIN s = 1 .. Len(s) /\ DOMAIN (s \o t) = 1 .. Len(s) + Len(t)
         /\ \A j \in 1 .. Len(s) : (s \o t)[j] = s[j]
         /\ \A j \in 1 .. Len(t) : (s \o t)[Len(s) + j] = t[j]
  OBVIOUS

(* The copies in w are of lines before n; t is one of n for each of S. *)
Earlier(w, n) == \A j \in DOMAIN w : w[j].line \in Nat /\ w[j].line < n
CopiesOf(t, n, S) ==
  /\ \A j \in 1 .. Len(t) : t[j].line = n /\ t[j].to \in S
  /\ \A x \in S : \E j \in 1 .. Len(t) : t[j].to = x
  /\ \A i, j \in 1 .. Len(t) : t[i].to = t[j].to => i = j

(* A line is broadcast: what comes last is a copy for each of S. *)
LEMMA CopiesAppended ==
  ASSUME NEW R, NEW w \in Seq(R), NEW t \in Seq(R), NEW v, NEW n, NEW S, NEW p, NEW q,
         v = w \o t, Earlier(w, n), CopiesOf(t, n, S)
  PROVE  /\ Ordered(w, p) => Ordered(v, p)
         /\ Told(w, p, q) => Told(v, p, q)
         /\ p \in S => Told(v, p, n)
         /\ Told(v, p, q) /\ ~Told(w, p, q) => q = n /\ p \in S
<1> DEFINE a == Len(w)
           b == Len(t)
<1>5. /\ a \in Nat /\ DOMAIN w = 1 .. a /\ DOMAIN v = 1 .. a + b
      /\ \A j \in 1 .. a : v[j] = w[j]
      /\ \A j \in 1 .. b : v[a + j] = t[j]
  <2>1. a = Len(w) /\ b = Len(t)
    OBVIOUS
  <2> HIDE DEF a, b
  <2>3. /\ Len(w) \in Nat /\ DOMAIN w = 1 .. Len(w) /\ DOMAIN (w \o t) = 1 .. Len(w) + Len(t)
        /\ \A j \in 1 .. Len(w) : (w \o t)[j] = w[j]
        /\ \A j \in 1 .. Len(t) : (w \o t)[Len(w) + j] = t[j]
    <3>1. \A x, y \in Seq(R) :
            /\ Len(x) \in Nat /\ DOMAIN x = 1 .. Len(x) /\ DOMAIN (x \o y) = 1 .. Len(x) + Len(y)
            /\ \A j \in 1 .. Len(x) : (x \o y)[j] = x[j]
            /\ \A j \in 1 .. Len(y) : (x \o y)[Len(x) + j] = y[j]
      BY ConcatParts
    <3> QED
      BY <3>1, Zenon
  <2> QED
    BY <2>1, <2>3, Zenon
<1>6. \A j \in 1 .. a : w[j].line \in Nat /\ w[j].line < n
  BY <1>5 DEF Earlier
<1>2. b \in Nat /\ \A j \in 1 .. b : t[j].line = n /\ t[j].to \in S
  BY DEF CopiesOf
<1>3. /\ \A x \in S : \E j \in 1 .. b : t[j].to = x
      /\ \A i, j \in 1 .. b : t[i].to = t[j].to => i = j
  BY DEF CopiesOf
<1> HIDE DEF a, b
<1>7. \A j \in 1 .. a + b : j \in 1 .. a \/ (j - a \in 1 .. b /\ j = a + (j - a))
  BY <1>2, <1>5
<1>8. \A j \in 1 .. b : a + j \in 1 .. a + b /\ a + j \notin 1 .. a
  BY <1>2, <1>5
<1>9. 1 .. a \subseteq 1 .. a + b
  BY <1>2, <1>5
<1>10. /\ \A j \in 1 .. a : v[j].to = w[j].to /\ v[j].line = w[j].line
       /\ \A j \in 1 .. b : v[a + j].to = t[j].to /\ v[a + j].line = n
  BY <1>2, <1>5
<1>11. \A j \in 1 .. a + b : j \notin 1 .. a => v[j].to = t[j - a].to /\ v[j].line = n /\ j - a \in 1 .. b
  <2> SUFFICES ASSUME NEW j \in 1 .. a + b, j \notin 1 .. a, NEW k, k = j - a
               PROVE  v[j].to = t[k].to /\ v[j].line = n /\ k \in 1 .. b
    OBVIOUS
  <2>1. k \in 1 .. b /\ j = a + k
    BY <1>7
  <2> QED
    BY <1>10, <2>1
<1>12. /\ Told(w, p, q) => Told(v, p, q)
       /\ p \in S => Told(v, p, n)
       /\ Told(v, p, q) /\ ~Told(w, p, q) => q = n /\ p \in S
  <2>1. ASSUME Told(v, p, q), ~Told(w, p, q) PROVE q = n /\ p \in S
    <3>1. PICK k \in 1 .. a + b : v[k].to = p /\ v[k].line = q
      BY <1>5, <2>1 DEF Told
    <3>2. k \notin 1 .. a
      BY <1>5, <1>10, <2>1, <3>1 DEF Told
    <3> QED
      BY <1>2, <1>11, <3>1, <3>2
  <2>2. ASSUME Told(w, p, q) PROVE Told(v, p, q)
    BY <1>5, <1>9, <1>10, <2>2 DEF Told
  <2>3. ASSUME p \in S PROVE Told(v, p, n)
    <3>1. PICK j \in 1 .. b : t[j].to = p
      BY <1>3, <2>3
    <3> QED
      BY <1>5, <1>8, <1>10, <2>3, <3>1, <1>2 DEF Told
  <2> QED
    BY <2>1, <2>2, <2>3
<1>13. ASSUME Ordered(w, p) PROVE Ordered(v, p)
  <2> SUFFICES ASSUME NEW j \in 1 .. a + b, NEW k \in 1 .. a + b, v[j].to = p, v[k].to = p, j < k
               PROVE  v[j].line < v[k].line
    BY <1>5 DEF Ordered
  <2>1. CASE j \in 1 .. a /\ k \in 1 .. a
    BY <1>5, <1>10, <1>13, <2>1 DEF Ordered
  <2>2. CASE j \in 1 .. a /\ k \notin 1 .. a
    BY <1>6, <1>10, <1>11, <2>2
  <2>3. CASE j \notin 1 .. a
    <3>1. k \notin 1 .. a
      BY <1>2, <1>5, <2>3
    <3>2. t[j - a].to = t[k - a].to /\ j - a \in 1 .. b /\ k - a \in 1 .. b
      BY <1>11, <2>3, <3>1
    <3>3. j - a = k - a
      BY <1>3, <3>2
    <3>4. j = k
      BY <1>2, <1>5, <3>3
    <3> QED
      BY <3>4
  <2> QED
    BY <2>1, <2>2, <2>3
<1> QED
  BY <1>12, <1>13

(* What is in a sequence over a set is in one over a larger set. *)
LEMMA WiderSeq ==
  ASSUME NEW A, NEW B, A \subseteq B
  PROVE  \A s \in Seq(A) : s \in Seq(B)
  OBVIOUS

-----------------------------------------------------------------------------
(* What a filled buffer is. *)
Filled(b) ==
  /\ b.from \in Peers /\ Len(b.lines) \in Nat /\ Len(b.lines) > 0 /\ DOMAIN b.lines = 1 .. Len(b.lines)
  /\ \A a \in 1 .. Len(b.lines) : b.lines[a] \in Kinds
  /\ \A a \in 1 .. Len(b.lines) - 1 : b.lines[a] # "rest"

LEMMA ContentFilled ==
  ASSUME NEW d \in Contents
  PROVE  /\ Len(d) \in Nat /\ Len(d) > 0 /\ DOMAIN d = 1 .. Len(d)
         /\ \A a \in 1 .. Len(d) : d[a] \in Kinds
         /\ \A a \in 1 .. Len(d) - 1 : d[a] # "rest"
<1>1. d \in Seq(Kinds) /\ d # <<>> /\ \A i \in 1 .. Len(d) - 1 : d[i] # "rest"
  BY ChatUdpAssumption
<1> HIDE DEF Kinds
<1> QED
  BY <1>1

(* What the types say of the sequences. *)
LEMMA UdpTypes ==
  ASSUME UdpTypeOK
  PROVE  /\ Len(arrived) \in Nat /\ unread \in Nat /\ Number \in 1 .. Len(arrived) + 1
         /\ (unread > 0 => Number \in 1 .. Len(arrived)) /\ (unread = 0 => Number = Len(arrived) + 1)
         /\ Len(handled) \in Nat /\ DOMAIN handled = 1 .. Len(handled)
         /\ \A k \in 1 .. Len(handled) : handled[k] \in Places
         /\ \A i \in 1 .. Len(arrived) : Filled(arrived[i])
<1> DEFINE R == [from : Peers, lines : Contents]
<1>1. /\ unread \in 0 .. Len(arrived) /\ arrived \in Seq(R) /\ handled \in Seq(Places)
  BY DEF UdpTypeOK
<1>2. \A r \in R : r.from \in Peers /\ r.lines \in Contents
  OBVIOUS
<1> HIDE DEF R
<1>3. /\ Len(arrived) \in Nat /\ unread \in Nat /\ Number \in 1 .. Len(arrived) + 1
      /\ (unread > 0 => Number \in 1 .. Len(arrived)) /\ (unread = 0 => Number = Len(arrived) + 1)
  BY <1>1 DEF Number
<1>4. /\ Len(handled) \in Nat /\ DOMAIN handled = 1 .. Len(handled)
      /\ \A k \in 1 .. Len(handled) : handled[k] \in Places
  <2> HIDE DEF Places
  <2> QED
    BY <1>1
<1>5. \A i \in 1 .. Len(arrived) : Filled(arrived[i])
  <2> TAKE i \in 1 .. Len(arrived)
  <2>1. arrived[i] \in R
    BY <1>1
  <2> QED
    BY <1>2, <2>1, ContentFilled DEF Filled
<1> QED
  BY <1>3, <1>4, <1>5

LEMMA UdpTypesNext == UdpTypeOK' => (\A i \in 1 .. Len(arrived) : Filled(arrived[i]))'
<1>1. UdpTypeOK => \A i \in 1 .. Len(arrived) : Filled(arrived[i])
  BY UdpTypes
<1> QED
  BY <1>1, PTL

(* Nothing has arrived. *)
LEMMA UdpInitInv == UdpInit => UdpInv
<1> SUFFICES ASSUME UdpInit PROVE UdpInv
  OBVIOUS
<1>1. /\ members = {} /\ phase = "select" /\ discarding = FALSE /\ transmits = <<>>
      /\ unread = 0 /\ at = 0 /\ batch = 0 /\ arrived = <<>> /\ handled = <<>> /\ sent = <<>> /\ failed = {}
  BY DEF UdpInit
<1>2. Len(arrived) = 0 /\ Len(handled) = 0 /\ DOMAIN handled = {} /\ 1 .. 0 = {}
  BY <1>1
<1>3. UdpTypeOK
  <2>1. /\ <<>> \in Seq(Copies) /\ <<>> \in Seq([from : Peers, lines : Contents]) /\ <<>> \in Seq(Places)
        /\ 0 \in 0 .. MaxBatch /\ 0 \in 0 .. Len(arrived)
    BY <1>2, ChatUdpAssumption
  <2> QED
    BY <1>1, <2>1 DEF UdpTypeOK
<1>4. Sorted /\ Sound /\ Complete
  BY <1>2 DEF Sorted, Sound, Complete
<1>5. Number = 1 /\ 1 .. 1 - 1 = {} /\ ~Lost(1)
  BY <1>1, <1>2 DEF Number, Lost
<1>6. Midst
  BY <1>1, <1>2, <1>5 DEF Midst
<1>7. \A p : ~TakesPart(p, Len(handled) + 1)
  BY <1>2, <1>5 DEF TakesPart, SaidBefore
<1>8. Mode
  BY <1>1, <1>7, FS_EmptySet DEF Mode
<1>9. Wire = <<>> /\ DOMAIN Wire = {}
  BY <1>1 DEF Wire
<1>10. \A p : Hears(p)
  BY <1>2, <1>9 DEF Hears, Ordered, Told, Heard
<1> QED
  BY <1>3, <1>4, <1>6, <1>8, <1>10 DEF UdpInv

(* What is on the wire stays, and so does what should be. *)
LEMMA HearsKept ==
  ASSUME \A p \in Peers : Hears(p), Wire' = Wire, \A p : Heard(p)' = Heard(p),
         phase' # "done" \/ failed' = {} => phase # "done" \/ failed = {}
  PROVE  (\A p \in Peers : Hears(p))'
<1> SUFFICES ASSUME NEW p \in Peers PROVE Hears(p)'
  OBVIOUS
<1>1. (Ordered(Wire, p)' <=> Ordered(Wire, p)) /\ \A n : Told(Wire, p, n)' <=> Told(Wire, p, n)
  BY DEF Ordered, Told
<1>2. Hears(p) /\ Heard(p)' = Heard(p)
  OBVIOUS
<1>3. /\ Ordered(Wire, p)'
      /\ \A n : Told(Wire, p, n)' => n \in Heard(p)'
      /\ \A k \in Heard(p)' : \A l : k < l /\ Told(Wire, p, l)' => Told(Wire, p, k)'
      /\ phase' # "done" \/ failed' = {} => \A k \in Heard(p)' : Told(Wire, p, k)'
  BY <1>1, <1>2 DEF Hears
<1> QED
  BY <1>3 DEF Hears

(* Steps that read nothing. *)
LEMMA UdpSilent ==
  ASSUME UdpInv, UNCHANGED <<handler, unread, arrived>>, Wire' = Wire, UdpTypeOK',
         phase' = "send" => transmits' # <<>>,
         phase' = "done" \/ (failed' = {} /\ phase' = "select") => transmits' = <<>>,
         phase' # "done" \/ failed' = {} => phase # "done" \/ failed = {}
  PROVE  UdpInv'
<1>1. UdpTypeOK /\ Sorted /\ Sound /\ Complete /\ Midst /\ Mode /\ \A p \in Peers : Hears(p)
  BY DEF UdpInv
<1>2. UNCHANGED <<members, discarding, at, handled, unread, arrived>>
  BY DEF handler
<1>3. Sorted' /\ Sound' /\ Complete'
  BY <1>1, <1>2 DEF Sorted, Sound, Complete, Before, Past, Number, Lost, Damages, Begins, Whole
<1>4. Midst'
  BY <1>1, <1>2 DEF Midst, Past, Number, Lost, Damages, Begins, Whole
<1>5. Len(handled) \in Nat /\ DOMAIN handled = 1 .. Len(handled)
  BY <1>1, UdpTypes
<1>6. /\ \A p : TakesPart(p, Len(handled) + 1)' <=> TakesPart(p, Len(handled) + 1)
      /\ \A p : Heard(p)' = Heard(p)
  BY <1>2, <1>5, StillHeard
<1>7. Mode'
  BY <1>1, <1>2, <1>6 DEF Mode
<1>8. (\A p \in Peers : Hears(p))'
  BY <1>1, <1>6, HearsKept
<1> QED
  BY <1>3, <1>4, <1>7, <1>8 DEF UdpInv

(* A stop drops what is queued: the last copies of all. *)
LEMMA UdpEnds ==
  ASSUME UdpInv, UdpEnd
  PROVE  UdpInv'
<1>1. UdpTypeOK /\ Sorted /\ Sound /\ Complete /\ Midst /\ Mode /\ \A p \in Peers : Hears(p)
  BY DEF UdpInv
<1>2. /\ phase = "select" /\ phase' = "done" /\ transmits' = <<>>
      /\ UNCHANGED <<members, discarding, at, handled, unread, arrived, batch, sent, failed>>
  BY DEF UdpEnd, handler
<1>3. Sorted' /\ Sound' /\ Complete'
  BY <1>1, <1>2 DEF Sorted, Sound, Complete, Before, Past, Number, Lost, Damages, Begins, Whole
<1>4. Midst'
  BY <1>1, <1>2 DEF Midst, Past, Number, Lost, Damages, Begins, Whole
<1>5. Len(handled) \in Nat /\ DOMAIN handled = 1 .. Len(handled)
  BY <1>1, UdpTypes
<1>6. /\ \A p : TakesPart(p, Len(handled) + 1)' <=> TakesPart(p, Len(handled) + 1)
      /\ \A p : Heard(p)' = Heard(p)
  BY <1>2, <1>5, StillHeard
<1>7. Mode'
  BY <1>1, <1>2, <1>6 DEF Mode
<1>8. UdpTypeOK'
  <2>1. <<>> \in Seq(Copies)
    OBVIOUS
  <2> QED
    BY <1>1, <1>2, <2>1 DEF UdpTypeOK, Copies, Places
<1>9. sent \in Seq(Copies) /\ transmits \in Seq(Copies)
  BY <1>1 DEF UdpTypeOK
<1>10. /\ Len(sent) \in Nat /\ Len(transmits) \in Nat /\ DOMAIN sent = 1 .. Len(sent)
       /\ DOMAIN Wire = 1 .. Len(sent) + Len(transmits)
       /\ \A j \in 1 .. Len(sent) : Wire[j] = sent[j]
  <2> HIDE DEF Copies
  <2> QED
    BY <1>9, ConcatParts DEF Wire
<1>11. Wire' = sent
  <2> HIDE DEF Copies
  <2>1. sent \o <<>> = sent
    BY <1>9
  <2> QED
    BY <1>2, <2>1 DEF Wire
<1>12. failed = {} => Wire = sent
  <2> HIDE DEF Copies
  <2>1. sent \o <<>> = sent
    BY <1>9
  <2> QED
    BY <1>1, <1>2, <2>1 DEF Mode, Wire
<1>13. ASSUME NEW p \in Peers PROVE Hears(p)'
  <2>1. Hears(p) /\ Heard(p)' = Heard(p)
    BY <1>1, <1>6
  <2>2. \A n : Told(sent, p, n) => Told(Wire, p, n)
    BY <1>10 DEF Told
  <2>3. Ordered(sent, p)
    BY <1>10, <2>1 DEF Hears, Ordered
  <2>4. \A n : Told(sent, p, n) => n \in Heard(p)
    BY <2>1, <2>2 DEF Hears
  <2>5. ASSUME NEW k \in Heard(p), NEW l, k < l, Told(sent, p, l) PROVE Told(sent, p, k)
    <3>1. PICK y \in DOMAIN sent : sent[y].to = p /\ sent[y].line = l
      BY <2>5 DEF Told
    <3>2. Told(Wire, p, k)
      BY <1>2, <2>1 DEF Hears
    <3>3. PICK x \in DOMAIN Wire : Wire[x].to = p /\ Wire[x].line = k
      BY <3>2 DEF Told
    <3>4. k \in Nat /\ l \in Nat
      <4>1. k \in Nat /\ l \in Heard(p)
        BY <1>5, <2>4, <2>5 DEF Heard
      <4> QED
        BY <1>5, <4>1 DEF Heard
    <3>5. ~(y < x) /\ x # y
      <4>1. y \in DOMAIN Wire /\ Wire[y] = sent[y]
        BY <1>10, <3>1
      <4>2. y < x => l < k
        BY <2>1, <3>1, <3>3, <4>1 DEF Hears, Ordered
      <4>3. x = y => k = l
        BY <3>1, <3>3, <4>1
      <4> QED
        BY <2>5, <3>4, <4>2, <4>3
    <3>6. x \in 1 .. Len(sent)
      BY <1>10, <3>1, <3>3, <3>5
    <3> QED
      BY <1>10, <3>3, <3>6 DEF Told
  <2>6. failed = {} => \A k \in Heard(p) : Told(sent, p, k)
    BY <1>12, <2>1 DEF Hears
  <2>7. /\ Ordered(Wire', p)
        /\ \A n : Told(Wire', p, n) => n \in Heard(p)'
        /\ \A k \in Heard(p)' : \A l : k < l /\ Told(Wire', p, l) => Told(Wire', p, k)
        /\ failed' = {} => \A k \in Heard(p)' : Told(Wire', p, k)
    BY <1>2, <1>11, <2>1, <2>3, <2>4, <2>5, <2>6
  <2>8. (Ordered(Wire, p)' <=> Ordered(Wire', p)) /\ \A n : Told(Wire, p, n)' <=> Told(Wire', p, n)
    BY DEF Ordered, Told
  <2> QED
    BY <1>2, <2>7, <2>8 DEF Hears
<1> QED
  BY <1>3, <1>4, <1>7, <1>8, <1>13 DEF UdpInv

(* One more buffer waits to be read. *)
LEMMA UdpArrives ==
  ASSUME UdpInv, NEW q \in Peers, NEW d \in Contents, Arrive(q, d)
  PROVE  UdpInv'
<1> DEFINE L == Len(arrived)
<1>1. UdpTypeOK /\ Sorted /\ Sound /\ Complete /\ Midst /\ Mode /\ \A p \in Peers : Hears(p)
  BY DEF UdpInv
<1>2. /\ L \in Nat /\ unread \in Nat /\ Number \in 1 .. L + 1 /\ (unread = 0 => Number = L + 1)
      /\ (unread > 0 => Number \in 1 .. L)
      /\ Len(handled) \in Nat /\ DOMAIN handled = 1 .. Len(handled)
      /\ \A k \in 1 .. Len(handled) : handled[k] \in Places
  BY <1>1, UdpTypes
<1>3. /\ arrived' = Append(arrived, [from |-> q, lines |-> d]) /\ unread' = unread + 1
      /\ UNCHANGED <<members, discarding, at, handled, phase, transmits, batch, sent, failed>>
  BY DEF Arrive, handler
<1>4. /\ arrived' \in Seq([from : Peers, lines : Contents]) /\ Len(arrived') = L + 1
      /\ \A i \in 1 .. L : arrived'[i] = arrived[i]
  <2> DEFINE R == [from : Peers, lines : Contents]
             new == [from |-> q, lines |-> d]
  <2>1. arrived \in Seq(R) /\ new \in R
    BY <1>1 DEF UdpTypeOK
  <2>2. arrived' = Append(arrived, new)
    BY <1>3
  <2> HIDE DEF R, new
  <2>3. /\ arrived' \in Seq(R) /\ Len(arrived') = L + 1
        /\ \A i \in 1 .. L : arrived'[i] = arrived[i]
    BY <2>1, <2>2
  <2> QED
    BY <2>3 DEF R
<1>5. Number' = Number
  BY <1>2, <1>3, <1>4 DEF Number
<1>6. \A k \in 1 .. Len(handled) : handled[k].buf \in 1 .. L
  BY <1>2 DEF Places
<1> HIDE DEF L
<1>7. UdpTypeOK'
  <2>1. unread' \in 0 .. Len(arrived')
    BY <1>1, <1>2, <1>3, <1>4 DEF UdpTypeOK, L
  <2>2. Places \subseteq Places'
    BY <1>2, <1>4 DEF Places, L
  <2>3. handled' \in Seq(Places')
    <3>1. handled \in Seq(Places)
      BY <1>1 DEF UdpTypeOK
    <3> HIDE DEF Places
    <3> QED
      BY <1>3, <2>2, <3>1, WiderSeq
  <2>4. Copies' = Copies
    BY <1>3 DEF Copies
  <2> HIDE DEF Copies, Places
  <2> QED
    BY <1>1, <1>3, <1>4, <2>1, <2>3, <2>4 DEF UdpTypeOK
<1>8. \A i \in 1 .. L : (Damages(i)' <=> Damages(i)) /\ (Begins(i)' <=> Begins(i)) /\ Whole(i)' = Whole(i)
  BY <1>3, <1>4 DEF Damages, Begins, Whole
<1>9. \A i \in 1 .. L + 1 : Lost(i)' <=> Lost(i)
  BY <1>2, <1>4, <1>8, StillLost
<1>10. /\ \A p : TakesPart(p, Len(handled) + 1)' <=> TakesPart(p, Len(handled) + 1)
       /\ \A p : Heard(p)' = Heard(p)
  BY <1>2, <1>3, <1>4, <1>6, StillHeard
<1>11. Sorted'
  BY <1>1, <1>3 DEF Sorted, Before
<1>12. Sound'
  <2>1. \A i \in 1 .. L : i \in 1 .. L + 1
    BY <1>2
  <2>2. ASSUME NEW k \in DOMAIN handled PROVE (~Lost(handled[k].buf) /\ handled[k].at \in Whole(handled[k].buf))'
    <3>1. PICK i : i = handled[k].buf
      OBVIOUS
    <3>2. i \in 1 .. L /\ handled'[k].buf = i /\ handled'[k].at = handled[k].at
      BY <1>2, <1>3, <1>6, <3>1
    <3>3. ~Lost(i) /\ handled[k].at \in Whole(i)
      BY <1>1, <3>1 DEF Sound
    <3>4. ~Lost(i)' /\ handled[k].at \in Whole(i)'
      BY <1>8, <1>9, <2>1, <3>2, <3>3
    <3>5. (Lost(handled[k].buf)' <=> Lost(i)') /\ Whole(handled[k].buf)' = Whole(i)'
      BY <3>2 DEF Lost, Whole
    <3> QED
      BY <3>2, <3>4, <3>5
  <2> QED
    BY <1>3, <2>2 DEF Sound
<1>13. Complete'
  <2> SUFFICES ASSUME NEW i \in 1 .. L + 1, NEW a \in Whole(i)', ~Lost(i)', Past(i, a)'
               PROVE  \E k \in DOMAIN handled : handled[k] = [buf |-> i, at |-> a]
    BY <1>3, <1>4 DEF Complete
  <2>1. Past(i, a)
    BY <1>3, <1>5 DEF Past
  <2>2. a \in Nat /\ a > 0
    <3>1. CASE i \in 1 .. L
      <4>1. Filled(arrived[i]) /\ a \in Whole(i)
        BY <1>1, <1>8, <3>1, UdpTypes DEF L
      <4> QED
        BY <4>1 DEF Whole, Filled
    <3>2. CASE i = L + 1
      <4>1. Filled(arrived'[i])
        <5>1. (\A j \in 1 .. Len(arrived) : Filled(arrived[j]))'
          BY <1>7, UdpTypesNext
        <5> QED
          BY <1>2, <1>4, <3>2, <5>1
      <4> QED
        BY <4>1 DEF Whole, Filled
    <3> QED
      BY <1>2, <3>1, <3>2
  <2>3. i \in 1 .. L
    <3>1. at \in Nat /\ (at > 0 => unread > 0)
      BY <1>1 DEF UdpTypeOK, Midst
    <3> QED
      BY <1>2, <2>1, <2>2, <3>1 DEF Past
  <2>4. a \in Whole(i) /\ ~Lost(i)
    BY <1>2, <1>8, <1>9, <2>3
  <2> QED
    BY <1>1, <2>1, <2>3, <2>4 DEF Complete, L
<1>14. Midst'
  <2>1. (Lost(Number)' <=> Lost(Number)) /\ (unread > 0 => Whole(Number)' = Whole(Number))
    <3>1. PICK i : i = Number
      OBVIOUS
    <3>2. Lost(i)' <=> Lost(i)
      BY <1>2, <1>9, <3>1
    <3>3. unread > 0 => Whole(i)' = Whole(i)
      BY <1>2, <1>8, <3>1
    <3>4. (Lost(Number)' <=> Lost(i)') /\ Whole(Number)' = Whole(i)'
      BY <1>5, <3>1 DEF Lost, Whole
    <3> QED
      BY <3>1, <3>2, <3>3, <3>4
  <2>2. \A i, a : Past(i, a)' <=> Past(i, a)
    BY <1>3, <1>5 DEF Past
  <2>3. /\ discarding' <=> Lost(Number)'
        /\ discarding' => at' = 0
        /\ at' > 0 => unread' > 0 /\ at' \in Whole(Number)'
    BY <1>1, <1>2, <1>3, <2>1 DEF Midst
  <2>4. \A k \in DOMAIN handled' : (Past(handled[k].buf, handled[k].at))'
    BY <1>1, <1>3, <1>5 DEF Midst, Past
  <2> QED
    BY <2>3, <2>4 DEF Midst
<1>15. Mode'
  BY <1>1, <1>3, <1>10 DEF Mode
<1>16. (\A p \in Peers : Hears(p))'
  <2>1. Wire' = Wire
    BY <1>3 DEF Wire
  <2> QED
    BY <1>1, <1>3, <1>10, <2>1, HearsKept
<1> QED
  BY <1>7, <1>11, <1>12, <1>13, <1>14, <1>15, <1>16 DEF UdpInv

-----------------------------------------------------------------------------
(* The buffer that is read, and what of it can be handled. *)
LEMMA UdpReadsOn ==
  ASSUME UdpInv, Reading
  PROVE  /\ Number \in Nat /\ Number \in 1 .. Len(arrived) /\ unread > 0 /\ unread \in 0 .. Len(arrived)
         /\ Filled(Buffer) /\ Buffer = arrived[Number] /\ Pieces = 1 .. Len(Buffer.lines)
         /\ at \in Nat /\ (at > 0 => at \in Whole(Number))
         /\ (discarding <=> Lost(Number)) /\ (discarding => at = 0) /\ discarding \in BOOLEAN
         /\ batch \in 0 .. MaxBatch /\ batch + 1 \in 0 .. MaxBatch /\ phase # "done" /\ phase' = "batch"
         /\ Decodes <=> ~Lost(Number) /\ at + 1 \in Whole(Number)
         /\ ~Lost(Number) /\ ~Decodes => \A a \in Whole(Number) : a <= at
<1>1. UdpTypeOK /\ Midst
  BY DEF UdpInv
<1>2. /\ unread > 0 /\ batch < MaxBatch /\ phase \in {"select", "batch"} /\ phase' = "batch"
  BY DEF Reading
<1>3. /\ Number \in 1 .. Len(arrived) /\ Number \in Nat /\ Filled(arrived[Number])
  <2>1. Len(arrived) \in Nat /\ Number \in 1 .. Len(arrived)
    BY <1>1, <1>2, UdpTypes
  <2> QED
    BY <1>1, <2>1, UdpTypes
<1>4. Buffer = arrived[Number] /\ Pieces = 1 .. Len(Buffer.lines)
  BY <1>3 DEF Buffer, Pieces, Filled
<1>5. /\ at \in Nat /\ discarding \in BOOLEAN /\ unread \in 0 .. Len(arrived)
      /\ batch \in 0 .. MaxBatch /\ batch + 1 \in 0 .. MaxBatch
  BY <1>1, <1>2, ChatUdpAssumption DEF UdpTypeOK
<1>6. /\ at > 0 => at \in Whole(Number)
      /\ discarding <=> Lost(Number)
      /\ discarding => at = 0
  BY <1>1 DEF Midst
<1> DEFINE b == Buffer.lines
           n == Len(b)
<1>7. n \in Nat /\ DOMAIN b = 1 .. n
  BY <1>3, <1>4 DEF Filled
<1>8. \A a : a \in Whole(Number) <=> a \in 1 .. n /\ \A c \in 1 .. a : b[c] \in EndsLine
  BY <1>4, <1>7 DEF Whole
<1>9. Decodes <=> ~discarding /\ at + 1 \in 1 .. n /\ b[at + 1] \in EndsLine
  BY <1>4 DEF Decodes, Piece
<1> HIDE DEF b, n
<1>10. at + 1 \in Whole(Number) <=> at + 1 \in 1 .. n /\ b[at + 1] \in EndsLine
  <2>1. ASSUME at + 1 \in 1 .. n, b[at + 1] \in EndsLine PROVE at + 1 \in Whole(Number)
    <3>1. \A c \in 1 .. at : b[c] \in EndsLine
      <4>1. CASE at > 0
        BY <1>6, <1>8, <4>1
      <4>2. CASE at = 0
        BY <4>2
      <4> QED
        BY <1>5, <4>1, <4>2
    <3>2. \A c \in 1 .. at + 1 : c \in 1 .. at \/ c = at + 1
      BY <1>5
    <3> QED
      BY <1>8, <2>1, <3>1, <3>2
  <2>2. at + 1 \in 1 .. at + 1
    BY <1>5
  <2> QED
    BY <1>8, <2>1, <2>2
<1>11. Decodes <=> ~Lost(Number) /\ at + 1 \in Whole(Number)
  BY <1>6, <1>9, <1>10
<1>12. ASSUME ~Lost(Number), ~Decodes, NEW a \in Whole(Number) PROVE a <= at
  <2>1. at + 1 \notin Whole(Number)
    BY <1>11, <1>12
  <2>2. a \in 1 .. n /\ \A c \in 1 .. a : b[c] \in EndsLine
    BY <1>8, <1>12
  <2>3. at + 1 <= a => at + 1 \in 1 .. a /\ at + 1 \in 1 .. n
    BY <1>5, <1>7, <2>2
  <2>4. ~(at + 1 <= a)
    BY <1>10, <2>1, <2>2, <2>3
  <2> QED
    BY <1>5, <1>7, <2>2, <2>4
<1> QED
  BY <1>2, <1>3, <1>4, <1>5, <1>6, <1>11, <1>12

(* The mode in which the next buffer is read. *)
LEMMA LostAfter ==
  ASSUME UdpInv, Reading, ~Decodes
  PROVE  discardingNext <=> Lost(Number + 1)
<1>1. Sound /\ Complete
  BY DEF UdpInv
<1>2. /\ Number \in Nat /\ Number \in 1 .. Len(arrived)
      /\ Filled(Buffer) /\ Buffer = arrived[Number] /\ Pieces = 1 .. Len(Buffer.lines)
      /\ at \in Nat /\ (at > 0 => at \in Whole(Number))
      /\ discarding <=> Lost(Number)
      /\ discarding => at = 0
      /\ ~Lost(Number) => at + 1 \notin Whole(Number)
  BY UdpReadsOn
<1> DEFINE b == Buffer.lines
           n == Len(b)
<1>3. /\ n \in Nat /\ n > 0 /\ DOMAIN b = 1 .. n /\ \A a \in 1 .. n : b[a] \in Kinds
      /\ \A a \in 1 .. n - 1 : b[a] # "rest"
  BY <1>2 DEF Filled
<1>4. Lost(Number + 1) <=> Damages(Number) \/ (Lost(Number) /\ ~Begins(Number))
  <2>1. Number > 0
    BY <1>2
  <2> QED
    BY <1>2, <2>1, LostNext
<1>5. Begins(Number) <=> b[1] \in EndsLine
  BY <1>2 DEF Begins
<1>6. Damages(Number) <=> /\ \E a \in 1 .. n : b[a] = "long"
                          /\ Begins(Number) => \E h \in DOMAIN handled : handled[h] = [buf |-> Number, at |-> 1]
  BY <1>2, <1>3 DEF Damages
<1>7. \A a : a \in Whole(Number) <=> a \in 1 .. n /\ \A c \in 1 .. a : b[c] \in EndsLine
  BY <1>2, <1>3 DEF Whole
<1>8. discardingNext <=> IF discarding THEN b[1] \notin EndsLine ELSE at + 1 \in 1 .. n /\ b[at + 1] = "long"
  BY <1>2 DEF discardingNext, Piece
<1> HIDE DEF b, n
<1>9. CASE discarding
  <2>1. ASSUME NEW h \in DOMAIN handled, handled[h] = [buf |-> Number, at |-> 1] PROVE FALSE
    <3>1. handled[h].buf = Number
      BY <2>1
    <3> QED
      BY <1>1, <1>2, <1>9, <3>1 DEF Sound
  <2>2. Damages(Number) => ~Begins(Number)
    BY <1>6, <2>1
  <2> QED
    BY <1>2, <1>4, <1>5, <1>8, <1>9, <2>2
<1>10. CASE ~discarding
  <2>1. \A c \in 1 .. at : c \in 1 .. n /\ b[c] \in EndsLine
    <3>1. CASE at > 0
      BY <1>2, <1>3, <1>7, <3>1
    <3>2. CASE at = 0
      BY <3>2
    <3> QED
      BY <1>2, <3>1, <3>2
  <2>2. at + 1 \notin 1 .. n \/ b[at + 1] \notin EndsLine
    <3>1. \A c \in 1 .. at + 1 : c \in 1 .. at \/ c = at + 1
      BY <1>2
    <3> QED
      BY <1>2, <1>7, <1>10, <2>1, <3>1
  <2>3. CASE at + 1 \in 1 .. n /\ b[at + 1] = "long"
    <3>1. Begins(Number) => \E h \in DOMAIN handled : handled[h] = [buf |-> Number, at |-> 1]
      <4> SUFFICES ASSUME Begins(Number)
                   PROVE  \E h \in DOMAIN handled : handled[h] = [buf |-> Number, at |-> 1]
        OBVIOUS
      <4>1. at > 0
        BY <1>2, <1>5, <2>3 DEF EndsLine
      <4>2. 1 \in Whole(Number) /\ Past(Number, 1)
        <5>1. 1 \in 1 .. at /\ \A c \in 1 .. 1 : c = 1
          BY <1>2, <4>1
        <5> QED
          BY <1>2, <1>7, <2>1, <4>1, <5>1 DEF Past
      <4> QED
        BY <1>1, <1>2, <1>10, <4>2 DEF Complete
    <3>2. Damages(Number)
      BY <1>6, <2>3, <3>1
    <3> QED
      BY <1>4, <1>8, <1>10, <2>3, <3>2
  <2>4. CASE ~(at + 1 \in 1 .. n /\ b[at + 1] = "long")
    <3>1. ASSUME NEW a \in 1 .. n, b[a] = "long" PROVE FALSE
      <4>1. a \notin 1 .. at
        BY <2>1, <3>1 DEF EndsLine
      <4>2. at + 1 \in 1 .. n /\ (a = at + 1 \/ at + 1 \in 1 .. n - 1)
        BY <1>2, <1>3, <4>1
      <4>3. b[at + 1] = "rest"
        BY <1>3, <2>2, <2>4, <4>2 DEF Kinds, EndsLine
      <4> QED
        BY <1>3, <2>4, <3>1, <4>2, <4>3
    <3> QED
      BY <1>2, <1>4, <1>6, <1>8, <1>10, <2>4, <3>1
  <2> QED
    BY <2>3, <2>4
<1> QED
  BY <1>2, <1>9, <1>10

(* What is left of a buffer is dropped. *)
LEMMA UdpReadsNothing ==
  ASSUME UdpInv, ReadEnds
  PROVE  UdpInv'
<1>1. UdpTypeOK /\ Sorted /\ Sound /\ Complete /\ Midst /\ Mode /\ \A p \in Peers : Hears(p)
  BY DEF UdpInv
<1>2. /\ Reading /\ ~Decodes /\ at' = 0 /\ discarding' = discardingNext
      /\ unread' = unread - 1 /\ batch' = batch + 1
      /\ UNCHANGED <<members, handled, transmits, arrived, sent, failed>>
  BY DEF ReadEnds
<1>3. /\ Number \in Nat /\ Number \in 1 .. Len(arrived) /\ unread > 0 /\ unread \in 0 .. Len(arrived)
      /\ at \in Nat /\ discarding \in BOOLEAN
      /\ batch + 1 \in 0 .. MaxBatch /\ phase # "done" /\ phase' = "batch"
      /\ ~Lost(Number) => \A a \in Whole(Number) : a <= at
  BY <1>2, UdpReadsOn
<1>4. Len(arrived) \in Nat /\ Len(handled) \in Nat /\ DOMAIN handled = 1 .. Len(handled)
  BY <1>1, UdpTypes
<1>5. Number' = Number + 1
  BY <1>2, <1>3, <1>4 DEF Number
<1>6. /\ \A i : (Lost(i)' <=> Lost(i)) /\ Whole(i)' = Whole(i)
  BY <1>2 DEF Lost, Damages, Begins, Whole
<1>7. discarding' <=> Lost(Number + 1)
  BY <1>2, LostAfter
<1>8. UdpTypeOK'
  <2>1. discarding' \in BOOLEAN
    BY <1>2, <1>3 DEF discardingNext
  <2>2. unread' \in 0 .. Len(arrived)
    BY <1>2, <1>3, <1>4
  <2>3. Copies' = Copies /\ Places' = Places
    BY <1>2 DEF Copies, Places
  <2> HIDE DEF Copies, Places
  <2> QED
    BY <1>1, <1>2, <1>3, <2>1, <2>2, <2>3 DEF UdpTypeOK
<1>9. Sorted' /\ Sound'
  BY <1>1, <1>2 DEF Sorted, Sound, Before, Lost, Damages, Begins, Whole
<1>10. Complete'
  <2> SUFFICES ASSUME NEW i \in 1 .. Len(arrived), NEW a \in Whole(i), ~Lost(i), Past(i, a)'
               PROVE  \E k \in DOMAIN handled : handled[k] = [buf |-> i, at |-> a]
    BY <1>2, <1>6 DEF Complete
  <2>1. i < Number + 1 \/ (i = Number + 1 /\ a <= 0)
    BY <1>2, <1>5 DEF Past
  <2>2. a > 0 /\ a \in Nat
    <3>1. Filled(arrived[i])
      BY <1>1, UdpTypes
    <3> QED
      BY <3>1 DEF Whole, Filled
  <2>3. i < Number \/ i = Number
    BY <1>3, <1>4, <2>1, <2>2
  <2>4. Past(i, a)
    BY <1>3, <2>3 DEF Past
  <2> QED
    BY <1>1, <2>4 DEF Complete
<1>11. Midst'
  <2>1. Lost(Number)' <=> Lost(Number + 1)
    BY <1>2, <1>5 DEF Lost, Damages, Begins
  <2>2. ASSUME NEW k \in DOMAIN handled PROVE (Past(handled[k].buf, handled[k].at))'
    <3>1. Past(handled[k].buf, handled[k].at)
      BY <1>1 DEF Midst
    <3>2. handled[k] \in Places
      BY <1>1, <1>4, UdpTypes
    <3>3. handled[k].buf \in Nat /\ handled[k].at \in Nat
      BY <1>4, <3>2 DEF Places
    <3> QED
      BY <1>2, <1>3, <1>5, <3>1, <3>3 DEF Past
  <2> QED
    BY <1>2, <1>7, <2>1, <2>2 DEF Midst
<1>12. /\ \A p : TakesPart(p, Len(handled) + 1)' <=> TakesPart(p, Len(handled) + 1)
       /\ \A p : Heard(p)' = Heard(p)
  BY <1>2, <1>4, StillHeard
<1>13. Mode'
  BY <1>1, <1>2, <1>3, <1>12 DEF Mode
<1>14. (\A p \in Peers : Hears(p))'
  <2>1. Wire' = Wire
    BY <1>2 DEF Wire
  <2> QED
    BY <1>1, <1>3, <1>12, <2>1, HearsKept
<1> QED
  BY <1>8, <1>9, <1>10, <1>11, <1>13, <1>14 DEF UdpInv

(* Before each line, who takes part; primed where it is used. *)
LEMMA TakesPartAll ==
  \A p, m : m \in Nat =>
    (TakesPart(p, m + 2) <=> IF From(m + 1) = p THEN Speaks(m + 1) ELSE TakesPart(p, m + 1))
  BY TakesPartNext

LEMMA TakesPartAllNext ==
  (\A p, m : m \in Nat =>
    (TakesPart(p, m + 2) <=> IF From(m + 1) = p THEN Speaks(m + 1) ELSE TakesPart(p, m + 1)))'
  BY TakesPartAll, PTL

(* A line is handled: it is the last, and what came before is as it was. *)
LEMMA LineHandled ==
  ASSUME UdpInv, ReadLine, NEW m, m = Len(handled)
  PROVE  /\ m \in Nat /\ handled' \in Seq(Places)
         /\ Len(handled') = m + 1 /\ DOMAIN handled' = 1 .. m + 1
         /\ handled'[m + 1] = [buf |-> Number, at |-> at + 1]
         /\ DOMAIN handled = 1 .. m
         /\ \A k \in 1 .. m : handled'[k] = handled[k] /\ handled[k] \in Places
         /\ \A k \in 1 .. m : (Speaks(k)' <=> Speaks(k)) /\ From(k)' = From(k)
         /\ \A p : \A k \in 1 .. m + 1 : TakesPart(p, k)' <=> TakesPart(p, k)
         /\ From(m + 1)' = Buffer.from
         /\ Speaks(m + 1)' <=> Piece # "bye"
         /\ \A p : TakesPart(p, m + 2)'
                   <=> IF Buffer.from = p THEN Piece # "bye" ELSE TakesPart(p, m + 1)
<1>1. UdpTypeOK
  BY DEF UdpInv
<1>2. /\ Reading /\ Decodes /\ handle_read /\ arrived' = arrived
  BY DEF ReadLine
<1>3. /\ Number \in Nat /\ Number \in 1 .. Len(arrived) /\ Buffer = arrived[Number] /\ at \in Nat
  BY <1>2, UdpReadsOn
<1>4. m \in Nat /\ DOMAIN handled = 1 .. m /\ \A k \in 1 .. m : handled[k] \in Places
  BY <1>1, UdpTypes
<1> DEFINE x == [buf |-> Number, at |-> at + 1]
<1>5. x \in Places /\ x.buf = Number /\ x.at = at + 1
  BY <1>3 DEF Places
<1>6. handled' = Append(handled, x)
  BY <1>2 DEF handle_read
<1> HIDE DEF x
<1>7. /\ handled' \in Seq(Places) /\ Len(handled') = m + 1 /\ DOMAIN handled' = 1 .. m + 1
      /\ handled'[m + 1] = x /\ \A k \in 1 .. m : handled'[k] = handled[k]
  <2>1. handled \in Seq(Places)
    BY <1>1 DEF UdpTypeOK
  <2> HIDE DEF Places
  <2> QED
    BY <1>5, <1>6, <2>1
<1>8. /\ \A k \in 1 .. m : (Speaks(k)' <=> Speaks(k)) /\ From(k)' = From(k)
      /\ \A p : \A k \in 1 .. m + 1 : TakesPart(p, k)' <=> TakesPart(p, k)
  <2>1. \A k \in 1 .. m : handled'[k] = handled[k] /\ arrived'[handled[k].buf] = arrived[handled[k].buf]
    BY <1>2, <1>7
  <2> QED
    BY <1>4, <2>1, StillSays
<1>9. From(m + 1)' = Buffer.from
  BY <1>2, <1>3, <1>5, <1>7 DEF From
<1>10. Speaks(m + 1)' <=> Piece # "bye"
  <2>1. Piece \in EndsLine
    BY <1>2 DEF Decodes
  <2>2. arrived'[handled'[m + 1].buf].lines[handled'[m + 1].at] = Piece
    BY <1>2, <1>3, <1>5, <1>7 DEF Piece
  <2> QED
    BY <2>1, <2>2 DEF Speaks, EndsLine
<1>11. \A p : TakesPart(p, m + 2)' <=> IF Buffer.from = p THEN Piece # "bye" ELSE TakesPart(p, m + 1)
  <2> TAKE p
  <2>1. TakesPart(p, m + 2)' <=> IF From(m + 1)' = p THEN Speaks(m + 1)' ELSE TakesPart(p, m + 1)'
    <3>1. \A q, k : k \in Nat =>
            (TakesPart(q, k + 2)' <=> IF From(k + 1)' = q THEN Speaks(k + 1)' ELSE TakesPart(q, k + 1)')
      BY TakesPartAllNext
    <3> QED
      BY <1>4, <3>1
  <2>2. m + 1 \in 1 .. m + 1
    BY <1>4
  <2> QED
    BY <1>8, <1>9, <1>10, <2>1, <2>2
<1> QED
  BY <1>4, <1>7, <1>8, <1>9, <1>10, <1>11 DEF x

(* What the broadcast adds to the wire. *)
LEMMA WireGrows ==
  ASSUME NEW S, NEW a \in Seq(S), NEW b \in Seq(S), NEW c \in Seq(S)
  PROVE  b \o c \in Seq(S) /\ a \o (b \o c) = (a \o b) \o c /\ a \o b \in Seq(S)
  OBVIOUS

(* handle_read with a line: a copy for each of the other members is last. *)
LEMMA UdpBroadcasts ==
  ASSUME UdpInv, ReadLine, Piece # "bye", NEW m, m = Len(handled)
  PROVE  /\ transmits' \in Seq([line : 1 .. m + 1, to : Peers])
         /\ members' = members \cup {Buffer.from}
         /\ \A p : /\ Ordered(Wire, p) => Ordered(Wire, p)'
                   /\ \A n : Told(Wire, p, n)' <=> Told(Wire, p, n)
                                                   \/ (n = m + 1 /\ p \in members /\ p # Buffer.from)
<1> DEFINE Others == members' \ {Buffer.from}
           N == m + 1
           T == [line : 1 .. m + 1, to : Peers]
<1>0. ASSUME NEW R, NEW w \in Seq(R), NEW u \in Seq(R), NEW v, NEW n, NEW Q, NEW p, NEW i,
             v = w \o u, Earlier(w, n), CopiesOf(u, n, Q)
      PROVE  /\ Ordered(w, p) => Ordered(v, p)
             /\ Told(w, p, i) => Told(v, p, i)
             /\ p \in Q => Told(v, p, n)
             /\ Told(v, p, i) /\ ~Told(w, p, i) => i = n /\ p \in Q
  BY <1>0, CopiesAppended
<1>1. UdpTypeOK /\ Mode
  BY DEF UdpInv
<1>2. m \in Nat /\ N \in Nat /\ N \in 1 .. m + 1 /\ sent' = sent /\ Reading /\ handle_read
  BY <1>1, UdpTypes DEF ReadLine
<1>3. members' = members \cup {Buffer.from} /\ broadcastUdp(members')
  BY <1>2 DEF handle_read
<1>4. /\ Others \in SUBSET Peers /\ IsFiniteSet(Others)
      /\ \A p : p \in Others <=> p \in members /\ p # Buffer.from
  <2>1. IsFiniteSet(members) /\ members \subseteq Peers
    BY <1>1 DEF Mode, UdpTypeOK
  <2>2. Others \subseteq members
    BY <1>3
  <2>3. IsFiniteSet(Others)
    BY <2>1, <2>2, FS_Subset
  <2> QED
    BY <1>3, <2>1, <2>2, <2>3
<1>5. PICK order \in SetToSeqs(Others) : transmits' = transmits \o [i \in DOMAIN order |-> [line |-> N, to |-> order[i]]]
  BY <1>2, <1>3 DEF broadcastUdp
<1> HIDE DEF Others, N
<1> DEFINE more == [i \in DOMAIN order |-> [line |-> N, to |-> order[i]]]
<1>6. more \in Seq(T)
  <2>1. order \in Seq(Others) /\ DOMAIN order = 1 .. Len(order)
    BY <1>4, ListsAll
  <2>2. Len(order) \in Nat /\ \A i \in 1 .. Len(order) : order[i] \in Peers
    BY <1>4, <2>1
  <2>3. \A i \in 1 .. Len(order) : [line |-> N, to |-> order[i]] \in T
    BY <1>2, <2>2
  <2> HIDE DEF T
  <2> QED
    BY <2>1, <2>2, <2>3
<1>7. transmits' = transmits \o more
  BY <1>5
<1> HIDE DEF more
<1>8. sent \in Seq(T) /\ transmits \in Seq(T)
  <2>1. Copies \subseteq T
    BY <1>2 DEF Copies
  <2>2. sent \in Seq(Copies) /\ transmits \in Seq(Copies)
    BY <1>1 DEF UdpTypeOK
  <2> HIDE DEF Copies, T
  <2> QED
    BY <2>1, <2>2, WiderSeq
<1>9. transmits' \in Seq(T) /\ Wire' = Wire \o more /\ Wire \in Seq(T)
  <2> HIDE DEF T
  <2>1. \A a, b, c \in Seq(T) : b \o c \in Seq(T) /\ a \o (b \o c) = (a \o b) \o c /\ a \o b \in Seq(T)
    BY WireGrows
  <2>2. /\ transmits \o more \in Seq(T) /\ sent \o (transmits \o more) = (sent \o transmits) \o more
        /\ sent \o transmits \in Seq(T)
    BY <1>6, <1>8, <2>1, Zenon
  <2> QED
    BY <1>2, <1>7, <2>2 DEF Wire
<1>10. Earlier(Wire, N)
  <2>1. sent \in Seq(Copies) /\ transmits \in Seq(Copies)
    BY <1>1 DEF UdpTypeOK
  <2>2. \A k \in DOMAIN Wire : Wire[k] \in Copies
    <3> HIDE DEF Copies
    <3>1. sent \o transmits \in Seq(Copies)
      BY <2>1
    <3> QED
      BY <3>1 DEF Wire
  <2>3. \A c \in Copies : c.line \in Nat /\ c.line < N
    BY <1>2 DEF Copies, N
  <2> HIDE DEF Copies
  <2> QED
    BY <2>2, <2>3 DEF Earlier
<1>11. CopiesOf(more, N, Others)
  <2>1. /\ order \in Seq(Others) /\ DOMAIN order = 1 .. Len(order)
        /\ \A x \in Others : \E i \in 1 .. Len(order) : order[i] = x
        /\ \A i, j \in 1 .. Len(order) : order[i] = order[j] => i = j
    BY <1>4, ListsAll
  <2>2. Len(more) = Len(order) /\ \A i \in 1 .. Len(order) : order[i] \in Others /\ more[i].line = N /\ more[i].to = order[i]
    BY <2>1 DEF more
  <2> QED
    BY <2>1, <2>2 DEF CopiesOf
<1> HIDE DEF T
<1>12. \A p, i : (Ordered(Wire, p) => Ordered(Wire', p))
                 /\ (Told(Wire', p, i) <=> Told(Wire, p, i) \/ (i = N /\ p \in Others))
  <2> TAKE p, i
  <2>1. Wire \in Seq(T) /\ more \in Seq(T) /\ Wire' = Wire \o more /\ Earlier(Wire, N) /\ CopiesOf(more, N, Others)
    BY <1>6, <1>9, <1>10, <1>11, Zenon
  <2>2. Ordered(Wire, p) => Ordered(Wire', p)
    BY <1>0, <2>1, Zenon
  <2>3. Told(Wire, p, i) => Told(Wire', p, i)
    BY <1>0, <2>1, Zenon
  <2>4. p \in Others => Told(Wire', p, N)
    BY <1>0, <2>1, Zenon
  <2>5. Told(Wire', p, i) /\ ~Told(Wire, p, i) => i = N /\ p \in Others
    BY <1>0, <2>1, Zenon
  <2> QED
    BY <2>2, <2>3, <2>4, <2>5, Zenon
<1>13. /\ \A p : Ordered(Wire, p)' <=> Ordered(Wire', p)
       /\ \A p, i : Told(Wire, p, i)' <=> Told(Wire', p, i)
  BY DEF Ordered, Told
<1>14. \A p : Ordered(Wire, p) => Ordered(Wire, p)'
  BY <1>12, <1>13, Zenon
<1>15. \A p : \A i : Told(Wire, p, i)' <=> Told(Wire, p, i) \/ (i = N /\ p \in members /\ p # Buffer.from)
  <2> TAKE p, i
  <2>1. Told(Wire, p, i)' <=> Told(Wire', p, i)
    BY <1>13, Zenon
  <2>2. Told(Wire', p, i) <=> Told(Wire, p, i) \/ (i = N /\ p \in Others)
    BY <1>12, Zenon
  <2> QED
    BY <1>4, <2>1, <2>2, Zenon
<1> QED
  BY <1>3, <1>9, <1>14, <1>15 DEF N, T

(* The members and the wire after any line. *)
LEMMA UdpTells ==
  ASSUME UdpInv, ReadLine, NEW m, m = Len(handled)
  PROVE  /\ transmits' \in Seq([line : 1 .. m + 1, to : Peers])
         /\ members' = IF Piece # "bye" THEN members \cup {Buffer.from} ELSE members \ {Buffer.from}
         /\ \A p : Ordered(Wire, p) => Ordered(Wire, p)'
         /\ \A p, n : Told(Wire, p, n)' <=> Told(Wire, p, n)
                        \/ (Piece # "bye" /\ n = m + 1 /\ p \in members /\ p # Buffer.from)
<1>1. CASE Piece # "bye"
  BY <1>1, UdpBroadcasts
<1>2. CASE Piece = "bye"
  <2>1. members' = members \ {Buffer.from} /\ UNCHANGED <<transmits, sent>>
    BY <1>2 DEF ReadLine, handle_read
  <2>2. Wire' = Wire
    BY <2>1 DEF Wire
  <2>3. \A p : Ordered(Wire, p)' <=> Ordered(Wire, p)
    BY <2>2 DEF Ordered
  <2>4. \A p, n : Told(Wire, p, n)' <=> Told(Wire, p, n)
    BY <2>2 DEF Told
  <2>5. transmits' \in Seq([line : 1 .. m + 1, to : Peers])
    <3>1. transmits \in Seq(Copies) /\ m \in Nat
      BY UdpTypes DEF UdpInv, UdpTypeOK
    <3>2. Copies \subseteq [line : 1 .. m + 1, to : Peers]
      BY <3>1 DEF Copies
    <3> QED
      BY <2>1, <3>1, <3>2, WiderSeq
  <2> QED
    BY <1>2, <2>1, <2>3, <2>4, <2>5
<1> QED
  BY <1>1, <1>2

(* A line is handled: of the damage. *)
LEMMA LineInPlace ==
  ASSUME UdpInv, ReadLine
  PROVE  (Sorted /\ Sound /\ Complete /\ Midst)'
<1>1. UdpTypeOK /\ Sorted /\ Sound /\ Complete /\ Midst
  BY DEF UdpInv
<1>2. Reading /\ Decodes /\ at' = at + 1 /\ UNCHANGED <<discarding, unread, arrived>>
  BY DEF ReadLine
<1>3. PICK m : m = Len(handled)
  OBVIOUS
<1>4. /\ m \in Nat /\ DOMAIN handled' = 1 .. m + 1 /\ DOMAIN handled = 1 .. m
      /\ handled'[m + 1] = [buf |-> Number, at |-> at + 1]
      /\ \A k \in 1 .. m : handled'[k] = handled[k] /\ handled[k] \in Places
  BY <1>3, LineHandled
<1>5. /\ Number \in Nat /\ Number \in 1 .. Len(arrived) /\ Len(arrived) \in Nat /\ at \in Nat /\ unread > 0
      /\ ~Lost(Number) /\ at + 1 \in Whole(Number) /\ ~discarding
  <2>1. Len(arrived) \in Nat
    BY <1>1, UdpTypes
  <2> QED
    BY <1>2, <2>1, UdpReadsOn
<1>6. PICK N : N = Number
  OBVIOUS
<1>7. /\ handled'[m + 1].buf = N /\ handled'[m + 1].at = at + 1
      /\ \A k \in 1 .. m : handled[k].buf \in Nat /\ handled[k].at \in Nat /\ handled[k].buf \in 1 .. N
                           /\ (handled[k].buf < N \/ handled[k].at <= at)
  <2>1. \A k \in 1 .. m : Past(handled[k].buf, handled[k].at)
    BY <1>1, <1>4 DEF Midst
  <2>2. \A k \in 1 .. m : handled[k].buf \in 1 .. Len(arrived) /\ handled[k].at \in Nat
    BY <1>4 DEF Places
  <2> QED
    BY <1>4, <1>5, <1>6, <2>1, <2>2 DEF Past
<1>8. Number' = N /\ \A i : Whole(i)' = Whole(i) /\ (Begins(i)' <=> Begins(i))
  BY <1>2, <1>6 DEF Number, Whole, Begins
<1>9. \A i \in 1 .. N - 1 : Damages(i)' <=> Damages(i)
  <2> TAKE i \in 1 .. N - 1
  <2>1. (\E h \in 1 .. m + 1 : handled'[h] = [buf |-> i, at |-> 1])
        <=> \E h \in 1 .. m : handled[h] = [buf |-> i, at |-> 1]
    <3>1. handled'[m + 1] # [buf |-> i, at |-> 1]
      BY <1>5, <1>6, <1>7
    <3>2. \A h \in 1 .. m + 1 : h \in 1 .. m \/ h = m + 1
      BY <1>4
    <3>3. \A h \in 1 .. m : h \in 1 .. m + 1
      BY <1>4
    <3> QED
      BY <1>4, <3>1, <3>2, <3>3
  <2> QED
    BY <1>2, <1>4, <1>8, <2>1 DEF Damages
<1>10. \A i \in 1 .. N : Lost(i)' <=> Lost(i)
  <2>1. N - 1 \in Nat /\ (N - 1) + 1 = N
    BY <1>5, <1>6
  <2>2. \A i \in 1 .. N - 1 : arrived'[i] = arrived[i]
    BY <1>2
  <2>3. \A i \in 1 .. (N - 1) + 1 : Lost(i)' <=> Lost(i)
    BY <1>9, <2>1, <2>2, StillLost
  <2> QED
    BY <2>1, <2>3
<1>11. Sorted'
  <2> SUFFICES ASSUME NEW j \in 1 .. m + 1, NEW k \in 1 .. m + 1, j < k
               PROVE  Before(handled'[j], handled'[k])
    BY <1>4 DEF Sorted, Before
  <2>1. j \in 1 .. m /\ (k \in 1 .. m \/ k = m + 1)
    BY <1>4
  <2>2. CASE k \in 1 .. m
    BY <1>1, <1>4, <2>1, <2>2 DEF Sorted
  <2>3. CASE k = m + 1
    BY <1>4, <1>5, <1>6, <1>7, <2>1, <2>3 DEF Before
  <2> QED
    BY <2>1, <2>2, <2>3
<1>12. Sound'
  <2>1. ASSUME NEW k \in 1 .. m + 1, NEW i, i = handled'[k].buf
        PROVE  ~Lost(i)' /\ handled'[k].at \in Whole(i)
    <3>1. CASE k \in 1 .. m
      BY <1>1, <1>4, <1>7, <1>10, <2>1, <3>1 DEF Sound
    <3>2. CASE k = m + 1
      <4>1. N \in 1 .. N
        BY <1>5, <1>6
      <4> QED
        BY <1>5, <1>6, <1>7, <1>10, <2>1, <3>2, <4>1
    <3> QED
      BY <1>4, <3>1, <3>2
  <2>2. ASSUME NEW k \in 1 .. m + 1
        PROVE  (~Lost(handled[k].buf) /\ handled[k].at \in Whole(handled[k].buf))'
    <3>1. PICK i : i = handled'[k].buf
      OBVIOUS
    <3>2. ~Lost(i)' /\ handled'[k].at \in Whole(i)'
      BY <1>8, <2>1, <2>2, <3>1
    <3>3. (Lost(handled[k].buf)' <=> Lost(i)') /\ Whole(handled[k].buf)' = Whole(i)'
      BY <3>1 DEF Lost, Whole
    <3> QED
      BY <3>2, <3>3
  <2> QED
    BY <1>4, <2>2 DEF Sound
<1>13. Complete'
  <2> SUFFICES ASSUME NEW i \in 1 .. Len(arrived), NEW a \in Whole(i), ~Lost(i)', Past(i, a)'
               PROVE  \E k \in 1 .. m + 1 : handled'[k] = [buf |-> i, at |-> a]
    BY <1>2, <1>4, <1>8 DEF Complete
  <2>1. i < N \/ (i = N /\ a <= at + 1)
    BY <1>2, <1>8 DEF Past
  <2>2. a \in Nat
    <3>1. Filled(arrived[i])
      BY <1>1, UdpTypes
    <3> QED
      BY <3>1 DEF Whole, Filled
  <2>3. i \in 1 .. N
    BY <1>5, <1>6, <2>1
  <2>4. CASE i = N /\ a = at + 1
    <3>1. m + 1 \in 1 .. m + 1 /\ handled'[m + 1] = [buf |-> i, at |-> a]
      BY <1>4, <1>6, <2>4
    <3> QED
      BY <3>1
  <2>5. CASE ~(i = N /\ a = at + 1)
    <3>1. Past(i, a)
      BY <1>5, <1>6, <2>1, <2>2, <2>5 DEF Past
    <3>2. PICK k \in 1 .. m : handled[k] = [buf |-> i, at |-> a]
      BY <1>1, <1>4, <1>10, <2>3, <3>1 DEF Complete
    <3>3. k \in 1 .. m + 1 /\ handled'[k] = [buf |-> i, at |-> a]
      BY <1>4, <3>2
    <3> QED
      BY <3>3
  <2> QED
    BY <2>4, <2>5
<1>14. Midst'
  <2>1. Lost(Number)' <=> Lost(N)'
    BY <1>8 DEF Lost
  <2>2. ~Lost(N)'
    <3>1. N \in 1 .. N
      BY <1>5, <1>6
    <3> QED
      BY <1>5, <1>6, <1>10, <3>1
  <2>3. Whole(Number)' = Whole(N)
    BY <1>2, <1>8 DEF Whole
  <2>4. ASSUME NEW k \in 1 .. m + 1 PROVE (Past(handled[k].buf, handled[k].at))'
    <3>1. handled'[k].buf < N \/ (handled'[k].buf = N /\ handled'[k].at <= at + 1)
      <4>1. CASE k \in 1 .. m
        <5>1. /\ handled[k].buf \in Nat /\ handled[k].at \in Nat /\ handled[k].buf \in 1 .. N
              /\ (handled[k].buf < N \/ handled[k].at <= at)
          BY <1>7, <4>1
        <5>2. handled[k].buf < N \/ (handled[k].buf = N /\ handled[k].at <= at + 1)
          BY <1>5, <1>6, <5>1
        <5> QED
          BY <1>4, <4>1, <5>2
      <4>2. CASE k = m + 1
        BY <1>5, <1>7, <4>2
      <4> QED
        BY <1>4, <4>1, <4>2
    <3> QED
      BY <1>2, <1>8, <3>1 DEF Past
  <2>5. at' \in Whole(Number)' /\ unread' > 0 /\ ~discarding'
    BY <1>2, <1>5, <1>6, <2>3
  <2> QED
    BY <1>4, <2>1, <2>2, <2>4, <2>5 DEF Midst
<1> QED
  BY <1>11, <1>12, <1>13, <1>14

(* A line is handled. *)
LEMMA UdpReadsLine ==
  ASSUME UdpInv, ReadLine
  PROVE  UdpInv'
<1> DEFINE b == Buffer
           spoken == Piece # "bye"
<1>1. UdpTypeOK /\ Mode /\ \A p \in Peers : Hears(p)
  BY DEF UdpInv
<1>2. Reading /\ at' = at + 1 /\ UNCHANGED <<discarding, unread, batch, arrived, sent, failed>>
  BY DEF ReadLine
<1>3. PICK m : m = Len(handled)
  OBVIOUS
<1>4. /\ m \in Nat /\ handled' \in Seq(Places) /\ Len(handled') = m + 1 /\ DOMAIN handled' = 1 .. m + 1
      /\ DOMAIN handled = 1 .. m
      /\ \A k \in 1 .. m : (Speaks(k)' <=> Speaks(k)) /\ From(k)' = From(k)
      /\ \A p : \A k \in 1 .. m + 1 : TakesPart(p, k)' <=> TakesPart(p, k)
      /\ From(m + 1)' = b.from /\ (Speaks(m + 1)' <=> spoken)
      /\ \A p : TakesPart(p, m + 2)' <=> IF b.from = p THEN spoken ELSE TakesPart(p, m + 1)
  BY <1>3, LineHandled
<1>5. /\ transmits' \in Seq([line : 1 .. m + 1, to : Peers])
      /\ members' = IF spoken THEN members \cup {b.from} ELSE members \ {b.from}
      /\ \A p : Ordered(Wire, p) => Ordered(Wire, p)'
      /\ \A p, n : Told(Wire, p, n)' <=> Told(Wire, p, n)
                     \/ (spoken /\ n = m + 1 /\ p \in members /\ p # b.from)
  BY <1>3, UdpTells
<1>6. b.from \in Peers /\ phase # "done" /\ phase' = "batch" /\ at \in Nat
  <2>1. Filled(Buffer) /\ phase # "done" /\ phase' = "batch" /\ at \in Nat
    BY <1>2, UdpReadsOn
  <2> QED
    BY <2>1 DEF Filled
<1> HIDE DEF b, spoken
<1>7. UdpTypeOK'
  <2>1. members' \subseteq Peers
    BY <1>1, <1>5, <1>6 DEF UdpTypeOK
  <2>2. Places' = Places /\ Copies' = [line : 1 .. m + 1, to : Peers]
    BY <1>2, <1>4 DEF Copies, Places
  <2>3. sent' \in Seq([line : 1 .. m + 1, to : Peers])
    <3>1. Copies \subseteq [line : 1 .. m + 1, to : Peers]
      BY <1>3, <1>4 DEF Copies
    <3>2. sent \in Seq(Copies)
      BY <1>1 DEF UdpTypeOK
    <3> QED
      BY <1>2, <3>1, <3>2, WiderSeq
  <2>4. phase' \in {"select", "batch", "send", "done"} /\ at' \in Nat
    BY <1>2, <1>6
  <2>5. /\ discarding \in BOOLEAN /\ failed \subseteq 1 .. Len(sent) /\ unread \in 0 .. Len(arrived)
        /\ batch \in 0 .. MaxBatch /\ arrived \in Seq([from : Peers, lines : Contents])
    BY <1>1 DEF UdpTypeOK
  <2>6. transmits' \in Seq(Copies') /\ sent' \in Seq(Copies') /\ handled' \in Seq(Places')
    BY <1>4, <1>5, <2>2, <2>3
  <2> HIDE DEF Copies, Places
  <2> QED
    BY <1>2, <2>1, <2>4, <2>5, <2>6 DEF UdpTypeOK
<1>8. (Sorted /\ Sound /\ Complete /\ Midst)'
  BY LineInPlace
<1>9. Mode'
  <2>1. Len(handled') + 1 = m + 2
    BY <1>4
  <2>2. IsFiniteSet(members')
    BY <1>1, <1>5, FS_AddElement, FS_RemoveElement DEF Mode
  <2>3. \A p \in Peers : p \in members <=> TakesPart(p, m + 1)
    BY <1>1, <1>3 DEF Mode
  <2>4. \A p \in Peers : p \in members' <=> TakesPart(p, m + 2)'
    BY <1>4, <1>5, <2>3
  <2>5. \A p : TakesPart(p, Len(handled) + 1)' <=> TakesPart(p, m + 2)'
    BY <2>1 DEF TakesPart, SaidBefore, Speaks, From
  <2> QED
    BY <1>6, <2>2, <2>4, <2>5 DEF Mode
<1>10. \A p \in Peers : \A n : n \in Heard(p)' <=> n \in Heard(p) \/ (spoken /\ n = m + 1 /\ p \in members /\ p # b.from)
  <2> TAKE p \in Peers
  <2> TAKE n
  <2>1. n \in Heard(p)' <=> n \in 1 .. m + 1 /\ Speaks(n)' /\ From(n)' # p /\ TakesPart(p, n)'
    BY <1>4 DEF Heard
  <2>2. n \in Heard(p) <=> n \in 1 .. m /\ Speaks(n) /\ From(n) # p /\ TakesPart(p, n)
    BY <1>4 DEF Heard
  <2>3. p \in members <=> TakesPart(p, m + 1)
    BY <1>1, <1>3 DEF Mode
  <2>4. CASE n \in 1 .. m
    <3>1. n \in 1 .. m + 1 /\ n # m + 1
      BY <1>4, <2>4
    <3> QED
      BY <1>4, <2>1, <2>2, <2>4, <3>1
  <2>5. CASE n = m + 1
    <3>1. n \in 1 .. m + 1 /\ n \notin 1 .. m
      BY <1>4, <2>5
    <3>2. (Speaks(n)' <=> Speaks(m + 1)') /\ From(n)' = From(m + 1)' /\ (TakesPart(p, n)' <=> TakesPart(p, m + 1)')
      BY <2>5 DEF Speaks, From, TakesPart, SaidBefore
    <3> QED
      BY <1>4, <2>1, <2>2, <2>3, <2>5, <3>1, <3>2
  <2>6. CASE n \notin 1 .. m + 1
    <3>1. n \notin 1 .. m /\ n # m + 1
      BY <1>4, <2>6
    <3> QED
      BY <2>1, <2>2, <2>6, <3>1
  <2> QED
    BY <1>4, <2>4, <2>5, <2>6
<1>11. ASSUME NEW p \in Peers PROVE Hears(p)'
  <2>1. /\ Ordered(Wire, p)
        /\ \A n : Told(Wire, p, n) <=> n \in Heard(p)
    BY <1>1, <1>6 DEF Hears
  <2>2. Ordered(Wire, p)' /\ \A n : Told(Wire, p, n)' <=> n \in Heard(p)'
    BY <1>5, <1>10, <2>1
  <2> QED
    BY <2>2 DEF Hears
<1> QED
  BY <1>7, <1>8, <1>9, <1>11 DEF UdpInv

LEMMA UdpInvKept == UdpInv /\ [UdpNext]_udpvars => UdpInv'
<1> SUFFICES ASSUME UdpInv, [UdpNext]_udpvars PROVE UdpInv'
  OBVIOUS
<1>1. UdpTypeOK /\ Mode
  BY DEF UdpInv
<1>2. /\ transmits \in Seq(Copies) /\ sent \in Seq(Copies) /\ failed \subseteq 1 .. Len(sent)
      /\ 0 \in 0 .. MaxBatch /\ batch \in 0 .. MaxBatch /\ unread \in 0 .. Len(arrived)
      /\ phase \in {"select", "batch", "send", "done"}
  BY <1>1, ChatUdpAssumption DEF UdpTypeOK
<1>3. CASE ReadLine \/ ReadEnds
  BY <1>3, UdpReadsLine, UdpReadsNothing
<1>4. CASE UdpEnd
  BY <1>4, UdpEnds
<1>5. ASSUME UNCHANGED <<handler, unread, arrived>>, transmits' \in Seq(Copies), sent' \in Seq(Copies), Wire' = Wire,
             failed' \subseteq 1 .. Len(sent'),
             phase' \in {"select", "batch", "send", "done"}, batch' \in 0 .. MaxBatch,
             phase' = "send" => transmits' # <<>>,
             phase' = "done" \/ (failed' = {} /\ phase' = "select") => transmits' = <<>>,
             phase' # "done" \/ failed' = {} => phase # "done" \/ failed = {}
      PROVE  UdpInv'
  <2>1. Copies' = Copies /\ Places' = Places
    BY <1>5 DEF Copies, Places, handler
  <2>2. UdpTypeOK'
    <3> HIDE DEF Copies, Places
    <3> QED
      BY <1>1, <1>5, <2>1 DEF UdpTypeOK, handler
  <2> QED
    BY <1>5, <2>2, UdpSilent
<1>6. CASE BatchRead \/ UdpDay
  BY <1>2, <1>5, <1>6 DEF BatchRead, UdpDay, UdpProceed, Wire
<1>7. CASE Send \/ SendError
  <2>1. transmits # <<>> /\ phase = "send"
    BY <1>1, <1>7 DEF Mode, Send, SendError
  <2>2. sent' = Append(sent, Head(transmits)) /\ transmits' = Tail(transmits)
    BY <1>7 DEF Send, SendError
  <2>3. sent' \in Seq(Copies) /\ transmits' \in Seq(Copies) /\ Wire' = Wire /\ Len(sent') = Len(sent) + 1
        /\ Len(sent) \in Nat
    <3> DEFINE R == Copies
    <3>1. sent \in Seq(R) /\ transmits \in Seq(R)
      BY <1>2
    <3> HIDE DEF R
    <3>2. \A a, c \in Seq(R) : c # <<>> => /\ Append(a, Head(c)) \in Seq(R) /\ Tail(c) \in Seq(R)
                                         /\ Append(a, Head(c)) \o Tail(c) = a \o c
      BY HeadMoves
    <3>3. /\ Append(sent, Head(transmits)) \in Seq(R) /\ Tail(transmits) \in Seq(R)
          /\ Append(sent, Head(transmits)) \o Tail(transmits) = sent \o transmits
      BY <2>1, <3>1, <3>2, Zenon
    <3>4. Len(sent') = Len(sent) + 1 /\ Len(sent) \in Nat
      BY <2>2, <3>1
    <3> QED
      BY <2>2, <3>3, <3>4 DEF Wire, R
  <2>4. failed' \subseteq 1 .. Len(sent')
    <3>1. failed' = failed \/ failed' = failed \cup {Len(sent) + 1}
      BY <1>7 DEF Send, SendError
    <3>2. failed \subseteq 1 .. Len(sent) + 1 /\ Len(sent) + 1 \in 1 .. Len(sent) + 1
      BY <1>2, <2>3
    <3> QED
      BY <2>3, <3>1, <3>2
  <2>5. CASE Send
    BY <1>2, <1>5, <2>1, <2>3, <2>4, <2>5 DEF Send, UdpProceed
  <2>6. CASE SendError
    <3>1. failed' # {}
      BY <2>6 DEF SendError
    <3> QED
      BY <1>2, <1>5, <2>1, <2>3, <2>4, <2>6, <3>1 DEF SendError
  <2> QED
    BY <1>7, <2>5, <2>6
<1>8. CASE \E p \in Peers, d \in Contents : Arrive(p, d)
  BY <1>8, UdpArrives
<1>9. CASE UNCHANGED udpvars
  BY <1>1, <1>2, <1>5, <1>9 DEF udpvars, handler, Wire, Mode
<1> QED
  BY <1>3, <1>4, <1>6, <1>7, <1>8, <1>9 DEF UdpNext

LEMMA UdpAlways == UdpSpec => []UdpInv
<1>1. UdpInit => UdpInv
  BY UdpInitInv
<1>2. UdpInv /\ [UdpNext]_udpvars => UdpInv'
  BY UdpInvKept
<1> QED
  BY <1>1, <1>2, PTL DEF UdpSpec

(* Of all that arrives, in any buffers, batches and at any time, exactly   *)
(* the lines that no line too long damages are handled, in order: the      *)
(* decoder that all peers share drops the rest of the buffer and the       *)
(* buffers up to and including the next that begins with a line, whosever  *)
(* they are.                                                               *)
THEOREM DamageIsBounded == UdpSpec => []DamageBounded
<1>1. UdpInv => DamageBounded
  BY UdpInvDamage
<1> QED
  BY <1>1, UdpAlways, PTL

(* Whoever joins, leaves or is not reached by a send: each peer is given   *)
(* what the others say while it takes part, once and in order, but for the *)
(* last lines when the task is stopped after a send has failed.            *)
THEOREM PeersHearAll == UdpSpec => []OneConversation
<1>1. UdpInv => OneConversation
  BY UdpInvHears
<1> QED
  BY <1>1, UdpAlways, PTL
=============================================================================
