----------------------------- MODULE Pane_proofs -----------------------------
(***************************************************************************)
(* Three facts of a pane, for every size of ring, screen, anchor and queue *)
(* and every length of read: its ring is the tail of the output, an Enter  *)
(* that reaches the process comes after its line, and its transcript goes  *)
(* on after a line that says what its last one said.                       *)
(***************************************************************************)
EXTENDS Pane, SequenceTheorems, WellFoundedInduction, TLAPS

-----------------------------------------------------------------------------
(* The ring *)

\* Where the ring's lines are: what is behind head was written in this turn of
\* the ring, the rest in the turn before
BehindHead == \A i \in 0..(RingCap - 1) : i < head => buf[i] = seq - head + i + 1
AheadOfHead == full => \A i \in 0..(RingCap - 1) : i >= head => buf[i] = seq - head + i + 1 - RingCap

RingInv ==
  /\ seq \in Nat /\ head \in Nat /\ head < RingCap
  /\ buf \in [0..(RingCap - 1) -> Int]
  /\ full => seq >= RingCap
  /\ ~full => seq = head
  /\ BehindHead /\ AheadOfHead

LEMMA Sizes == RingCap \in Nat \ {0} /\ MaxChunk \in Nat
BY PaneAssumption

LEMMA LenOfCount ==
  ASSUME NEW k \in Nat, NEW f \in [1..k -> Int]
  PROVE  f \in Seq(Int) /\ Len(f) = k
<1>1. f \in Seq(Int)
  BY SeqDef
<1>2. DOMAIN f = 1..k /\ DOMAIN f = 1..Len(f) /\ Len(f) \in Nat
  BY <1>1, LenProperties
<1> QED BY <1>1, <1>2

\* What is added at the end leaves the rest in place.
LEMMA LongerAfter ==
  ASSUME NEW T, NEW s \in Seq(T), NEW t \in Seq(T)
  PROVE  /\ s \o t \in Seq(T) /\ Len(s \o t) = Len(s) + Len(t)
         /\ \A i \in 1..Len(s) : (s \o t)[i] = s[i]
<1>1. Len(s) \in Nat /\ Len(t) \in Nat
  BY LenProperties
<1>2. \A i \in 1..(Len(s) + Len(t)) : (s \o t)[i] = IF i <= Len(s) THEN s[i] ELSE t[i - Len(s)]
  BY ConcatProperties
<1>3. ASSUME NEW i \in 1..Len(s) PROVE (s \o t)[i] = s[i]
  BY <1>1, <1>2
<1>4. s \o t \in Seq(T) /\ Len(s \o t) = Len(s) + Len(t)
  BY ConcatProperties
<1> QED BY <1>3, <1>4

\* A function on 1..k is a sequence of k.
LEMMA LenOfSaid ==
  ASSUME NEW T, NEW k \in Nat, NEW f \in [1..k -> T]
  PROVE  f \in Seq(T) /\ Len(f) = k
<1>1. f \in Seq(T)
  BY SeqDef
<1>2. DOMAIN f = 1..k /\ DOMAIN f = 1..Len(f) /\ Len(f) \in Nat
  BY <1>1, LenProperties
<1> QED BY <1>1, <1>2

\* A position less than twice the capacity is taken back by one turn at most.
LEMMA OneTurn ==
  ASSUME NEW c \in Nat \ {0}, NEW a \in Nat, a < 2 * c
  PROVE  a % c = IF a < c THEN a ELSE a - c
<1>1. CASE a < c
  BY <1>1, SMT
<1>2. CASE a >= c
  <2>1. a = 1 * c + (a - c) /\ a - c \in 0..(c - 1)
    BY <1>2
  <2> QED BY <1>2, <2>1, SMT
<1> QED BY <1>1, <1>2

LEMMA MinOfTwo ==
  ASSUME NEW a \in Int, NEW b \in Int
  PROVE  Min({a, b}) = IF a <= b THEN a ELSE b
BY DEF Min

\* Writing the next k lines keeps every line of the ring in its place: a write
\* longer than the ring starts it anew, a shorter one goes around at most once.
LEMMA WriteKeepsRing ==
  ASSUME RingInv, NEW k \in Nat \ {0}, RingWrite([i \in 1..k |-> seq + i]), seq' = seq + k
  PROVE  RingInv'
<1> DEFINE p == [i \in 1..k |-> seq + i]
           n == Min({RingCap - head, Len(p)})
<1>0. p \in [1..k -> Int] /\ \A i \in 1..k : p[i] = seq + i
  BY DEF RingInv
<1>1. RingCap \in Nat \ {0} /\ Len(p) = k /\ \A i \in 1..k : p[i] = seq + i
  BY <1>0, Sizes, LenOfCount
<1> DEFINE left == RingCap - head
<1>2. n = IF left <= k THEN left ELSE k
  <2>1. left \in Int /\ n = Min({left, k})
    BY <1>1 DEF RingInv
  <2> HIDE DEF left, n
  <2> QED BY <2>1, MinOfTwo
<1> HIDE DEF p, n
<1>3. RingWrite(p)
  BY DEF p
<1>4. CASE k >= RingCap
  <2>1. buf' = [i \in 0..(RingCap - 1) |-> p[k - RingCap + i + 1]] /\ head' = 0 /\ full'
    BY <1>1, <1>3, <1>4 DEF RingWrite
  <2>2. \A i \in 0..(RingCap - 1) : buf'[i] = seq' - RingCap + i + 1
    BY <1>1, <1>4, <2>1 DEF RingInv
  <2> QED BY <1>1, <1>4, <2>1, <2>2 DEF RingInv, BehindHead, AheadOfHead
<1>5. CASE k < RingCap
  <2> DEFINE a == head + k
  <2>1. /\ buf' = [i \in 0..(RingCap - 1) |->
                     IF i \in head..(head + n - 1) THEN p[i - head + 1]
                     ELSE IF i < k - n THEN p[n + i + 1] ELSE buf[i]]
        /\ head' = a % RingCap
        /\ full' = (full \/ n < k \/ head' = 0)
    <3>1. ~(Len(p) >= RingCap)
      BY <1>1, <1>5
    <3> QED BY <1>1, <1>3, <3>1 DEF RingWrite, n
  <2>2. a \in Nat /\ a < 2 * RingCap
    BY <1>1, <1>5 DEF RingInv
  <2>a. a = head + k
    OBVIOUS
  <2> HIDE DEF a
  <2>3. a % RingCap = IF a < RingCap THEN a ELSE a - RingCap
    BY <1>1, <2>2, OneTurn
  <2>4. head' = IF head + k < RingCap THEN head + k ELSE head + k - RingCap
    <3> DEFINE m == a % RingCap
    <3>1. head' = m /\ m = IF a < RingCap THEN a ELSE a - RingCap
      BY <2>1, <2>3
    <3> HIDE DEF m
    <3> QED BY <1>1, <2>2, <2>a, <3>1 DEF RingInv
  <2>5. CASE head + k < RingCap
    <3>1. n = k /\ head' = head + k /\ head' # 0 /\ ~(n < k)
      BY <1>1, <1>2, <2>4, <2>5 DEF RingInv
    <3>2. full' <=> full
      BY <2>1, <3>1, Zenon
    <3>3. \A i \in 0..(RingCap - 1) :
            buf'[i] = IF head <= i /\ i < head + k THEN seq + i - head + 1 ELSE buf[i]
      BY <1>1, <2>1, <3>1 DEF RingInv
    <3>4. buf' \in [0..(RingCap - 1) -> Int]
      BY <1>1, <2>1, <3>3 DEF RingInv
    <3>5. BehindHead'
      BY <1>1, <3>1, <3>3 DEF RingInv, BehindHead
    <3>6. AheadOfHead'
      BY <1>1, <3>1, <3>2, <3>3 DEF RingInv, AheadOfHead
    <3> QED BY <1>1, <2>5, <3>1, <3>2, <3>4, <3>5, <3>6 DEF RingInv
  <2>6. CASE head + k >= RingCap
    <3>1. n = RingCap - head /\ head' = head + k - RingCap /\ (n < k \/ head' = 0)
      BY <1>1, <1>2, <2>4, <2>6 DEF RingInv
    <3>2. full'
      BY <2>1, <3>1, Zenon
    <3>3. \A i \in 0..(RingCap - 1) :
            buf'[i] = IF i >= head THEN seq + i - head + 1
                      ELSE IF i < head' THEN seq + (RingCap - head) + i + 1 ELSE buf[i]
      <4> SUFFICES ASSUME NEW i \in 0..(RingCap - 1)
                   PROVE  buf'[i] = IF i >= head THEN seq + i - head + 1
                                    ELSE IF i < head' THEN seq + (RingCap - head) + i + 1 ELSE buf[i]
        OBVIOUS
      <4>1. buf'[i] = IF i \in head..(head + n - 1) THEN p[i - head + 1]
                      ELSE IF i < k - n THEN p[n + i + 1] ELSE buf[i]
        BY <2>1
      <4>2. CASE i >= head
        <5>1. i \in head..(head + n - 1) /\ i - head + 1 \in 1..k
          BY <1>1, <2>6, <3>1, <4>2 DEF RingInv
        <5>2. p[i - head + 1] = seq + (i - head + 1)
          BY <1>1, <5>1
        <5> QED BY <4>1, <4>2, <5>1, <5>2 DEF RingInv
      <4>3. CASE i < head /\ i < head'
        <5>1. i \notin head..(head + n - 1) /\ i < k - n /\ n + i + 1 \in 1..k
          BY <1>1, <3>1, <4>3 DEF RingInv
        <5>2. p[n + i + 1] = seq + (n + i + 1)
          BY <1>1, <5>1
        <5> QED BY <1>1, <3>1, <4>1, <4>3, <5>1, <5>2 DEF RingInv
      <4>4. CASE i < head /\ ~(i < head')
        <5>1. i \notin head..(head + n - 1) /\ ~(i < k - n)
          BY <1>1, <3>1, <4>4 DEF RingInv
        <5> QED BY <1>1, <3>1, <4>1, <4>4, <5>1 DEF RingInv
      <4> QED BY <3>1, <4>2, <4>3, <4>4 DEF RingInv
    <3>4. buf' \in [0..(RingCap - 1) -> Int]
      BY <1>1, <2>1, <3>1, <3>3 DEF RingInv
    <3>5. BehindHead'
      BY <1>1, <1>5, <3>1, <3>3 DEF RingInv, BehindHead
    <3>6. AheadOfHead'
      BY <1>1, <1>5, <3>1, <3>3 DEF RingInv, BehindHead, AheadOfHead
    <3> QED BY <1>1, <1>5, <2>6, <3>1, <3>2, <3>4, <3>5, <3>6 DEF RingInv
  <2> QED BY <1>1, <2>5, <2>6 DEF RingInv
<1> QED BY <1>1, <1>4, <1>5

LEMMA EmptyRing ==
  ASSUME buf = NoBytes, head = 0, ~full, seq = 0
  PROVE  RingInv
BY Sizes DEF NoBytes, RingInv, BehindHead, AheadOfHead

LEMMA RingUnchanged ==
  ASSUME RingInv, UNCHANGED <<ring, seq>>
  PROVE  RingInv'
BY DEF ring, RingInv, BehindHead, AheadOfHead

\* A ring in order is the tail of the output.
LEMMA RingIsTail == RingInv => RingExact
<1> SUFFICES ASSUME RingInv PROVE RingExact
  OBVIOUS
<1> DEFINE all == [n \in 1..seq |-> n]
<1>1. RingCap \in Nat \ {0} /\ seq \in Nat /\ all \in Seq(Int) /\ Len(all) = seq
  BY Sizes, LenOfCount DEF RingInv
<1>2. CASE full
  <2>1. \A i \in 1..RingCap : buf[(head + i - 1) % RingCap] = seq - RingCap + i
    <3> SUFFICES ASSUME NEW i \in 1..RingCap PROVE buf[(head + i - 1) % RingCap] = seq - RingCap + i
      OBVIOUS
    <3> DEFINE a == head + i - 1
    <3>1. a \in Nat /\ a < 2 * RingCap /\ a = head + i - 1
      BY <1>1 DEF RingInv
    <3>2. buf[a % RingCap] = seq - RingCap + i
      <4> HIDE DEF a
      <4>1. a % RingCap = IF a < RingCap THEN a ELSE a - RingCap
        BY <1>1, <3>1, OneTurn
      <4> DEFINE m == a % RingCap
      <4>2. m = IF a < RingCap THEN a ELSE a - RingCap
        BY <4>1
      <4> HIDE DEF m
      <4>3. CASE a < RingCap
        <5>1. m = a /\ m \in 0..(RingCap - 1) /\ m >= head
          BY <1>1, <3>1, <4>2, <4>3 DEF RingInv
        <5>2. buf[m] = seq - head + m + 1 - RingCap
          BY <1>2, <5>1 DEF RingInv, AheadOfHead
        <5> QED BY <1>1, <3>1, <5>1, <5>2 DEF RingInv, m
      <4>4. CASE a >= RingCap
        <5>1. m = a - RingCap /\ m \in 0..(RingCap - 1) /\ m < head
          BY <1>1, <3>1, <4>2, <4>4 DEF RingInv
        <5>2. buf[m] = seq - head + m + 1
          BY <5>1 DEF RingInv, BehindHead
        <5> QED BY <1>1, <3>1, <5>1, <5>2 DEF RingInv, m
      <4> QED BY <1>1, <3>1, <4>3, <4>4
    <3> QED BY <3>2
  <2>2. Snapshot = [i \in 1..RingCap |-> seq - RingCap + i]
    BY <1>2, <2>1 DEF Snapshot
  <2>3. seq >= RingCap
    BY <1>2 DEF RingInv
  <2>4. LastOf(all, RingCap) = [i \in 1..RingCap |-> seq - RingCap + i]
    <3>1. CASE seq > RingCap
      <4>1. LastOf(all, RingCap) = SubSeq(all, seq - RingCap + 1, seq)
        BY <1>1, <3>1 DEF LastOf
      <4>2. /\ SubSeq(all, seq - RingCap + 1, seq) \in Seq(Int)
            /\ Len(SubSeq(all, seq - RingCap + 1, seq)) = RingCap
            /\ \A i \in 1..RingCap : SubSeq(all, seq - RingCap + 1, seq)[i] = seq - RingCap + i
        BY <1>1, <3>1, SubSeqProperties
      <4>3. [i \in 1..RingCap |-> seq - RingCap + i] \in [1..RingCap -> Int]
        BY <1>1
      <4> DEFINE t == [i \in 1..RingCap |-> seq - RingCap + i]
                 s == SubSeq(all, seq - RingCap + 1, seq)
      <4>4. t \in Seq(Int) /\ Len(t) = RingCap /\ s \in Seq(Int) /\ Len(s) = RingCap
            /\ \A i \in 1..RingCap : s[i] = t[i]
        BY <1>1, <4>2, <4>3, LenOfCount
      <4> HIDE DEF s, t
      <4>5. s = t
        BY <4>4, SeqEqual
      <4> QED BY <4>1, <4>5 DEF s, t
    <3>2. CASE seq = RingCap
      BY <1>1, <3>2 DEF LastOf
    <3> QED BY <1>1, <2>3, <3>1, <3>2
  <2> QED BY <2>2, <2>4 DEF RingExact
<1>3. CASE ~full
  <2>1. seq = head /\ seq < RingCap
    BY <1>3 DEF RingInv
  <2>2. \A i \in 1..head : buf[i - 1] = i
    BY <1>1, <2>1 DEF RingInv, BehindHead
  <2>3. Snapshot = [i \in 1..head |-> i]
    BY <1>3, <2>2 DEF Snapshot
  <2>4. LastOf(all, RingCap) = all
    BY <1>1, <2>1 DEF LastOf
  <2> QED BY <2>1, <2>3, <2>4 DEF RingExact
<1> QED BY <1>2, <1>3

\* For every size of ring and every sequence of reads the ring is the tail of what
\* the process wrote (ring.Write, Snapshot).
THEOREM RingIsExact == Spec => []RingExact
<1>1. Init => RingInv
  BY EmptyRing DEF Init
<1>2. RingInv /\ [Next]_vars => RingInv'
  <2> SUFFICES ASSUME RingInv, [Next]_vars PROVE RingInv'
    OBVIOUS
  <2>1. CASE \E k \in 1..MaxChunk : \E said \in [1..k -> Texts] : Output(said)
    <3>1. PICK k \in 1..MaxChunk : \E said \in [1..k -> Texts] : Output(said)
      BY <2>1
    <3>2. PICK said \in [1..k -> Texts] : Output(said)
      BY <3>1
    <3>3. k \in Nat \ {0} /\ Len(said) = k
      BY PaneAssumption, LenOfSaid
    <3> QED BY <3>2, <3>3, WriteKeepsRing DEF Output
  <2>2. CASE Respawn
    <3>1. buf' = NoBytes /\ head' = 0 /\ ~full' /\ seq' = 0
      BY <2>2 DEF Respawn, NoBytes
    <3> QED BY <3>1, Sizes DEF NoBytes, RingInv, BehindHead, AheadOfHead
  <2>3. CASE UNCHANGED <<ring, seq>>
    BY <2>3, RingUnchanged
  <2>4. \/ \E k \in 1..MaxChunk : \E said \in [1..k -> Texts] : Output(said)
        \/ Respawn
        \/ UNCHANGED <<ring, seq>>
    BY DEF Next, Clear, FlushTranscript, FlushLines, Inject, Read, Enter, Close, vars, output
  <2> QED BY <2>1, <2>2, <2>3, <2>4
<1> QED BY <1>1, <1>2, RingIsTail, PTL DEF Spec

-----------------------------------------------------------------------------
(* The lines *)

Item == [key : {"text", "enter"}, line : Nat]
AsText(line) == [key |-> "text", line |-> line]

\* What a process has read and what waits for it
Stream == got \o inbox

\* Every Enter in q comes after its line, and q has the line
Ordered(q) == \A i \in 1..Len(q) : q[i].key = "enter" => \E j \in 1..(i - 1) : q[j] = AsText(q[i].line)
Has(q, line) == \E j \in 1..Len(q) : q[j] = AsText(line)

LinesTyped ==
  /\ got \in Seq(Item) /\ inbox \in Seq(Item)
  /\ enters \subseteq [line : Nat, gen : Nat]
  /\ lines \in Nat /\ gen \in Nat

\* An Enter to come for the present pane has its line in the stream already
LinesInv ==
  /\ LinesTyped
  /\ ~open => inbox = <<>>
  /\ Ordered(Stream)
  /\ \A e \in enters : e.gen <= gen /\ (open /\ e.gen = gen => Has(Stream, e.line))

\* A line, or an Enter whose line is there, may join the queue.
LEMMA OneMore ==
  ASSUME NEW q \in Seq(Item), NEW x \in Item, Ordered(q), x.key = "enter" => Has(q, x.line)
  PROVE  Ordered(Append(q, x)) /\ \A line : Has(q, line) \/ x = AsText(line) => Has(Append(q, x), line)
<1> DEFINE r == Append(q, x)
<1>1. Len(q) \in Nat /\ Len(r) = Len(q) + 1 /\ r[Len(q) + 1] = x /\ \A i \in 1..Len(q) : r[i] = q[i]
  BY AppendProperties, LenProperties
<1> HIDE DEF r
<1>2. Ordered(r)
  <2> SUFFICES ASSUME NEW i \in 1..Len(r), r[i].key = "enter"
               PROVE  \E j \in 1..(i - 1) : r[j] = AsText(r[i].line)
    BY DEF Ordered
  <2>1. CASE i \in 1..Len(q)
    <3>1. PICK j \in 1..(i - 1) : q[j] = AsText(q[i].line)
      BY <1>1, <2>1 DEF Ordered
    <3> QED BY <1>1, <2>1, <3>1
  <2>2. CASE i = Len(q) + 1
    <3>1. PICK j \in 1..Len(q) : q[j] = AsText(x.line)
      BY <1>1, <2>2 DEF Has
    <3> QED BY <1>1, <2>2, <3>1
  <2>3. i \in 1..Len(q) \/ i = Len(q) + 1
    BY <1>1
  <2> QED BY <2>1, <2>2, <2>3
<1>3. ASSUME NEW line, Has(q, line) \/ x = AsText(line) PROVE Has(r, line)
  BY <1>1, <1>3 DEF Has
<1> QED BY <1>2, <1>3 DEF r

LEMMA QueuedLast ==
  ASSUME NEW g \in Seq(Item), NEW q \in Seq(Item), NEW x \in Item
  PROVE  g \o Append(q, x) = Append(g \o q, x) /\ Append(q, x) \in Seq(Item) /\ g \o q \in Seq(Item)
OBVIOUS

LEMMA ReadMoves ==
  ASSUME NEW g \in Seq(Item), NEW q \in Seq(Item), q # <<>>
  PROVE  /\ Append(g, Head(q)) \o Tail(q) = g \o q
         /\ Append(g, Head(q)) \in Seq(Item) /\ Tail(q) \in Seq(Item)
OBVIOUS

LEMMA PrefixOrdered ==
  ASSUME NEW g \in Seq(Item), NEW q \in Seq(Item), Ordered(g \o q)
  PROVE  Ordered(g)
<1>1. Len(g) \in Nat /\ Len(q) \in Nat /\ Len(g \o q) = Len(g) + Len(q) /\ \A i \in 1..Len(g) : (g \o q)[i] = g[i]
  BY LenProperties, ConcatProperties
<1> QED BY <1>1 DEF Ordered

\* What is queued is one more item, or it is dropped.
LEMMA Queued ==
  ASSUME LinesInv, NEW x \in Item, Queues(x), UNCHANGED got, x.key = "enter" => Has(Stream, x.line)
  PROVE  /\ inbox' \in Seq(Item) /\ Ordered(Stream')
         /\ \A line : Has(Stream, line) => Has(Stream', line)
         /\ Len(inbox) < InboxCap /\ x.key = "text" => Has(Stream', x.line)
<1>1. got \in Seq(Item) /\ inbox \in Seq(Item) /\ Ordered(Stream) /\ Stream \in Seq(Item)
  BY QueuedLast DEF LinesInv, LinesTyped, Stream
<1>2. CASE Len(inbox) < InboxCap
  <2>1. inbox' = Append(inbox, x)
    BY <1>2 DEF Queues
  <2>2. Stream' = Append(Stream, x) /\ inbox' \in Seq(Item)
    BY <1>1, <2>1, QueuedLast DEF Stream
  <2>3. x.key = "text" => x = AsText(x.line)
    BY DEF Item, AsText
  <2> QED BY <1>1, <2>2, <2>3, OneMore
<1>3. CASE ~(Len(inbox) < InboxCap)
  BY <1>1, <1>3 DEF Queues, Stream
<1> QED BY <1>2, <1>3

LEMMA InjectKeeps == ASSUME LinesInv, Inject PROVE LinesInv'
<1> DEFINE x == AsText(lines')
<1>1. x \in Item /\ x.key = "text" /\ x.line = lines' /\ lines' \in Nat
  BY DEF Item, AsText, LinesInv, LinesTyped, Inject
<1>2. Queues(x) /\ UNCHANGED <<got, gen, open>> /\ open
  BY DEF Inject, AsText
<1> HIDE DEF x
<1>3. /\ inbox' \in Seq(Item) /\ Ordered(Stream')
      /\ \A line : Has(Stream, line) => Has(Stream', line)
      /\ Len(inbox) < InboxCap => Has(Stream', lines')
  BY <1>1, <1>2, Queued
<1>4. \A e \in enters' : e \in enters \/ (Len(inbox) < InboxCap /\ e = [line |-> lines', gen |-> gen])
  BY DEF Inject
<1>5. LinesTyped'
  BY <1>1, <1>2, <1>3, <1>4 DEF LinesInv, LinesTyped
<1>6. ASSUME NEW e \in enters' PROVE e.gen <= gen' /\ (open' /\ e.gen = gen' => Has(Stream', e.line))
  BY <1>2, <1>3, <1>4 DEF LinesInv, LinesTyped
<1> QED BY <1>2, <1>3, <1>5, <1>6 DEF LinesInv

LEMMA EnterKeeps == ASSUME LinesInv, NEW e \in enters, Enter(e) PROVE LinesInv'
<1>1. enters' \subseteq enters /\ UNCHANGED <<got, lines, gen, open>>
  BY DEF Enter
<1>2. CASE open /\ e.gen = gen
  <2> DEFINE x == [key |-> "enter", line |-> e.line]
  <2>1. x \in Item /\ x.line = e.line
    BY DEF Item, LinesInv, LinesTyped
  <2>2. Queues(x)
    BY <1>2 DEF Enter
  <2>3. Has(Stream, x.line)
    BY <1>2, <2>1 DEF LinesInv
  <2> HIDE DEF x
  <2>4. /\ inbox' \in Seq(Item) /\ Ordered(Stream')
        /\ \A line : Has(Stream, line) => Has(Stream', line)
    BY <1>1, <2>1, <2>2, <2>3, Queued
  <2> QED BY <1>1, <1>2, <2>4 DEF LinesInv, LinesTyped
<1>3. CASE ~(open /\ e.gen = gen)
  <2>1. UNCHANGED inbox
    BY <1>3 DEF Enter
  <2> QED BY <1>1, <2>1 DEF LinesInv, LinesTyped, Stream
<1> QED BY <1>2, <1>3

LEMMA ReadKeeps == ASSUME LinesInv, Read PROVE LinesInv'
<1>1. /\ got' = Append(got, Head(inbox)) /\ inbox' = Tail(inbox) /\ inbox # <<>>
      /\ open /\ UNCHANGED <<enters, lines, open, gen>>
  BY DEF Read
<1>2. Stream' = Stream /\ got' \in Seq(Item) /\ inbox' \in Seq(Item)
  BY <1>1, ReadMoves DEF LinesInv, LinesTyped, Stream
<1> QED BY <1>1, <1>2 DEF LinesInv, LinesTyped

LEMMA CloseKeeps == ASSUME LinesInv, Close PROVE LinesInv'
<1>1. inbox' = <<>> /\ ~open' /\ UNCHANGED <<enters, got, lines, gen>>
  BY DEF Close
<1>2. Stream' = got /\ inbox' \in Seq(Item)
  BY <1>1 DEF Stream, LinesInv, LinesTyped
<1>3. Ordered(Stream')
  BY <1>2, PrefixOrdered DEF LinesInv, LinesTyped, Stream
<1> QED BY <1>1, <1>2, <1>3 DEF LinesInv, LinesTyped

LEMMA RespawnKeeps == ASSUME LinesInv, Respawn PROVE LinesInv'
<1>1. inbox' = <<>> /\ got' = <<>> /\ gen' = gen + 1 /\ UNCHANGED <<enters, lines>>
  BY DEF Respawn
<1>2. Stream' = <<>> /\ Ordered(<<>>)
  BY <1>1 DEF Stream, Ordered
<1>3. \A e \in enters' : e.gen <= gen' /\ e.gen # gen'
  BY <1>1 DEF LinesInv, LinesTyped
<1> QED BY <1>1, <1>2, <1>3 DEF LinesInv, LinesTyped

LEMMA LinesUnchanged ==
  ASSUME LinesInv, UNCHANGED <<inbox, enters, got, lines, open, gen>>
  PROVE  LinesInv'
BY DEF LinesInv, LinesTyped, Stream, Ordered, Has

\* For every size of queue: an Enter that reaches a process comes after its line, in
\* whatever order lines, Enters, full queues and new panes come (injectLine, Input).
THEOREM NoEnterAlone == Spec => []NoBareEnter
<1>1. Init => LinesInv
  BY DEF Init, LinesInv, LinesTyped, Stream, Ordered, Has
<1>2. LinesInv /\ [Next]_vars => LinesInv'
  <2> SUFFICES ASSUME LinesInv, [Next]_vars PROVE LinesInv'
    OBVIOUS
  <2>1. CASE Inject
    BY <2>1, InjectKeeps
  <2>2. CASE Read
    BY <2>2, ReadKeeps
  <2>3. CASE \E e \in enters : Enter(e)
    BY <2>3, EnterKeeps
  <2>4. CASE Close
    BY <2>4, CloseKeeps
  <2>5. CASE Respawn
    BY <2>5, RespawnKeeps
  <2>6. CASE UNCHANGED <<inbox, enters, got, lines, open, gen>>
    BY <2>6, LinesUnchanged
  <2> QED
    BY <2>1, <2>2, <2>3, <2>4, <2>5, <2>6
    DEF Next, Output, Clear, FlushTranscript, FlushLines, vars, input
<1>3. LinesInv => NoBareEnter
  <2> SUFFICES ASSUME LinesInv PROVE NoBareEnter
    OBVIOUS
  <2>1. Ordered(got) /\ got \in Seq(Item)
    BY PrefixOrdered DEF LinesInv, LinesTyped, Stream
  <2>2. DOMAIN got = 1..Len(got)
    BY <2>1, LenProperties
  <2> QED BY <2>1, <2>2 DEF NoBareEnter, Ordered, AsText
<1> QED BY <1>1, <1>2, <1>3, PTL DEF Spec

-----------------------------------------------------------------------------
(* The transcript *)

\* The lines after line a, up to line b
Between(a, b) == [i \in 1..(b - a) |-> a + i]

LEMMA BetweenIsSeq ==
  ASSUME NEW a \in Nat, NEW b \in Nat, a <= b
  PROVE  /\ Between(a, b) \in Seq(Nat) /\ Len(Between(a, b)) = b - a
         /\ \A i \in 1..(b - a) : Between(a, b)[i] = a + i
         /\ (Between(a, b) = <<>> <=> a = b)
<1>1. Between(a, b) \in [1..(b - a) -> Nat] /\ b - a \in Nat
  BY DEF Between
<1>2. Between(a, b) \in Seq(Nat)
  BY <1>1, SeqDef
<1>3. Len(Between(a, b)) = b - a
  BY <1>1, LenOfCount DEF Between
<1>4. \A i \in 1..(b - a) : Between(a, b)[i] = a + i
  BY DEF Between
<1>5. Between(a, b) = <<>> <=> a = b
  <2> DEFINE s == Between(a, b)
  <2>1. s \in Seq(Nat) /\ Len(s) = b - a
    BY <1>2, <1>3
  <2> HIDE DEF s
  <2>2. s = <<>> <=> Len(s) = 0
    BY <2>1, EmptySeq
  <2> QED BY <2>1, <2>2 DEF s
<1> QED BY <1>2, <1>3, <1>4, <1>5

\* What lies after line x, up to line y, in the run
PartFrom(a, b, x, y) == SubSeq(Between(a, b), x - a + 1, y - a)

\* A part of a run of lines is a run of lines ...
LEMMA PartOfBetween ==
  ASSUME NEW a \in Nat, NEW b \in Nat, NEW x \in Nat, NEW y \in Nat, a <= x, x <= y, y <= b
  PROVE  PartFrom(a, b, x, y) = Between(x, y)
<1> DEFINE i == x - a + 1
           j == y - a
           s == Between(a, b)
           t == SubSeq(s, i, j)
           u == Between(x, y)
<1>1. s \in Seq(Nat) /\ Len(s) = b - a /\ \A k \in 1..(b - a) : s[k] = a + k
  <2>1. a <= b
    OBVIOUS
  <2> QED BY <2>1, BetweenIsSeq
<1>2. u \in Seq(Nat) /\ Len(u) = y - x /\ \A k \in 1..(y - x) : u[k] = x + k
  BY BetweenIsSeq
<1>3. i \in Nat /\ j \in Nat /\ i = x - a + 1 /\ j = y - a
  OBVIOUS
<1> HIDE DEF s, u, i, j
<1>4. t \in Seq(Nat) /\ Len(t) = y - x /\ \A k \in 1..(y - x) : t[k] = s[i + k - 1]
  <2>1. i \in 1..(Len(s) + 1) /\ j \in (i - 1)..Len(s)
    BY <1>1, <1>3
  <2>2. /\ t \in Seq(Nat)
        /\ Len(t) = IF i <= j THEN j - i + 1 ELSE 0
        /\ \A k \in 1..(j - i + 1) : t[k] = s[i + k - 1]
    BY <1>1, <2>1, SubSeqProperties
  <2> HIDE DEF t
  <2> QED BY <1>3, <2>2
<1> HIDE DEF t
<1>5. \A k \in 1..(y - x) : t[k] = u[k]
  BY <1>1, <1>2, <1>3, <1>4
<1>6. t = u
  BY <1>2, <1>4, <1>5, SeqEqual
<1> QED BY <1>6 DEF t, u, s, i, j, PartFrom

\* ... so is its end ...
LEMMA LastOfBetween ==
  ASSUME NEW a \in Nat, NEW b \in Nat, a <= b, NEW n \in Nat
  PROVE  LastOf(Between(a, b), n) = Between(IF b - a > n THEN b - n ELSE a, b)
<1>1. Len(Between(a, b)) = b - a
  BY BetweenIsSeq
<1>2. CASE b - a > n
  <2> DEFINE x == b - n
  <2>1. x \in Nat /\ a <= x /\ x <= b /\ x - a + 1 = b - a - n + 1
    BY <1>2
  <2>2. LastOf(Between(a, b), n) = SubSeq(Between(a, b), b - a - n + 1, b - a)
    BY <1>1, <1>2 DEF LastOf
  <2>3. PartFrom(a, b, x, b) = Between(x, b)
    <3> HIDE DEF x
    <3> QED BY <2>1, PartOfBetween
  <2> QED BY <1>2, <2>1, <2>2, <2>3 DEF PartFrom
<1>3. CASE ~(b - a > n)
  BY <1>1, <1>3 DEF LastOf
<1> QED BY <1>2, <1>3

\* The rows of s, of its last k, between the first and the last with something on it
Rows(s, k, w) ==
  LET t == LastOf(s, Min({k, HistRows}))
      inked == {i \in DOMAIN t : w[t[i]] # Blank}
  IN IF inked = {} THEN <<>> ELSE SubSeq(t, Min(inked), Max(inked))

LEMMA LargestOf ==
  ASSUME NEW n \in Nat, NEW S \in SUBSET (0..n), S # {}
  PROVE  \E k \in S : \A j \in S : j <= k
<1> DEFINE T == {n - j : j \in S}
           R == OpToRel(<, Nat)
<1>1. IsWellFoundedOn(R, Nat)
  BY NatLessThanWellFounded
<1>2. T \subseteq Nat /\ T # {}
  <2>1. \A j \in S : n - j \in Nat
    OBVIOUS
  <2> QED BY <2>1
<1>3. PICK x \in T : \A y \in T : ~(<<y, x>> \in R)
  BY <1>1, <1>2, WFMin
<1>4. \A y \in T : ~(y < x)
  BY <1>2, <1>3 DEF OpToRel
<1>5. PICK k \in S : x = n - k
  BY Zenon
<1>6. ASSUME NEW j \in S PROVE j <= k
  <2>1. n - j \in T /\ j \in Nat /\ k \in Nat
    OBVIOUS
  <2> QED BY <1>4, <1>5, <2>1
<1> QED BY <1>6

LEMMA MaxOf ==
  ASSUME NEW n \in Nat, NEW S \in SUBSET (0..n), S # {}
  PROVE  Max(S) \in S /\ \A j \in S : j <= Max(S)
<1>1. \E k \in S : \A j \in S : k >= j
  BY LargestOf
<1>2. Max(S) \in S /\ \A j \in S : Max(S) >= j
  BY <1>1, Zenon DEF Max
<1> QED BY <1>2

LEMMA MinOf ==
  ASSUME NEW S \in SUBSET Nat, S # {}
  PROVE  Min(S) \in S /\ \A j \in S : Min(S) <= j
<1> DEFINE R == OpToRel(<, Nat)
<1>1. IsWellFoundedOn(R, Nat)
  BY NatLessThanWellFounded
<1>2. PICK x \in S : \A y \in S : ~(<<y, x>> \in R)
  BY <1>1, WFMin
<1>3. \A y \in S : ~(y < x)
  BY <1>2 DEF OpToRel
<1>4. \E k \in S : \A j \in S : k =< j
  BY <1>3
<1>5. Min(S) \in S /\ \A j \in S : Min(S) =< j
  BY <1>4, Zenon DEF Min
<1> QED BY <1>5

\* What is replayed of a run of lines is a run of lines, and those after it are blank.
LEMMA RowsOfBetween ==
  ASSUME NEW a \in Nat, NEW z \in Nat, a <= z, NEW k \in Nat, NEW w
  PROVE  \E x, y \in Nat : /\ x <= y /\ y <= z /\ Rows(Between(a, z), k, w) = Between(x, y)
                           /\ x < y => k > 0 /\ w[y] # Blank /\ \A n \in (y + 1)..z : w[n] = Blank
<1> DEFINE m == Min({k, HistRows})
           b == IF z - a > m THEN z - m ELSE a
           t == Between(b, z)
           inked == {i \in 1..(z - b) : w[b + i] # Blank}
<1>1. m \in Nat /\ m <= k
  BY PaneAssumption, MinOfTwo
<1>2. LastOf(Between(a, z), m) = Between(b, z)
  <2> HIDE DEF m
  <2> QED BY <1>1, LastOfBetween
<1>3. b \in Nat /\ b <= z /\ (k = 0 => b = z)
  <2> HIDE DEF m
  <2> QED BY <1>1
<1> HIDE DEF m, b
<1>4. t \in Seq(Nat) /\ Len(t) = z - b /\ \A i \in 1..(z - b) : t[i] = b + i
  BY <1>3, BetweenIsSeq
<1>5. {i \in DOMAIN t : w[t[i]] # Blank} = inked
  BY <1>3, <1>4
<1>6. Rows(Between(a, z), k, w) = IF inked = {} THEN <<>> ELSE SubSeq(t, Min(inked), Max(inked))
  BY <1>2, <1>5 DEF Rows, m
<1>7. CASE inked = {}
  <2>1. Between(z, z) = <<>> /\ z <= z
    BY BetweenIsSeq
  <2> QED BY <1>6, <1>7, <2>1
<1>8. CASE inked # {}
  <2>1. z - b \in Nat /\ inked \in SUBSET (0..(z - b)) /\ inked \in SUBSET Nat
    BY <1>3
  <2> DEFINE lo == Min(inked)
             hi == Max(inked)
  <2>2. lo \in inked /\ hi \in inked /\ (\A j \in inked : j <= hi) /\ lo <= hi
    BY <1>8, <2>1, MinOf, MaxOf
  <2> HIDE DEF lo, hi
  <2> DEFINE x == b + lo - 1
             y == b + hi
  <2>3. /\ x \in Nat /\ y \in Nat /\ b <= x /\ x <= y /\ y <= z /\ x < y
        /\ lo = x - b + 1 /\ hi = y - b /\ w[y] # Blank
    BY <1>3, <2>2
  <2>4. \A n \in (y + 1)..z : w[n] = Blank
    <3> SUFFICES ASSUME NEW n \in (y + 1)..z, w[n] # Blank PROVE FALSE
      OBVIOUS
    <3> DEFINE j == n - b
    <3>1. j \in 1..(z - b) /\ b + j = n /\ ~(j <= hi)
      BY <1>3, <2>2, <2>3
    <3>2. j \in inked
      BY <3>1
    <3> QED BY <2>2, <3>1, <3>2
  <2> HIDE DEF x, y
  <2>5. PartFrom(b, z, x, y) = Between(x, y)
    BY <1>3, <2>3, PartOfBetween
  <2>6. Rows(Between(a, z), k, w) = Between(x, y)
    BY <1>6, <1>8, <2>3, <2>5 DEF PartFrom, lo, hi
  <2>7. k > 0
    BY <1>3, <2>3
  <2> QED BY <2>3, <2>4, <2>6, <2>7
<1> QED BY <1>7, <1>8

\* The ring holds a run of lines that ends with the last one.
LEMMA SnapshotIsBetween == RingInv => \E a \in Nat : a <= seq /\ Snapshot = Between(a, seq)
<1> SUFFICES ASSUME RingInv PROVE \E a \in Nat : a <= seq /\ Snapshot = Between(a, seq)
  OBVIOUS
<1>1. RingCap \in Nat /\ seq \in Nat /\ RingExact
  BY Sizes, RingIsTail DEF RingInv
<1>2. [n \in 1..seq |-> n] = Between(0, seq)
  BY <1>1 DEF Between
<1>3. Snapshot = Between(IF seq - 0 > RingCap THEN seq - RingCap ELSE 0, seq)
  BY <1>1, <1>2, LastOfBetween DEF RingExact
<1> QED BY <1>1, <1>3

LEMMA HistoryIsRows == HistoryLines = Rows(Snapshot, seq - cleared, text)
BY DEF HistoryLines, Rows

\* What is read of the ring is a run of lines, and those after it are blank.
LEMMA HistoryIsBetween ==
  ASSUME RingInv, cleared \in Nat, cleared <= seq
  PROVE  \E a, b \in Nat : /\ a <= b /\ b <= seq /\ HistoryLines = Between(a, b)
                           /\ a < b => text[b] # Blank /\ \A n \in (b + 1)..seq : text[n] = Blank
<1>1. seq \in Nat /\ seq - cleared \in Nat
  BY DEF RingInv
<1>2. PICK z \in Nat : z <= seq /\ Snapshot = Between(z, seq)
  BY SnapshotIsBetween
<1>3. HistoryLines = Rows(Between(z, seq), seq - cleared, text)
  BY <1>2, HistoryIsRows
<1> QED BY <1>1, <1>2, <1>3, RowsOfBetween

\* Where the end of the anchor is found in a run
LEMMA FoundBetween ==
  ASSUME NEW a \in Nat, NEW b \in Nat, a <= b, NEW c \in Nat, NEW d \in Nat, c < d,
         tsTail = Between(c, d), NEW n \in 1..(d - c)
  PROVE  Found(Between(a, b), n) =
           {i \in 0..(b - a - n) : \A j \in 1..n : text[a + i + j] = text[d - n + j]}
<1> DEFINE s == Between(a, b)
           want == LastOf(tsTail, n)
<1>1. Len(s) = b - a /\ \A i \in 1..(b - a) : s[i] = a + i
  BY BetweenIsSeq
<1>2. \A j \in 1..n : want[j] = d - n + j
  <2>1. LastOf(tsTail, n) = Between(IF d - c > n THEN d - n ELSE c, d)
    BY LastOfBetween
  <2>2. ~(d - c > n) => c = d - n
    OBVIOUS
  <2>3. want = Between(d - n, d)
    BY <2>1, <2>2
  <2>4. d - n \in Nat /\ d - n <= d /\ d - (d - n) = n
    OBVIOUS
  <2> HIDE DEF want
  <2>5. PICK m \in Nat : m = d - n
    BY <2>4
  <2>6. want = Between(m, d) /\ m <= d /\ d - m = n
    BY <2>3, <2>4, <2>5
  <2>7. \A j \in 1..(d - m) : want[j] = m + j
    BY <2>6, BetweenIsSeq
  <2> QED BY <2>5, <2>6, <2>7
<1> HIDE DEF s, want
<1>3. Found(s, n) = {i \in 0..(b - a - n) : \A j \in 1..n : text[s[i + j]] = text[want[j]]}
  BY <1>1 DEF Found, want
<1>4. ASSUME NEW i \in 0..(b - a - n), NEW j \in 1..n PROVE s[i + j] = a + i + j /\ want[j] = d - n + j
  <2>1. i + j \in 1..(b - a) /\ a + (i + j) = a + i + j
    OBVIOUS
  <2> QED BY <1>1, <1>2, <2>1
<1> QED BY <1>3, <1>4 DEF s

\* What is new of a run: with g, after a gap
New(x, b, g) == [fresh |-> Between(x, b), gap |-> g]

\* afterAnchor: a transcript that ended with line d goes on after a line that is not
\* before d and says the same, or, after a gap, with all there is, none of it up to d.
LEMMA AfterAnchorBetween ==
  ASSUME NEW a \in Nat, NEW b \in Nat, a <= b, NEW c \in Nat, NEW d \in Nat, c < d, d <= b,
         tsTail = Between(c, d)
  PROVE  \E x \in Nat : \E g \in BOOLEAN :
           /\ AfterAnchor(Between(a, b)) = New(x, b, g)
           /\ a <= x /\ x <= b /\ d <= x /\ (g => x = a) /\ (~g => text[x] = text[d])
<1> DEFINE s == Between(a, b)
           ns == {n \in 1..Len(tsTail) : Found(s, n) # {}}
           At(n) == {i \in 0..(b - a - n) : \A j \in 1..n : text[a + i + j] = text[d - n + j]}
<1>1. Len(tsTail) = d - c /\ tsTail # <<>> /\ Len(s) = b - a
  <2>1. c <= d /\ c # d
    OBVIOUS
  <2>3. Len(Between(c, d)) = d - c /\ Between(c, d) # <<>>
    BY <2>1, BetweenIsSeq
  <2>2. Len(s) = b - a
    BY BetweenIsSeq
  <2> QED BY <2>2, <2>3
<1>2. \A n \in 1..(d - c) : Found(s, n) = At(n)
  BY FoundBetween
<1>3. ns = {n \in 1..(d - c) : At(n) # {}}
  BY <1>1, <1>2
\* Where the anchor's last line is still there, its end matches in its own place.
<1>4. ASSUME NEW n \in 1..(d - c), n <= d - a PROVE d - n - a \in At(n)
  <2> DEFINE i == d - n - a
  <2>1. i \in 0..(b - a - n) /\ \A j \in 1..n : a + i + j = d - n + j
    BY <1>4
  <2> QED BY <2>1
<1> HIDE DEF At
<1>5. CASE ns = {}
  <2>1. AfterAnchor(s) = [fresh |-> s, gap |-> TRUE]
    BY <1>1, <1>5 DEF AfterAnchor
  <2>2. d <= a
    <3> SUFFICES ASSUME a < d PROVE FALSE
      OBVIOUS
    <3>1. 1 \in 1..(d - c) /\ 1 <= d - a
      OBVIOUS
    <3> QED BY <1>3, <1>4, <1>5, <3>1
  <2>3. a <= a /\ AfterAnchor(s) = New(a, b, TRUE)
    BY <2>1 DEF New
  <2> QED BY <2>2, <2>3
<1>6. CASE ns # {}
  <2> DEFINE n == Max(ns)
             i == Max(At(n))
             x == a + i + n
  <2>1. n \in ns /\ \A k \in ns : k <= n
    <3>1. d - c \in Nat /\ ns \in SUBSET (0..(d - c))
      BY <1>3
    <3> HIDE DEF ns
    <3> QED BY <1>6, <3>1, MaxOf
  <2>2. n \in 1..(d - c) /\ At(n) # {}
    BY <1>3, <2>1
  <2> HIDE DEF n
  <2>3. i \in At(n) /\ \A k \in At(n) : k <= i
    <3>1. b - a \in Nat /\ At(n) \in SUBSET (0..(b - a))
      BY <2>2 DEF At
    <3> DEFINE T == At(n)
    <3> HIDE DEF T
    <3>2. Max(T) \in T /\ \A k \in T : k <= Max(T)
      BY <2>2, <3>1, MaxOf DEF T
    <3> QED BY <3>2 DEF T
  <2>4. AfterAnchor(s) = [fresh |-> SubSeq(s, i + n + 1, b - a), gap |-> FALSE]
    BY <1>1, <1>2, <1>6, <2>2 DEF AfterAnchor, n
  <2> HIDE DEF i
  <2>5. i \in 0..(b - a - n) /\ \A j \in 1..n : text[a + i + j] = text[d - n + j]
    BY <2>3 DEF At
  <2>6. x \in Nat /\ a <= x /\ x <= b /\ x - a + 1 = i + n + 1 /\ x = a + i + n
    BY <2>2, <2>5
  <2>7. text[x] = text[d]
    <3>1. n \in 1..n /\ a + i + n = x /\ d - n + n = d
      BY <2>2
    <3>2. text[a + i + n] = text[d - n + n]
      BY <2>5, <3>1
    <3> QED BY <3>1, <3>2
  <2>8. d <= x
    <3>1. CASE n <= d - a
      <4>1. d - n - a <= i
        BY <1>4, <2>2, <2>3, <3>1
      <4> QED BY <2>2, <2>6, <4>1, <2>5
    <3>2. CASE ~(n <= d - a)
      BY <2>2, <2>5, <2>6, <3>2
    <3> QED BY <3>1, <3>2
  <2> HIDE DEF x
  <2>9. PartFrom(a, b, x, b) = Between(x, b)
    <3>1. b <= b
      OBVIOUS
    <3> QED BY <2>6, <3>1, PartOfBetween
  <2>10. AfterAnchor(s) = New(x, b, FALSE)
    BY <2>4, <2>6, <2>9 DEF New, PartFrom
  <2> QED BY <2>6, <2>7, <2>8, <2>10
<1> QED BY <1>5, <1>6

\* The first half of TranscriptGoesOn, of any transcript of lines that say w
GoesOn(q, w) ==
  \A i \in 1..(Len(q) - 1) :
    q[i] # Gap => IF q[i + 1] # Gap THEN q[i + 1] > q[i] /\ w[q[i + 1] - 1] = w[q[i]]
                  ELSE i + 2 <= Len(q) /\ q[i + 2] > q[i]

\* What the lines after a, up to b, make of q, with a gap marker or without
Longer(q, g, a, b) == q \o (IF g THEN <<Gap>> ELSE <<>>) \o Between(a, b)

\* q has no line after line b
UpTo(q, b) == \A i \in 1..Len(q) : q[i] <= b

\* q ends with line d, the last of its lines
EndsWith(q, d) == q # <<>> /\ q[Len(q)] = d /\ UpTo(q, d)

LEMMA RunGoesOn ==
  ASSUME NEW a \in Nat, NEW b \in Nat, a < b, NEW w
  PROVE  GoesOn(Between(a, b), w) /\ EndsWith(Between(a, b), b)
<1> DEFINE s == Between(a, b)
<1>1. /\ s \in Seq(Nat) /\ Len(s) = b - a /\ \A k \in 1..(b - a) : s[k] = a + k
      /\ (s = <<>> <=> a = b)
  <2>1. a <= b
    OBVIOUS
  <2> QED BY <2>1, BetweenIsSeq
<1> HIDE DEF s
<1>2. \A i \in 1..(Len(s) - 1) : s[i] = a + i /\ s[i + 1] = a + i + 1
  BY <1>1
<1>3. GoesOn(s, w)
  <2> SUFFICES ASSUME NEW i \in 1..(Len(s) - 1), s[i] # Gap
               PROVE  s[i + 1] # Gap /\ s[i + 1] > s[i] /\ s[i + 1] - 1 = s[i]
    BY DEF GoesOn
  <2> QED BY <1>2 DEF Gap
<1>4. EndsWith(s, b)
  BY <1>1 DEF EndsWith, UpTo
<1> QED BY <1>3, <1>4 DEF s

\* A transcript that ended with line d goes on with a run of lines: those after a line
\* that says the same, or, after a gap marker, later ones.
LEMMA LongerGoesOn ==
  ASSUME NEW w, NEW q \in Seq(Nat), GoesOn(q, w), NEW d \in Nat, EndsWith(q, d),
         NEW g \in BOOLEAN, NEW a \in Nat, NEW b \in Nat, a < b, d <= a, ~g => w[a] = w[d]
  PROVE  /\ Longer(q, g, a, b) \in Seq(Nat) /\ GoesOn(Longer(q, g, a, b), w)
         /\ EndsWith(Longer(q, g, a, b), b)
<1> DEFINE s == Between(a, b)
           m == IF g THEN <<Gap>> ELSE <<>>
           k == IF g THEN 1 ELSE 0
           r == q \o m \o s
<1>1. /\ s \in Seq(Nat) /\ Len(s) = b - a /\ \A n \in 1..(b - a) : s[n] = a + n
  <2>1. a <= b
    OBVIOUS
  <2> QED BY <2>1, BetweenIsSeq
<1>2. m \in Seq(Nat) /\ Len(m) = k /\ \A i \in 1..k : m[i] = Gap
  BY DEF Gap
<1>3. q \in Seq(Nat) /\ Len(q) \in Nat /\ Len(q) > 0 /\ q[Len(q)] = d /\ DOMAIN q = 1..Len(q)
  BY DEF EndsWith
<1>k. k \in Nat /\ (g => k = 1) /\ (~g => k = 0)
  OBVIOUS
<1> HIDE DEF s, m, k
<1>4. /\ r \in Seq(Nat) /\ Len(r) = Len(q) + k + (b - a)
      /\ \A i \in 1..Len(q) : r[i] = q[i]
      /\ \A i \in 1..k : r[Len(q) + i] = Gap
      /\ \A i \in 1..(b - a) : r[Len(q) + k + i] = a + i
  <2> DEFINE h == q \o m
  <2>1. h \in Seq(Nat) /\ Len(h) = Len(q) + k /\ (\A i \in 1..Len(q) : h[i] = q[i])
        /\ \A i \in 1..k : h[Len(q) + i] = Gap
    BY <1>2, <1>3, <1>k
  <2> HIDE DEF h
  <2> DEFINE z == h \o s
  <2>2. r = z
    BY DEF h
  <2>3. z \in Seq(Nat) /\ Len(z) = Len(h) + Len(s)
        /\ \A i \in 1..(Len(h) + Len(s)) : z[i] = IF i <= Len(h) THEN h[i] ELSE s[i - Len(h)]
    BY <1>1, <2>1, ConcatProperties
  <2> HIDE DEF z
  <2>4. ASSUME NEW i \in 1..(Len(q) + k) PROVE z[i] = h[i]
    <3>1. i \in 1..(Len(h) + Len(s)) /\ i <= Len(h)
      BY <1>1, <1>3, <1>k, <2>1
    <3> QED BY <2>3, <3>1
  <2>5. ASSUME NEW i \in 1..(b - a) PROVE z[Len(q) + k + i] = a + i
    <3> DEFINE j == Len(q) + k + i
    <3>1. j \in 1..(Len(h) + Len(s)) /\ ~(j <= Len(h)) /\ j - Len(h) = i
      BY <1>1, <1>3, <1>k, <2>1
    <3> HIDE DEF j
    <3>2. z[j] = s[i]
      BY <2>3, <3>1
    <3> QED BY <1>1, <3>2 DEF j
  <2>6. \A i \in 1..Len(q) : z[i] = q[i]
    BY <1>3, <1>k, <2>1, <2>4
  <2>7. ASSUME NEW i \in 1..k PROVE z[Len(q) + i] = Gap
    <3>1. Len(q) + i \in 1..(Len(q) + k)
      BY <1>3, <1>k
    <3>2. z[Len(q) + i] = h[Len(q) + i]
      BY <2>4, <3>1
    <3> QED BY <2>1, <3>2
  <2>8. Len(z) = Len(q) + k + (b - a)
    BY <1>1, <1>3, <1>k, <2>1, <2>3
  <2> QED BY <2>2, <2>3, <2>5, <2>6, <2>7, <2>8
<1> HIDE DEF r
<1>5. DOMAIN r = 1..(Len(q) + k + (b - a))
  BY <1>4
<1>6. GoesOn(r, w)
  <2> SUFFICES ASSUME NEW i \in 1..(Len(r) - 1), r[i] # Gap
               PROVE  IF r[i + 1] # Gap THEN r[i + 1] > r[i] /\ w[r[i + 1] - 1] = w[r[i]]
                      ELSE i + 2 <= Len(r) /\ r[i + 2] > r[i]
    BY DEF GoesOn
  <2>1. CASE i < Len(q)
    <3>1. i \in 1..(Len(q) - 1) /\ r[i] = q[i] /\ r[i + 1] = q[i + 1]
      BY <1>3, <1>4, <2>1
    <3>2. IF q[i + 1] # Gap THEN q[i + 1] > q[i] /\ w[q[i + 1] - 1] = w[q[i]]
          ELSE i + 2 <= Len(q) /\ q[i + 2] > q[i]
      BY <3>1 DEF GoesOn
    <3>3. i + 2 <= Len(q) => r[i + 2] = q[i + 2] /\ i + 2 <= Len(r)
      BY <1>3, <1>4, <1>k, <2>1
    <3> QED BY <3>1, <3>2, <3>3
  <2>2. CASE i = Len(q)
    <3>1. r[i] = d
      BY <1>3, <1>4, <2>2
    <3>2. CASE g
      <4>1. r[i + 1] = Gap /\ r[Len(q) + k + 1] = a + 1 /\ i + 2 = Len(q) + k + 1 /\ i + 2 <= Len(r)
        BY <1>3, <1>4, <1>k, <2>2, <3>2
      <4> QED BY <3>1, <4>1
    <3>3. CASE ~g
      <4>1. r[Len(q) + k + 1] = a + 1 /\ i + 1 = Len(q) + k + 1 /\ w[a] = w[d]
        BY <1>3, <1>4, <1>k, <2>2, <3>3
      <4>2. r[i + 1] = a + 1 /\ (a + 1) - 1 = a
        BY <4>1
      <4> QED BY <3>1, <4>1, <4>2 DEF Gap
    <3> QED BY <3>2, <3>3
  <2>3. CASE i > Len(q)
    <3>1. i # Len(q) + 1 \/ k = 0
      BY <1>4, <1>k
    <3> DEFINE x == i - Len(q) - k
    <3>2. x \in 1..(b - a) /\ x + 1 \in 1..(b - a) /\ i = Len(q) + k + x /\ i + 1 = Len(q) + k + (x + 1)
      BY <1>3, <1>4, <1>k, <2>3, <3>1
    <3> HIDE DEF x
    <3>3. r[i] = a + x /\ r[i + 1] = a + (x + 1)
      BY <1>4, <3>2
    <3>4. r[i + 1] - 1 = r[i] /\ r[i + 1] # Gap /\ r[i + 1] > r[i]
      BY <3>2, <3>3 DEF Gap
    <3> QED BY <3>4
  <2>4. i \in Int /\ Len(q) \in Int
    BY <1>3, <1>4
  <2> QED BY <2>1, <2>2, <2>3, <2>4
<1>7. UpTo(r, b)
  <2> SUFFICES ASSUME NEW i \in 1..Len(r) PROVE r[i] <= b
    BY DEF UpTo
  <2>1. CASE i <= Len(q)
    <3>1. q[i] <= d /\ q[i] \in Nat /\ r[i] = q[i]
      BY <1>3, <1>4, <2>1 DEF UpTo, EndsWith
    <3> QED BY <3>1
  <2>2. CASE i > Len(q) /\ i <= Len(q) + k
    <3>1. i - Len(q) \in 1..k /\ Len(q) + (i - Len(q)) = i
      BY <1>3, <1>k, <2>2
    <3>2. r[i] = Gap
      BY <1>4, <3>1
    <3> QED BY <3>2 DEF Gap
  <2>3. CASE i > Len(q) + k
    <3> DEFINE x == i - Len(q) - k
    <3>1. x \in 1..(b - a) /\ i = Len(q) + k + x
      BY <1>3, <1>4, <1>k, <2>3
    <3> HIDE DEF x
    <3>2. r[i] = a + x
      BY <1>4, <3>1
    <3> QED BY <3>1, <3>2
  <2> QED BY <1>3, <1>k, <2>1, <2>2, <2>3
<1>8. EndsWith(r, b)
  <2>1. b - a \in 1..(b - a) /\ Len(r) = Len(q) + k + (b - a) /\ Len(r) > 0
    BY <1>3, <1>4, <1>k
  <2>2. r[Len(r)] = a + (b - a)
    BY <1>4, <2>1
  <2> QED BY <1>4, <1>7, <2>1, <2>2 DEF EndsWith
<1> QED BY <1>4, <1>6, <1>8 DEF r, m, s, Longer

\* The transcript is in order, and its anchor is the run it ends with, up to line b at most
LogTyped == log \in Seq(Nat) /\ UpTo(log, seq) /\ GoesOn(log, text) /\ (log = <<>> <=> tsTail = <<>>)
TailUpTo(b) ==
  log # <<>> => \E c, d \in Nat : c < d /\ d <= b /\ tsTail = Between(c, d) /\ EndsWith(log, d)

\* The transcript ends with what line b says
Says(b) == \E e \in Nat : EndsWith(log, e) /\ text[e] = text[b]

\* To transcribe a run keeps the transcript in order, and it then ends with what the
\* last line of the run says.
LEMMA Transcribed ==
  ASSUME LogTyped, NEW a \in Nat, NEW b \in Nat, a <= b, b <= seq, seq \in Nat, TailUpTo(b),
         Transcribe(Between(a, b)), UNCHANGED <<seq, text>>
  PROVE  LogTyped' /\ TailUpTo(b)' /\ (a < b => Says(b)')
<1> DEFINE s == Between(a, b)
           new == LastOf(s, AnchorLen)
<1>1. \E c \in Nat : (a < b => c < b) /\ new = Between(c, b)
  <2> DEFINE c == IF b - a > AnchorLen THEN b - AnchorLen ELSE a
  <2>1. AnchorLen \in Nat /\ AnchorLen > 0
    BY PaneAssumption
  <2>2. new = Between(c, b)
    BY <2>1, LastOfBetween
  <2>3. c \in Nat /\ (a < b => c < b)
    BY <2>1
  <2> HIDE DEF c, new
  <2> QED BY <2>2, <2>3
<1>2. ASSUME NEW x \in Nat, NEW y \in Nat, x <= y PROVE Between(x, y) = <<>> <=> x = y
  BY <1>2, BetweenIsSeq
<1>u. ASSUME NEW q \in Seq(Nat), UpTo(q, b) PROVE UpTo(q, seq)
  <2> SUFFICES ASSUME NEW i \in 1..Len(q) PROVE q[i] <= seq
    BY DEF UpTo
  <2>1. q[i] <= b /\ q[i] \in Nat
    BY <1>u DEF UpTo
  <2> QED BY <2>1
<1> HIDE DEF s, new
<1>3. CASE log = <<>>
  <2>1. tsTail = <<>> /\ AfterAnchor(s) = [fresh |-> s, gap |-> FALSE]
    BY <1>3 DEF LogTyped, AfterAnchor
  <2>2. CASE a = b
    <3>1. s = <<>>
      BY <1>2, <2>2 DEF s
    <3>2. UNCHANGED <<tsTail, log>>
      BY <2>1, <3>1 DEF Transcribe, s
    <3> QED BY <1>3, <2>2, <3>2 DEF LogTyped, TailUpTo
  <2>3. CASE a < b
    <3>1. s # <<>>
      BY <1>2, <2>3 DEF s
    <3>2. log' = log \o <<>> \o s /\ tsTail' = new
      BY <2>1, <3>1 DEF Transcribe, s, new
    <3>3. s \in Seq(Nat)
      BY BetweenIsSeq DEF s
    <3>4. log' = s
      BY <1>3, <3>2, <3>3
    <3>5. PICK c \in Nat : c < b /\ new = Between(c, b)
      BY <1>1, <2>3
    <3>6. tsTail' # <<>>
      BY <1>2, <3>2, <3>5
    <3>7. GoesOn(s, text) /\ EndsWith(s, b)
      BY <2>3, RunGoesOn DEF s
    <3>8. LogTyped'
      BY <1>u, <3>1, <3>3, <3>4, <3>6, <3>7 DEF LogTyped, EndsWith
    <3>9. EndsWith(log', b)
      BY <3>4, <3>7
    <3>10. TailUpTo(b)'
      <4>1. c < b /\ b <= b /\ tsTail' = Between(c, b) /\ EndsWith(log', b)
        BY <3>2, <3>5, <3>9
      <4> QED BY <4>1 DEF TailUpTo
    <3> QED BY <3>8, <3>9, <3>10 DEF Says
  <2> QED BY <2>2, <2>3
<1>4. CASE log # <<>>
  <2>1. PICK c \in Nat, d \in Nat : c < d /\ d <= b /\ tsTail = Between(c, d) /\ EndsWith(log, d)
    BY <1>4 DEF TailUpTo
  <2>2. PICK from \in Nat, g \in BOOLEAN :
          /\ AfterAnchor(Between(a, b)) = New(from, b, g)
          /\ a <= from /\ from <= b /\ d <= from /\ (g => from = a) /\ (~g => text[from] = text[d])
    BY <2>1, AfterAnchorBetween
  <2> DEFINE fresh == Between(from, b)
  <2>3. AfterAnchor(s).fresh = fresh /\ AfterAnchor(s).gap = g
    BY <2>2 DEF New, s
  <2>4. log \in Seq(Nat)
    BY DEF LogTyped
  <2>5. CASE from = b
    <3>1. fresh = <<>>
      BY <1>2, <2>2, <2>5
    <3>2. UNCHANGED <<tsTail, log>>
      BY <2>3, <3>1 DEF Transcribe, s
    <3>3. LogTyped' /\ TailUpTo(b)'
      BY <3>2 DEF LogTyped, TailUpTo
    <3>4. ASSUME a < b PROVE Says(b)'
      <4>1. ~g
        BY <2>2, <2>5, <3>4
      <4>2. text[b] = text[d]
        BY <2>2, <2>5, <4>1
      <4> QED BY <2>1, <3>2, <4>2 DEF Says
    <3> QED BY <3>3, <3>4
  <2>6. CASE from < b
    <3>1. fresh # <<>>
      BY <1>2, <2>2, <2>6
    <3> DEFINE r == Longer(log, g, from, b)
    <3>2. log' = r /\ tsTail' = new
      BY <2>3, <3>1 DEF Transcribe, s, new, Longer
    <3>3. r \in Seq(Nat) /\ GoesOn(r, text) /\ EndsWith(r, b)
      <4>1. GoesOn(log, text)
        BY DEF LogTyped
      <4> QED BY <2>1, <2>2, <2>4, <2>6, <4>1, LongerGoesOn
    <3> HIDE DEF r
    <3>4. PICK x \in Nat : x < b /\ new = Between(x, b)
      BY <1>1, <2>2, <2>6
    <3>5. tsTail' # <<>> /\ log' # <<>>
      BY <1>2, <3>2, <3>3, <3>4 DEF EndsWith
    <3>6. LogTyped'
      BY <1>u, <3>2, <3>3, <3>5 DEF LogTyped, EndsWith
    <3>7. TailUpTo(b)'
      <4>1. b <= b
        OBVIOUS
      <4> QED BY <3>2, <3>3, <3>4, <4>1 DEF TailUpTo
    <3>8. Says(b)'
      BY <3>2, <3>3 DEF Says
    <3> QED BY <3>6, <3>7, <3>8
  <2>7. from \in Int /\ b \in Int
    OBVIOUS
  <2> QED BY <2>2, <2>5, <2>6, <2>7
<1> QED BY <1>3, <1>4

\* What lines there are, how far the transcript may have come, and how it must end
CountsTyped ==
  /\ seq \in Nat /\ cleared \in Nat /\ cleared <= seq /\ tsSeq \in Nat /\ tsSeq <= seq
  /\ text \in Seq(Texts) /\ Len(text) = seq
  /\ flushing \in BOOLEAN /\ open \in BOOLEAN /\ (flushing => open)

Held == IF open THEN Screen ELSE 0

\* Some line with something on it is as far beyond the transcript as the screen is high.
TailHeld(k) ==
  log # <<>> => \E c, d, h \in Nat : /\ c < d /\ tsTail = Between(c, d) /\ EndsWith(log, d)
                                     /\ d + k <= h /\ h <= seq /\ text[h] # Blank

UpToDate ==
  ~flushing /\ tsSeq = seq =>
    LET n == Len(HistoryLines) - Held IN n > 0 => Says(HistoryLines[n])

TranscriptInv == RingInv /\ CountsTyped /\ LogTyped /\ UpToDate /\ TailHeld(Held)

LEMMA ScreenSize == Screen \in Nat /\ Screen > 0
BY PaneAssumption

\* What is replayed, and how it bounds the transcript
Replays(a, b, k) ==
  /\ a <= b /\ b <= seq /\ HistoryLines = Between(a, b)
  /\ a < b => text[b] # Blank /\ TailUpTo(b - k)

LEMMA HistoryBounds ==
  ASSUME RingInv, CountsTyped, NEW k \in Nat, TailHeld(k)
  PROVE  \E a, b \in Nat : Replays(a, b, k)
<1>1. PICK a \in Nat, b \in Nat :
        /\ a <= b /\ b <= seq /\ HistoryLines = Between(a, b)
        /\ a < b => text[b] # Blank /\ \A n \in (b + 1)..seq : text[n] = Blank
  BY HistoryIsBetween DEF CountsTyped
<1>2. ASSUME a < b PROVE TailUpTo(b - k)
  <2> SUFFICES ASSUME log # <<>>
               PROVE  \E c, d \in Nat : c < d /\ d <= b - k /\ tsTail = Between(c, d) /\ EndsWith(log, d)
    BY DEF TailUpTo
  <2>1. PICK c \in Nat, d \in Nat, h \in Nat :
          /\ c < d /\ tsTail = Between(c, d) /\ EndsWith(log, d)
          /\ d + k <= h /\ h <= seq /\ text[h] # Blank
    BY DEF TailHeld
  <2>2. h <= b
    <3> SUFFICES ASSUME ~(h <= b) PROVE FALSE
      OBVIOUS
    <3>1. h \in (b + 1)..seq
      BY <2>1 DEF CountsTyped
    <3> QED BY <1>1, <1>2, <2>1, <3>1
  <2>3. d <= b - k
    BY <2>1, <2>2
  <2> QED BY <2>1, <2>3
<1> QED BY <1>1, <1>2 DEF Replays

\* Transcribed up to line b, with something on it k lines further on
LEMMA TailHolds ==
  ASSUME NEW b \in Nat, NEW k \in Nat, b + k <= seq, text[b + k] # Blank, TailUpTo(b), seq \in Nat
  PROVE  TailHeld(k)
<1> SUFFICES ASSUME log # <<>>
             PROVE  \E c, d, h \in Nat : /\ c < d /\ tsTail = Between(c, d) /\ EndsWith(log, d)
                                         /\ d + k <= h /\ h <= seq /\ text[h] # Blank
  BY DEF TailHeld
<1>1. PICK c \in Nat, d \in Nat : c < d /\ d <= b /\ tsTail = Between(c, d) /\ EndsWith(log, d)
  BY DEF TailUpTo
<1>2. b + k \in Nat /\ d + k <= b + k
  BY <1>1
<1> QED BY <1>1, <1>2

LEMMA TailSooner ==
  ASSUME NEW k \in Nat, TailHeld(k)
  PROVE  TailHeld(0)
<1> SUFFICES ASSUME log # <<>>
             PROVE  \E c, d, h \in Nat : /\ c < d /\ tsTail = Between(c, d) /\ EndsWith(log, d)
                                         /\ d + 0 <= h /\ h <= seq /\ text[h] # Blank
  BY DEF TailHeld
<1>1. PICK c \in Nat, d \in Nat, h \in Nat :
        /\ c < d /\ tsTail = Between(c, d) /\ EndsWith(log, d)
        /\ d + k <= h /\ h <= seq /\ text[h] # Blank
  BY DEF TailHeld
<1>2. d + 0 <= h
  BY <1>1
<1> QED BY <1>1, <1>2

\* What the transcript gets of a pane that holds k lines back
LEMMA Written ==
  ASSUME RingInv, CountsTyped, LogTyped, NEW k \in Nat, TailHeld(k), UNCHANGED <<seq, text, ring, cleared>>,
         IF Len(HistoryLines) <= k THEN UNCHANGED <<tsTail, log>>
         ELSE Transcribe(SubSeq(HistoryLines, 1, Len(HistoryLines) - k))
  PROVE  /\ LogTyped' /\ TailHeld(k)' /\ HistoryLines' = HistoryLines
         /\ Len(HistoryLines) - k > 0 => Says(HistoryLines[Len(HistoryLines) - k])'
<1> DEFINE n == Len(HistoryLines)
<1>1. PICK a \in Nat, b \in Nat : Replays(a, b, k)
  BY HistoryBounds
<1>2. /\ a <= b /\ b <= seq /\ HistoryLines = Between(a, b)
      /\ a < b => text[b] # Blank /\ TailUpTo(b - k)
  BY <1>1 DEF Replays
<1>3. HistoryLines' = HistoryLines
  BY DEF HistoryLines, Snapshot, ring
<1>4. n = b - a /\ seq \in Nat /\ \A i \in 1..(b - a) : HistoryLines[i] = a + i
  BY <1>2, BetweenIsSeq DEF CountsTyped
<1>5. CASE n <= k
  <2>1. UNCHANGED <<tsTail, log>>
    BY <1>5
  <2>2. LogTyped' /\ TailHeld(k)'
    BY <2>1 DEF LogTyped, TailHeld
  <2>3. ~(n - k > 0)
    BY <1>4, <1>5
  <2> QED BY <1>3, <2>2, <2>3
<1>6. CASE n > k
  <2> DEFINE e == b - k
  <2>1. e \in Nat /\ a < e /\ a <= e /\ e <= b /\ e <= seq /\ e + k = b /\ e - a = n - k /\ a < b
    BY <1>2, <1>4, <1>6
  <2>2. TailUpTo(e)
    BY <1>2, <2>1
  <2> HIDE DEF e
  <2>3. PartFrom(a, b, a, e) = Between(a, e)
    <3>1. a <= a
      OBVIOUS
    <3> QED BY <2>1, <3>1, PartOfBetween
  <2>4. SubSeq(HistoryLines, 1, n - k) = Between(a, e)
    <3>1. a - a + 1 = 1
      OBVIOUS
    <3> QED BY <1>2, <2>1, <2>3, <3>1 DEF PartFrom
  <2>5. Transcribe(Between(a, e))
    <3>1. ~(n <= k)
      BY <1>4, <1>6
    <3> QED BY <2>4, <3>1
  <2>6. LogTyped' /\ TailUpTo(e)' /\ Says(e)'
    BY <1>4, <2>1, <2>2, <2>5, Transcribed
  <2>7. TailHeld(k)'
    <3>1. b + 0 = b /\ text'[e + k] # Blank /\ e + k <= seq'
      BY <1>2, <2>1
    <3> SUFFICES ASSUME log' # <<>>
                 PROVE  \E c, d, h \in Nat : /\ c < d /\ tsTail' = Between(c, d) /\ EndsWith(log', d)
                                             /\ d + k <= h /\ h <= seq' /\ text'[h] # Blank
      BY DEF TailHeld
    <3>2. PICK c \in Nat, d \in Nat : c < d /\ d <= e /\ tsTail' = Between(c, d) /\ EndsWith(log', d)
      BY <2>6 DEF TailUpTo
    <3>3. d + k <= b
      BY <2>1, <3>2
    <3> QED BY <1>2, <2>1, <3>2, <3>3
  <2>8. HistoryLines[n - k] = e
    <3>1. n - k \in 1..(b - a) /\ a + (n - k) = e
      BY <1>4, <2>1
    <3> QED BY <1>4, <3>1
  <2>9. Says(HistoryLines[n - k])'
    <3>1. HistoryLines'[Len(HistoryLines') - k] = e
      BY <1>3, <2>8
    <3>2. \E x \in Nat : EndsWith(log', x) /\ text'[x] = text'[e]
      BY <2>6 DEF Says
    <3> QED BY <3>1, <3>2 DEF Says
  <2> QED BY <1>3, <2>6, <2>7, <2>9
<1> QED BY <1>4, <1>5, <1>6

LEMMA FlushKeeps ==
  ASSUME TranscriptInv, FlushLines
  PROVE  LogTyped' /\ TailHeld(Held)' /\ UpToDate'
<1>1. open /\ open' /\ Held = Screen /\ Held' = Screen /\ UNCHANGED <<seq, text, ring, cleared>>
  BY DEF TranscriptInv, CountsTyped, FlushLines, output, Held
<1>2. IF Len(HistoryLines) <= Screen THEN UNCHANGED <<tsTail, log>>
      ELSE Transcribe(SubSeq(HistoryLines, 1, Len(HistoryLines) - Screen))
  BY DEF FlushLines
<1>3. RingInv /\ CountsTyped /\ LogTyped /\ TailHeld(Screen)
  BY <1>1 DEF TranscriptInv
<1>4. /\ LogTyped' /\ TailHeld(Screen)' /\ HistoryLines' = HistoryLines
      /\ Len(HistoryLines) - Screen > 0 => Says(HistoryLines[Len(HistoryLines) - Screen])'
  BY <1>1, <1>2, <1>3, ScreenSize, Written
<1>5. TailHeld(Held)'
  BY <1>1, <1>4 DEF TailHeld
<1>6. UpToDate'
  BY <1>1, <1>4 DEF UpToDate, Says
<1> QED BY <1>4, <1>5, <1>6

LEMMA CloseWrites ==
  ASSUME TranscriptInv, Close
  PROVE  LogTyped' /\ TailHeld(Held)' /\ UpToDate'
<1>1. open /\ ~open' /\ Held = Screen /\ Held' = 0 /\ UNCHANGED <<seq, text, ring, cleared>>
  BY DEF TranscriptInv, CountsTyped, Close, output, Held
<1>2. RingInv /\ CountsTyped /\ LogTyped /\ TailHeld(0)
  <2>1. TailHeld(Screen)
    BY <1>1 DEF TranscriptInv
  <2> QED BY <2>1, ScreenSize, TailSooner DEF TranscriptInv
<1>3. IF Len(HistoryLines) <= 0 THEN UNCHANGED <<tsTail, log>>
      ELSE Transcribe(SubSeq(HistoryLines, 1, Len(HistoryLines) - 0))
  <2>1. PICK a \in Nat, b \in Nat : Replays(a, b, 0)
    BY <1>2, HistoryBounds
  <2>2. a <= b /\ HistoryLines = Between(a, b)
    BY <2>1 DEF Replays
  <2>3. HistoryLines \in Seq(Nat) /\ Len(HistoryLines) = b - a /\ (HistoryLines = <<>> <=> a = b)
    BY <2>2, BetweenIsSeq
  <2>4. SubSeq(HistoryLines, 1, Len(HistoryLines) - 0) = HistoryLines
    <3>1. PartFrom(a, b, a, b) = Between(a, b)
      <4>1. a <= a /\ b <= b
        OBVIOUS
      <4> QED BY <2>2, <4>1, PartOfBetween
    <3>2. a - a + 1 = 1 /\ Len(HistoryLines) - 0 = b - a
      BY <2>3
    <3> QED BY <2>2, <3>1, <3>2 DEF PartFrom
  <2>5. Transcribe(HistoryLines)
    BY DEF Close
  <2>6. CASE a = b
    <3>1. HistoryLines = <<>> /\ Len(HistoryLines) <= 0
      BY <2>3, <2>6
    <3>2. AfterAnchor(<<>>).fresh = <<>>
      <4>1. \A n \in 1..Len(tsTail) : Found(<<>>, n) = {}
        <5> SUFFICES ASSUME NEW n \in 1..Len(tsTail) PROVE Found(<<>>, n) = {}
          OBVIOUS
        <5>1. n \in Int /\ n > 0
          OBVIOUS
        <5>2. 0..(Len(<<>>) - n) = {}
          BY <5>1
        <5> QED BY <5>2 DEF Found
      <4>2. AfterAnchor(<<>>) = [fresh |-> <<>>, gap |-> tsTail # <<>>]
        BY <4>1 DEF AfterAnchor
      <4> QED BY <4>2
    <3>3. UNCHANGED <<tsTail, log>>
      BY <2>5, <3>1, <3>2 DEF Transcribe
    <3> QED BY <3>1, <3>3
  <2>7. CASE a # b
    <3>1. ~(Len(HistoryLines) <= 0)
      BY <2>2, <2>3, <2>7
    <3> QED BY <2>4, <2>5, <3>1
  <2> QED BY <2>6, <2>7
<1>4. 0 \in Nat
  OBVIOUS
<1>5. /\ LogTyped' /\ TailHeld(0)' /\ HistoryLines' = HistoryLines
      /\ Len(HistoryLines) - 0 > 0 => Says(HistoryLines[Len(HistoryLines) - 0])'
  BY <1>1, <1>2, <1>3, <1>4, Written
<1>6. TailHeld(Held)'
  BY <1>1, <1>5 DEF TailHeld
<1>7. UpToDate'
  BY <1>1, <1>5 DEF UpToDate, Says
<1> QED BY <1>5, <1>6, <1>7

\* Without lines, or with all of them cleared, there is nothing to write.
LEMMA NoRows ==
  ASSUME RingInv, CountsTyped, NEW k \in Nat
  PROVE  cleared = seq => Len(HistoryLines) = 0
<1> SUFFICES ASSUME cleared = seq PROVE Len(HistoryLines) = 0
  OBVIOUS
<1>1. PICK z \in Nat : z <= seq /\ Snapshot = Between(z, seq)
  BY SnapshotIsBetween
<1>2. HistoryLines = Rows(Between(z, seq), 0, text)
  BY <1>1, HistoryIsRows DEF CountsTyped
<1>3. PICK x \in Nat, y \in Nat : /\ x <= y /\ y <= seq /\ HistoryLines = Between(x, y)
                                  /\ ~(x < y)
  <2>1. 0 \in Nat /\ ~(0 > 0) /\ seq \in Nat
    BY DEF CountsTyped
  <2> QED BY <1>1, <1>2, <2>1, RowsOfBetween
<1>4. Len(HistoryLines) = y - x
  BY <1>3, BetweenIsSeq
<1> QED BY <1>3, <1>4

LEMMA TranscriptStarts ==
  ASSUME RingInv, seq = 0, cleared = 0, tsSeq = 0, text = <<>>, ~flushing, open,
         log = <<>>, tsTail = <<>>, flushing \in BOOLEAN, open \in BOOLEAN
  PROVE  TranscriptInv
<1>1. GoesOn(log, text) /\ log \in Seq(Nat) /\ UpTo(log, seq)
  BY DEF GoesOn, UpTo
<1>2. CountsTyped
  BY DEF CountsTyped
<1>3. Len(HistoryLines) = 0
  BY <1>2, NoRows
<1>4. ~(Len(HistoryLines) - Held > 0)
  BY <1>3, ScreenSize DEF Held
<1> QED BY <1>1, <1>2, <1>4 DEF TranscriptInv, LogTyped, UpToDate, TailHeld

LEMMA OutputMoves ==
  ASSUME TranscriptInv, NEW k \in 1..MaxChunk, NEW said \in [1..k -> Texts], Output(said)
  PROVE  CountsTyped' /\ LogTyped' /\ UpToDate' /\ TailHeld(Held)'
<1>1. k \in Nat \ {0} /\ said \in Seq(Texts) /\ Len(said) = k
  BY Sizes, LenOfSaid
<1>2. /\ open /\ open' = open /\ seq' = seq + k /\ seq \in Nat /\ tsSeq <= seq /\ tsSeq \in Nat
      /\ text' = text \o said /\ UNCHANGED <<cleared, tsSeq, flushing, tsTail, log>>
  BY <1>1 DEF Output, transcript, TranscriptInv, CountsTyped
<1>3. text \in Seq(Texts) /\ Len(text) = seq
  BY DEF TranscriptInv, CountsTyped
<1>4. text' \in Seq(Texts) /\ Len(text') = seq' /\ \A i \in 1..seq : text'[i] = text[i]
  <2>1. text \o said \in Seq(Texts) /\ Len(text \o said) = Len(text) + Len(said)
        /\ \A i \in 1..Len(text) : (text \o said)[i] = text[i]
    BY <1>1, <1>3, LongerAfter
  <2> QED BY <1>1, <1>2, <1>3, <2>1
<1>5. CountsTyped'
  BY <1>1, <1>2, <1>4 DEF TranscriptInv, CountsTyped
<1>6. tsSeq' # seq'
  BY <1>1, <1>2
<1>7. LogTyped'
  <2>1. log \in Seq(Nat) /\ UpTo(log, seq) /\ GoesOn(log, text) /\ (log = <<>> <=> tsTail = <<>>)
    BY DEF TranscriptInv, LogTyped
  <2>2. \A i \in 1..Len(log) : log[i] \in Nat /\ log[i] <= seq
    BY <2>1 DEF UpTo
  <2>3. UpTo(log, seq')
    BY <1>1, <1>2, <2>2 DEF UpTo
  <2>4. GoesOn(log, text')
    <3> SUFFICES ASSUME NEW i \in 1..(Len(log) - 1), log[i] # Gap, log[i + 1] # Gap
                 PROVE  text'[log[i + 1] - 1] = text'[log[i]]
      BY <2>1 DEF GoesOn
    <3>1. log[i + 1] > log[i] /\ text[log[i + 1] - 1] = text[log[i]]
      BY <2>1 DEF GoesOn
    <3>2. i \in 1..Len(log) /\ i + 1 \in 1..Len(log)
      BY <2>1
    <3>3. log[i] \in 1..seq /\ log[i + 1] - 1 \in 1..seq
      BY <1>2, <2>2, <3>1, <3>2 DEF Gap
    <3> QED BY <1>4, <3>1, <3>3
  <2> QED BY <1>2, <2>1, <2>3, <2>4 DEF LogTyped
<1>8. TailHeld(Held)'
  <2> DEFINE m == Held
  <2>1. m \in Nat /\ Held' = m
    BY <1>2, ScreenSize DEF Held
  <2> SUFFICES ASSUME log' # <<>>
               PROVE  \E c, d, h \in Nat : /\ c < d /\ tsTail' = Between(c, d) /\ EndsWith(log', d)
                                           /\ d + Held' <= h /\ h <= seq' /\ text'[h] # Blank
    BY DEF TailHeld
  <2>2. PICK c \in Nat, d \in Nat, h \in Nat :
          /\ c < d /\ tsTail = Between(c, d) /\ EndsWith(log, d)
          /\ d + m <= h /\ h <= seq /\ text[h] # Blank
    BY <1>2 DEF TranscriptInv, TailHeld
  <2> HIDE DEF m
  <2>3. h \in 1..seq /\ h <= seq'
    BY <1>1, <1>2, <2>1, <2>2
  <2> QED BY <1>2, <1>4, <2>1, <2>2, <2>3
<1> QED BY <1>5, <1>6, <1>7, <1>8 DEF UpToDate

LEMMA ClearMoves ==
  ASSUME TranscriptInv, Clear
  PROVE  CountsTyped' /\ LogTyped' /\ UpToDate' /\ TailHeld(Held)'
<1>1. /\ open /\ cleared' = seq /\ Held' = Held
      /\ UNCHANGED <<ring, seq, text, tsSeq, flushing, tsTail, log, open>>
  BY DEF Clear, transcript, Held
<1>2. CountsTyped'
  BY <1>1 DEF TranscriptInv, CountsTyped
<1>3. Len(HistoryLines') = 0
  <2>1. seq \in Nat /\ seq - seq = 0
    BY DEF TranscriptInv, CountsTyped
  <2>2. HistoryLines' = Rows(Snapshot, 0, text)
    BY <1>1, <2>1 DEF HistoryLines, Rows, Snapshot, ring
  <2>3. PICK z \in Nat : z <= seq /\ Snapshot = Between(z, seq)
    BY SnapshotIsBetween DEF TranscriptInv
  <2>4. PICK x \in Nat, y \in Nat : x <= y /\ Rows(Between(z, seq), 0, text) = Between(x, y) /\ ~(x < y)
    <3>1. 0 \in Nat /\ ~(0 > 0)
      OBVIOUS
    <3> QED BY <2>1, <2>3, <3>1, RowsOfBetween
  <2>5. Len(Between(x, y)) = y - x
    BY <2>4, BetweenIsSeq
  <2> QED BY <2>2, <2>3, <2>4, <2>5
<1>4. ~(Len(HistoryLines') - Held' > 0)
  BY <1>1, <1>3, ScreenSize DEF Held
<1>5. LogTyped' /\ TailHeld(Held)'
  BY <1>1 DEF TranscriptInv, LogTyped, TailHeld
<1> QED BY <1>2, <1>4, <1>5 DEF UpToDate

LEMMA RestMoves ==
  ASSUME TranscriptInv, UNCHANGED <<ring, seq, text, cleared, tsTail, log, open>>,
         CountsTyped', flushing' \/ UNCHANGED <<flushing, tsSeq>>
  PROVE  TranscriptInv'
<1>1. RingInv'
  BY RingUnchanged DEF TranscriptInv
<1>2. LogTyped' /\ TailHeld(Held)' /\ Held' = Held
  BY DEF TranscriptInv, LogTyped, TailHeld, Held
<1>3. HistoryLines' = HistoryLines
  BY DEF HistoryLines, Snapshot, ring
<1>4. UpToDate'
  BY <1>2, <1>3 DEF TranscriptInv, UpToDate, Says
<1> QED BY <1>1, <1>2, <1>4 DEF TranscriptInv

LEMMA TranscriptStep == ASSUME TranscriptInv, [Next]_vars PROVE TranscriptInv'
<1>1. CASE \E k \in 1..MaxChunk : \E said \in [1..k -> Texts] : Output(said)
  <2>1. PICK k \in 1..MaxChunk : \E said \in [1..k -> Texts] : Output(said)
    BY <1>1
  <2>2. PICK said \in [1..k -> Texts] : Output(said)
    BY <2>1
  <2>3. k \in Nat \ {0} /\ Len(said) = k
    BY Sizes, LenOfSaid
  <2>4. RingInv'
    BY <2>2, <2>3, WriteKeepsRing DEF Output, TranscriptInv
  <2> QED BY <2>2, <2>4, OutputMoves DEF TranscriptInv
<1>2. CASE Clear
  <2>1. RingInv'
    BY <1>2, RingUnchanged DEF Clear, TranscriptInv
  <2> QED BY <1>2, <2>1, ClearMoves DEF TranscriptInv
<1>3. CASE FlushTranscript
  <2>1. /\ flushing' /\ flushing' \in BOOLEAN /\ tsSeq' = seq /\ open
        /\ UNCHANGED <<ring, seq, text, cleared, tsTail, log, open>>
    BY <1>3 DEF FlushTranscript, output
  <2>2. CountsTyped'
    BY <2>1 DEF TranscriptInv, CountsTyped
  <2> QED BY <2>1, <2>2, RestMoves
<1>4. CASE FlushLines
  <2>1. LogTyped' /\ TailHeld(Held)' /\ UpToDate'
    BY <1>4, FlushKeeps
  <2>2. open /\ ~flushing' /\ flushing' \in BOOLEAN /\ UNCHANGED <<ring, seq, text, cleared, tsSeq, open>>
    BY <1>4 DEF FlushLines, output, TranscriptInv, CountsTyped
  <2>3. RingInv' /\ CountsTyped'
    BY <2>2, RingUnchanged DEF TranscriptInv, CountsTyped
  <2> QED BY <2>1, <2>3 DEF TranscriptInv
<1>5. CASE Close
  <2>1. LogTyped' /\ TailHeld(Held)' /\ UpToDate'
    BY <1>5, CloseWrites
  <2>2. /\ ~open' /\ open' \in BOOLEAN /\ ~flushing /\ tsSeq' = seq
        /\ UNCHANGED <<ring, seq, text, cleared, flushing>>
    BY <1>5 DEF Close, output
  <2>3. RingInv' /\ CountsTyped'
    BY <2>2, RingUnchanged DEF TranscriptInv, CountsTyped
  <2> QED BY <2>1, <2>3 DEF TranscriptInv
<1>6. CASE Respawn
  <2>1. /\ ~flushing' /\ open' /\ buf' = NoBytes /\ head' = 0 /\ ~full' /\ seq' = 0 /\ cleared' = 0
        /\ text' = <<>> /\ tsSeq' = 0 /\ tsTail' = <<>> /\ log' = <<>>
        /\ flushing' \in BOOLEAN /\ open' \in BOOLEAN
    BY <1>6 DEF Respawn, TranscriptInv, CountsTyped, NoBytes
  <2>2. RingInv'
    BY <2>1, Sizes DEF NoBytes, RingInv, BehindHead, AheadOfHead
  <2>3. CountsTyped'
    BY <2>1 DEF CountsTyped
  <2>4. LogTyped' /\ TailHeld(Held)'
    BY <2>1 DEF LogTyped, GoesOn, UpTo, TailHeld
  <2>5. HistoryLines' = <<>>
    <3>1. Snapshot' = <<>>
      BY <2>1 DEF Snapshot
    <3>2. 0 - 0 = 0 /\ Min({0, HistRows}) = 0
      BY PaneAssumption, MinOfTwo
    <3>3. LastOf(<<>>, 0) = <<>>
      BY DEF LastOf
    <3> QED BY <2>1, <3>1, <3>2, <3>3 DEF HistoryLines
  <2>6. UpToDate'
    BY <2>5, ScreenSize DEF UpToDate, Held
  <2> QED BY <2>2, <2>3, <2>4, <2>6 DEF TranscriptInv
<1>7. CASE UNCHANGED <<ring, seq, text, cleared, tsTail, log, open, flushing, tsSeq>>
  <2>1. CountsTyped'
    BY <1>7 DEF TranscriptInv, CountsTyped
  <2> QED BY <1>7, <2>1, RestMoves
<1>8. \/ \E k \in 1..MaxChunk : \E said \in [1..k -> Texts] : Output(said)
      \/ Clear \/ FlushTranscript \/ FlushLines \/ Close \/ Respawn
      \/ UNCHANGED <<ring, seq, text, cleared, tsTail, log, open, flushing, tsSeq>>
  BY DEF Next, Inject, Read, Enter, vars, output, transcript
<1> QED BY <1>1, <1>2, <1>3, <1>4, <1>5, <1>6, <1>7, <1>8

\* For every size of ring, replay, screen and anchor, and whatever the lines say: the
\* transcript of a pane repeats no line, goes on unmarked only after a line that says what
\* its last one said, and ends with what the last line to be written says when no flush is
\* due, however reads, flushes and clears interleave (afterAnchor, flushTranscript).
THEOREM TranscriptContinues == Spec => []TranscriptGoesOn
<1>1. Init => TranscriptInv
  <2> SUFFICES ASSUME Init PROVE TranscriptInv
    OBVIOUS
  <2>1. RingInv
    BY EmptyRing DEF Init
  <2> QED BY <2>1, TranscriptStarts DEF Init
<1>2. TranscriptInv /\ [Next]_vars => TranscriptInv'
  BY TranscriptStep
<1>3. TranscriptInv => TranscriptGoesOn
  <2> SUFFICES ASSUME TranscriptInv PROVE TranscriptGoesOn
    OBVIOUS
  <2>1. GoesOn(log, text)
    BY DEF TranscriptInv, LogTyped
  <2>2. ASSUME ~flushing, tsSeq = seq, Len(HistoryLines) - Held > 0
        PROVE  log # <<>> /\ text[log[Len(log)]] = text[HistoryLines[Len(HistoryLines) - Held]]
    BY <2>2 DEF TranscriptInv, UpToDate, Says, EndsWith
  <2> QED BY <2>1, <2>2 DEF TranscriptGoesOn, GoesOn, Held
<1> QED BY <1>1, <1>2, <1>3, PTL DEF Spec

=============================================================================
