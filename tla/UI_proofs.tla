------------------------------- MODULE UI_proofs -------------------------------
(***************************************************************************)
(* Proofs about the terminal UI, modules Tiling and Keys: the layout stays *)
(* a binary tree whose tiles show one slot of the roster each, the deck's  *)
(* focus is the tree's, and keys decide what is on the screen.             *)
(***************************************************************************)
EXTENDS Tiling, Keys, FiniteSetTheorems, SequenceTheorems, WellFoundedInduction, TLAPS

-----------------------------------------------------------------------------
(* Paths *)

Step == {"a", "b"}
Path == Seq(Step)
Kid(p, x) == p \o <<x>>
Other(x) == IF x = "a" THEN "b" ELSE "a"

\* What a path starts with
LEMMA Upto ==
  ASSUME NEW S, NEW p \in Seq(S), NEW n \in Int, 0 <= n, n <= Len(p)
  PROVE  /\ SubSeq(p, 1, n) \in Seq(S) /\ Len(SubSeq(p, 1, n)) = n
         /\ \A k \in 1..n : SubSeq(p, 1, n)[k] = p[k]
<1>1. Len(p) \in Nat /\ \A i \in 1..n : p[i] \in S
  OBVIOUS
<1> DEFINE q == SubSeq(p, 1, n)
<1>2. /\ q \in Seq(S) /\ Len(q) = IF 1 <= n THEN n - 1 + 1 ELSE 0
      /\ \A i \in 1..(n - 1 + 1) : q[i] = p[1 + i - 1]
  BY <1>1, SubSeqProperties
<1> HIDE DEF q
<1>3. \A k \in 1..n : q[k] = p[k]
  <2> TAKE k \in 1..n
  <2>1. k \in 1..(n - 1 + 1) /\ 1 + k - 1 = k
    OBVIOUS
  <2> QED BY <1>2, <2>1
<1>4. Len(q) = n
  BY <1>2
<1> QED BY <1>2, <1>3, <1>4 DEF q

LEMMA Kids ==
  ASSUME NEW p \in Path, NEW x \in Step
  PROVE  /\ Kid(p, x) \in Path /\ Kid(p, x) # <<>> /\ Len(Kid(p, x)) = Len(p) + 1
         /\ Parent(Kid(p, x)) = p
         /\ Sibling(Kid(p, x)) = Kid(p, Other(x))
         /\ \A k \in 1..Len(p) : Kid(p, x)[k] = p[k]
         /\ Kid(p, x)[Len(p) + 1] = x
<1> DEFINE q == p \o <<x>>
<1>1. q \in Path /\ Len(q) = Len(p) + 1 /\ (\A k \in 1..Len(p) : q[k] = p[k]) /\ q[Len(p) + 1] = x
  BY DEF Path, Step
<1>2. Len(p) \in Nat /\ p \in Path
  BY DEF Path
<1> HIDE DEF q
<1>3. q # <<>>
  BY <1>1, <1>2
<1>4. SubSeq(q, 1, Len(q) - 1) = p
  <2> DEFINE s == SubSeq(q, 1, Len(q) - 1)
  <2>1. s \in Path /\ Len(s) = Len(p) /\ \A k \in 1..Len(p) : s[k] = q[k]
    BY <1>1, <1>2 DEF Path
  <2> HIDE DEF s
  <2>2. s = p
    BY <1>1, <1>2, <2>1, SeqEqual DEF Path
  <2> QED BY <2>2 DEF s
<1>5. Parent(q) = p
  BY <1>4 DEF Parent, Front
<1>6. Sibling(q) = Kid(p, Other(x))
  <2>1. Last(q) = x
    BY <1>1 DEF Last
  <2> QED BY <1>4, <2>1 DEF Sibling, Front, Kid, Other
<1> QED BY <1>1, <1>3, <1>5, <1>6 DEF q, Kid

LEMMA OtherStep == \A x \in Step : Other(x) \in Step /\ Other(x) # x /\ Other(Other(x)) = x
BY DEF Other, Step

LEMMA NotRoot ==
  ASSUME NEW p \in Path, p # <<>>
  PROVE  \E q \in Path, x \in Step : p = Kid(q, x)
<1> DEFINE q == SubSeq(p, 1, Len(p) - 1)
           x == p[Len(p)]
           r == q \o <<x>>
<1>1. p \in Seq(Step) /\ Len(p) \in Nat /\ Len(p) > 0
  BY DEF Path
<1>2. q \in Path /\ Len(q) = Len(p) - 1 /\ \A k \in 1..(Len(p) - 1) : q[k] = p[k]
  <2> DEFINE n == Len(p) - 1
  <2>1. n \in Int /\ 0 <= n /\ n <= Len(p)
    BY <1>1
  <2> HIDE DEF n
  <2>2. SubSeq(p, 1, n) \in Seq(Step) /\ Len(SubSeq(p, 1, n)) = n /\ \A k \in 1..n : SubSeq(p, 1, n)[k] = p[k]
    BY <1>1, <2>1, Upto
  <2> QED BY <2>2 DEF n, Path
<1>3. x \in Step
  BY <1>1
<1> HIDE DEF q, x
<1>4. r \in Path /\ Len(r) = Len(p) /\ (\A k \in 1..(Len(p) - 1) : r[k] = q[k]) /\ r[Len(p)] = x
  BY <1>1, <1>2, <1>3 DEF Path
<1> HIDE DEF r
<1>5. \A k \in 1..Len(p) : r[k] = p[k]
  <2> SUFFICES ASSUME NEW k \in 1..Len(p) PROVE r[k] = p[k]
    OBVIOUS
  <2>1. k = Len(p) \/ k \in 1..(Len(p) - 1)
    BY <1>1
  <2> QED BY <1>2, <1>4, <2>1 DEF x
<1>6. p = r
  BY <1>1, <1>4, <1>5, SeqEqual DEF Path
<1> QED BY <1>2, <1>3, <1>6 DEF r, Kid

LEMMA SameKid ==
  ASSUME NEW p \in Path, NEW q \in Path, NEW x \in Step, NEW y \in Step, Kid(p, x) = Kid(q, y)
  PROVE  p = q /\ x = y
<1>1. Parent(Kid(p, x)) = p /\ Parent(Kid(q, y)) = q
  BY Kids
<1>2. p = q
  BY <1>1
<1>3. Kid(p, x)[Len(p) + 1] = x /\ Kid(q, y)[Len(q) + 1] = y
  BY Kids
<1> QED BY <1>2, <1>3

\* A path and what follows it
LEMMA Joined ==
  ASSUME NEW p \in Path, NEW r \in Path
  PROVE  /\ p \o r \in Path /\ Len(p \o r) = Len(p) + Len(r)
         /\ \A k \in 1..Len(p) : (p \o r)[k] = p[k]
         /\ \A k \in 1..Len(r) : (p \o r)[Len(p) + k] = r[k]
         /\ p \o <<>> = p
<1>1. /\ p \o r \in Path /\ Len(p \o r) = Len(p) + Len(r)
      /\ \A k \in 1..(Len(p) + Len(r)) : (p \o r)[k] = IF k <= Len(p) THEN p[k] ELSE r[k - Len(p)]
  BY ConcatProperties DEF Path
<1>2. Len(p) \in Nat /\ Len(r) \in Nat
  BY DEF Path
<1>3. p \o <<>> = p
  BY DEF Path
<1> DEFINE q == p \o r
<1>4. Len(q) = Len(p) + Len(r)
      /\ \A k \in 1..(Len(p) + Len(r)) : q[k] = IF k <= Len(p) THEN p[k] ELSE r[k - Len(p)]
  BY <1>1
<1> HIDE DEF q
<1>5. \A k \in 1..Len(p) : q[k] = p[k]
  BY <1>2, <1>4
<1>6. ASSUME NEW k \in 1..Len(r) PROVE q[Len(p) + k] = r[k]
  <2> DEFINE i == Len(p) + k
  <2>1. i \in 1..(Len(p) + Len(r)) /\ ~(i <= Len(p)) /\ i - Len(p) = k
    BY <1>2
  <2> HIDE DEF i
  <2>2. q[i] = r[k]
    BY <1>4, <2>1
  <2> QED BY <2>2 DEF i
<1> QED BY <1>1, <1>3, <1>5, <1>6 DEF q

LEMMA JoinedKid ==
  ASSUME NEW p \in Path, NEW r \in Path, NEW x \in Step
  PROVE  p \o Kid(r, x) = Kid(p \o r, x)
<1>1. <<x>> \in Path
  BY DEF Path, Step
<1> QED BY <1>1, ConcatAssociative DEF Kid, Path

\* Below, by what follows
LEMMA BelowJoined ==
  ASSUME NEW p \in Path, NEW r \in Path
  PROVE  Below(p, p \o r) /\ Tail0(p, p \o r) = r
<1> DEFINE q == p \o r
<1>1. /\ q \in Seq(Step) /\ Len(q) = Len(p) + Len(r) /\ Len(p) \in Nat /\ Len(r) \in Nat
      /\ \A k \in 1..Len(p) : q[k] = p[k]
      /\ \A k \in 1..Len(r) : q[Len(p) + k] = r[k]
      /\ p \in Seq(Step) /\ r \in Seq(Step)
  BY Joined DEF Path
<1> HIDE DEF q
<1>2. SubSeq(p, 1, Len(p)) = SubSeq(q, 1, Len(p))
  <2> DEFINE s == SubSeq(p, 1, Len(p))
             t == SubSeq(q, 1, Len(p))
  <2>1. s \in Seq(Step) /\ Len(s) = Len(p) /\ \A k \in 1..Len(p) : s[k] = p[k]
    BY <1>1
  <2>2. t \in Seq(Step) /\ Len(t) = Len(p) /\ \A k \in 1..Len(p) : t[k] = q[k]
    BY <1>1
  <2> HIDE DEF s, t
  <2>3. s = t
    BY <1>1, <2>1, <2>2, SeqEqual
  <2> QED BY <2>3 DEF s, t
<1>3. SubSeq(q, Len(p) + 1, Len(q)) = r
  <2> DEFINE s == SubSeq(q, Len(p) + 1, Len(q))
  <2>1. s \in Seq(Step) /\ Len(s) = Len(r) /\ \A k \in 1..Len(r) : s[k] = q[Len(p) + k]
    BY <1>1
  <2> HIDE DEF s
  <2>2. s = r
    BY <1>1, <2>1, SeqEqual
  <2> QED BY <2>2 DEF s
<1> QED BY <1>1, <1>2, <1>3 DEF q, Below, IsPrefix, Tail0

LEMMA BelowIs ==
  ASSUME NEW p \in Path, NEW q \in Path, Below(p, q)
  PROVE  Tail0(p, q) \in Path /\ q = p \o Tail0(p, q)
<1> DEFINE r == SubSeq(q, Len(p) + 1, Len(q))
           s == p \o r
<1>1. /\ p \in Seq(Step) /\ q \in Seq(Step) /\ Len(p) \in Nat /\ Len(q) \in Nat /\ Len(p) <= Len(q)
      /\ SubSeq(p, 1, Len(p)) = SubSeq(q, 1, Len(p))
  BY DEF Below, IsPrefix, Path
<1>2. r \in Path /\ Len(r) = Len(q) - Len(p) /\ \A k \in 1..(Len(q) - Len(p)) : r[k] = q[Len(p) + k]
  BY <1>1 DEF Path
<1>3. \A k \in 1..Len(p) : p[k] = q[k]
  <2> SUFFICES ASSUME NEW k \in 1..Len(p) PROVE p[k] = q[k]
    OBVIOUS
  <2>1. SubSeq(p, 1, Len(p))[k] = p[k] /\ SubSeq(q, 1, Len(p))[k] = q[k]
    BY <1>1
  <2> QED BY <1>1, <2>1
<1> HIDE DEF r
<1>4. /\ s \in Path /\ Len(s) = Len(q) /\ (\A k \in 1..Len(p) : s[k] = p[k])
      /\ \A k \in 1..(Len(q) - Len(p)) : s[Len(p) + k] = r[k]
  <2>1. /\ s \in Path /\ Len(s) = Len(p) + Len(r) /\ (\A k \in 1..Len(p) : s[k] = p[k])
        /\ \A k \in 1..Len(r) : s[Len(p) + k] = r[k]
    BY <1>2, Joined
  <2> HIDE DEF s
  <2> QED BY <1>1, <1>2, <2>1
<1> HIDE DEF s
<1>5. ASSUME NEW k \in 1..Len(q) PROVE s[k] = q[k]
  <2>1. CASE k <= Len(p)
    BY <1>1, <1>3, <1>4, <2>1
  <2>2. CASE k > Len(p)
    <3> DEFINE i == k - Len(p)
    <3>1. i \in 1..(Len(q) - Len(p)) /\ k = Len(p) + i
      BY <1>1, <2>2
    <3> HIDE DEF i
    <3> QED BY <1>2, <1>4, <3>1
  <2> QED BY <1>1, <2>1, <2>2
<1>6. s = q
  BY <1>1, <1>4, <1>5, SeqEqual DEF Path
<1> QED BY <1>2, <1>6 DEF s, r, Tail0

\* Two paths that are the same up to n
LEMMA SameUpto ==
  ASSUME NEW p \in Path, NEW q \in Path, NEW n \in Int, 0 <= n, n <= Len(p), n <= Len(q)
  PROVE  /\ SubSeq(p, 1, n) = SubSeq(q, 1, n) => \A j \in 1..n : p[j] = q[j]
         /\ (\A j \in 1..n : p[j] = q[j]) => SubSeq(p, 1, n) = SubSeq(q, 1, n)
<1> DEFINE s == SubSeq(p, 1, n)
           r == SubSeq(q, 1, n)
<1>1. s \in Seq(Step) /\ Len(s) = n /\ \A k \in 1..n : s[k] = p[k]
  BY Upto DEF Path
<1>2. r \in Seq(Step) /\ Len(r) = n /\ \A k \in 1..n : r[k] = q[k]
  BY Upto DEF Path
<1> HIDE DEF s, r
<1>3. ASSUME \A j \in 1..n : p[j] = q[j] PROVE s = r
  BY <1>1, <1>2, <1>3, SeqEqual
<1>4. ASSUME s = r PROVE \A j \in 1..n : p[j] = q[j]
  BY <1>1, <1>2, <1>4
<1> QED BY <1>3, <1>4 DEF s, r

LEMMA BelowMeans ==
  ASSUME NEW p \in Path, NEW q \in Path
  PROVE  /\ Below(p, q) => Len(p) <= Len(q) /\ \A k \in 1..Len(p) : p[k] = q[k]
         /\ Len(p) <= Len(q) /\ (\A k \in 1..Len(p) : p[k] = q[k]) => Below(p, q)
<1>1. Len(p) \in Int /\ 0 <= Len(p) /\ Len(p) <= Len(p)
  BY DEF Path
<1>2. Len(p) <= Len(q) =>
        /\ SubSeq(p, 1, Len(p)) = SubSeq(q, 1, Len(p)) => \A j \in 1..Len(p) : p[j] = q[j]
        /\ (\A j \in 1..Len(p) : p[j] = q[j]) => SubSeq(p, 1, Len(p)) = SubSeq(q, 1, Len(p))
  BY <1>1, SameUpto
<1> QED BY <1>1, <1>2 DEF Below, IsPrefix

\* What is below a node is itself or below one of its children
LEMMA BelowKid ==
  ASSUME NEW p \in Path, NEW q \in Path
  PROVE  /\ Below(p, p)
         /\ \A x \in Step : Below(Kid(p, x), q) => Below(p, q)
         /\ Below(p, q) /\ p # q => \E x \in Step : Below(Kid(p, x), q)
<1>0. Len(p) \in Nat /\ Len(q) \in Nat /\ p \in Seq(Step) /\ q \in Seq(Step)
  BY DEF Path
<1>1. Below(p, p)
  BY <1>0, BelowMeans
<1>2. ASSUME NEW x \in Step, Below(Kid(p, x), q) PROVE Below(p, q)
  <2> DEFINE c == Kid(p, x)
  <2>1. c \in Path /\ Len(c) = Len(p) + 1 /\ \A k \in 1..Len(p) : c[k] = p[k]
    BY Kids
  <2>2. Below(c, q)
    BY <1>2
  <2> HIDE DEF c
  <2>3. Len(c) <= Len(q) /\ \A k \in 1..Len(c) : c[k] = q[k]
    BY <2>1, <2>2, BelowMeans
  <2>4. Len(p) <= Len(q) /\ \A k \in 1..Len(p) : p[k] = q[k]
    BY <1>0, <2>1, <2>3
  <2> QED BY <2>4, BelowMeans
<1>3. ASSUME Below(p, q), p # q PROVE \E x \in Step : Below(Kid(p, x), q)
  <2>1. Len(p) <= Len(q) /\ \A k \in 1..Len(p) : p[k] = q[k]
    BY <1>3, BelowMeans
  <2>2. Len(p) # Len(q)
    BY <1>0, <1>3, <2>1, SeqEqual
  <2> DEFINE i == Len(p) + 1
             x == q[i]
             c == Kid(p, x)
  <2>3. i \in 1..Len(q)
    BY <1>0, <2>1, <2>2
  <2>4. x \in Step
    BY <1>0, <2>3
  <2>5. c \in Path /\ Len(c) = i /\ (\A k \in 1..Len(p) : c[k] = p[k]) /\ c[i] = x
    BY <2>4, Kids
  <2> HIDE DEF c
  <2>6. Len(c) <= Len(q)
    BY <1>0, <2>3, <2>5
  <2>7. ASSUME NEW k \in 1..Len(c) PROVE c[k] = q[k]
    <3>1. k = i \/ k \in 1..Len(p)
      BY <1>0, <2>5
    <3> QED BY <2>1, <2>5, <3>1
  <2>8. Below(c, q)
    BY <2>5, <2>6, <2>7, BelowMeans
  <2> QED BY <2>4, <2>8 DEF c
<1> QED BY <1>1, <1>2, <1>3

-----------------------------------------------------------------------------
(* Trees *)

\* The paths of a tree are a root and, below every fork and nowhere else, its two
\* children; none is longer than some length.
Built(t) ==
  /\ DOMAIN t \subseteq Path /\ <<>> \in DOMAIN t
  /\ \E n \in Nat : \A p \in DOMAIN t : Len(p) <= n
  /\ \A p \in DOMAIN t : t[p].leaf \in BOOLEAN
  /\ \A p \in Path, x \in Step : Kid(p, x) \in DOMAIN t <=> (p \in DOMAIN t /\ ~t[p].leaf)

\* Its tiles show different slots of a roster of n, and its forks have a ratio.
Filled(t, n) ==
  /\ \A p \in Tiles(t) : t[p].role \in 0..(n - 1)
  /\ \A p, q \in Tiles(t) : t[p].role = t[q].role => p = q
  /\ \A p \in DOMAIN t \ Tiles(t) : t[p].vert \in BOOLEAN /\ t[p].ratio \in MinRatio..MaxRatio

Good(t, n) == Built(t) /\ Filled(t, n)

LEMMA ForkIs ==
  ASSUME NEW t, NEW n, Filled(t, n), NEW q \in DOMAIN t, ~t[q].leaf
  PROVE  t[q].vert \in BOOLEAN /\ t[q].ratio \in Int
<1>1. q \in DOMAIN t \ Tiles(t)
  BY DEF Tiles
<1>2. t[q].vert \in BOOLEAN /\ t[q].ratio \in MinRatio..MaxRatio
  BY <1>1 DEF Filled
<1>3. MinRatio \in Int /\ MaxRatio \in Int
  BY DEF MinRatio, MaxRatio
<1> QED BY <1>2, <1>3

LEMMA LeastOf ==
  ASSUME NEW S, S \subseteq Nat, NEW m \in S
  PROVE  \E x \in S : \A y \in S : x <= y
<1> DEFINE R == OpToRel(<, Nat)
<1>1. IsWellFoundedOn(R, Nat)
  BY NatLessThanWellFounded
<1>2. PICK x \in S : \A y \in S : ~(<<y, x>> \in R)
  BY <1>1, WFMin
<1>3. \A y \in S : ~(y < x)
  BY <1>2 DEF OpToRel
<1>4. \A y \in S : x <= y
  BY <1>3
<1> QED BY <1>4

LEMMA GreatestOf ==
  ASSUME NEW S, S \subseteq Nat, NEW m \in S, NEW n \in Nat, \A y \in S : y <= n
  PROVE  \E x \in S : \A y \in S : y <= x
<1> DEFINE T == {n - y : y \in S}
<1>1. T \subseteq Nat /\ n - m \in T
  <2>1. \A y \in S : y \in Nat /\ y <= n
    OBVIOUS
  <2>2. \A y \in S : n - y \in Nat
    BY <2>1
  <2> QED BY <2>2
<1>2. PICK z \in T : \A y \in T : z <= y
  BY <1>1, LeastOf
<1>3. PICK x \in S : z = n - x
  BY Zenon
<1>4. ASSUME NEW y \in S PROVE y <= x
  <2>1. n - y \in T
    OBVIOUS
  <2>2. n - x <= n - y
    BY <1>2, <1>3, <2>1
  <2>3. x \in Nat /\ y \in Nat
    OBVIOUS
  <2> QED BY <2>2, <2>3
<1> QED BY <1>4

\* What lies above a node is a fork of the tree
LEMMA Ancestors ==
  ASSUME NEW t, Built(t), NEW p \in Path, NEW f \in DOMAIN t, Below(p, f), p # f
  PROVE  p \in DOMAIN t /\ ~t[p].leaf
<1> DEFINE S == {Len(r) : r \in {s \in Path : s # <<>> /\ p \o s \in DOMAIN t}}
           r0 == Tail0(p, f)
<1>1. f \in Path
  BY DEF Built
<1>2. r0 \in Path /\ f = p \o r0
  BY <1>1, BelowIs
<1>3. r0 # <<>>
  BY <1>2, Joined
<1> HIDE DEF r0
<1>4. S \subseteq Nat /\ Len(r0) \in S
  <2>1. \A s \in Path : Len(s) \in Nat
    BY DEF Path
  <2>2. S \subseteq Nat
    BY <2>1
  <2>3. r0 \in {s \in Path : s # <<>> /\ p \o s \in DOMAIN t}
    BY <1>2, <1>3, Zenon
  <2>4. Len(r0) \in S
    BY <2>3, Zenon
  <2> QED BY <2>2, <2>4
<1>5. PICK n \in S : \A m \in S : n <= m
  BY <1>4, LeastOf
<1>6. PICK r \in Path : r # <<>> /\ p \o r \in DOMAIN t /\ n = Len(r)
  BY Zenon
<1>7. PICK s \in Path, x \in Step : r = Kid(s, x)
  BY <1>6, NotRoot, Zenon
<1>8. p \o r = Kid(p \o s, x) /\ p \o s \in Path
  BY <1>7, JoinedKid, Joined
<1>9. p \o s \in DOMAIN t /\ ~t[p \o s].leaf
  BY <1>6, <1>8 DEF Built
<1>10. s = <<>>
  <2> SUFFICES ASSUME s # <<>> PROVE FALSE
    OBVIOUS
  <2>1. Len(s) \in S
    BY <1>9
  <2>2. Len(r) = Len(s) + 1 /\ Len(s) \in Nat
    BY <1>7, Kids DEF Path
  <2>3. Len(r) <= Len(s)
    BY <1>5, <1>6, <2>1
  <2> QED BY <2>2, <2>3
<1>11. p \o s = p
  BY <1>10, Joined
<1> QED BY <1>9, <1>11

LEMMA FirstLeafIs ==
  ASSUME NEW t, Built(t), NEW p \in DOMAIN t
  PROVE  FirstLeaf(t, p) \in Tiles(t) /\ Below(p, FirstLeaf(t, p))
<1> DEFINE Straight(q) == Below(p, q) /\ \A k \in (Len(p) + 1)..Len(q) : q[k] = "a"
           S == {Len(q) : q \in {r \in DOMAIN t : Straight(r)}}
<1>0. p \in Path /\ Len(p) \in Nat
  BY DEF Built, Path
<1>1. Straight(p)
  <2>1. Below(p, p)
    <3>1. <<>> \in Path
      BY DEF Path
    <3> QED BY <1>0, <3>1, BelowJoined, Joined
  <2>2. (Len(p) + 1)..Len(p) = {}
    BY <1>0
  <2> QED BY <2>1, <2>2
<1> HIDE DEF Straight
<1>2. S \subseteq Nat /\ Len(p) \in S
  BY <1>1 DEF Built, Path
<1>3. PICK n \in Nat : \A q \in DOMAIN t : Len(q) <= n
  BY DEF Built
<1>4. \A m \in S : m <= n
  BY <1>3
<1>5. PICK m \in S : \A k \in S : k <= m
  BY <1>2, <1>4, GreatestOf
<1>6. PICK q \in DOMAIN t : Straight(q) /\ m = Len(q)
  BY Zenon
<1>7. q \in Path /\ Len(q) \in Nat /\ "a" \in Step
  BY DEF Built, Path, Step
<1>8. t[q].leaf
  <2> SUFFICES ASSUME ~t[q].leaf PROVE FALSE
    OBVIOUS
  <2> DEFINE r == Kid(q, "a")
  <2>1. r \in DOMAIN t
    BY <1>7 DEF Built
  <2>2. r \in Path /\ Len(r) = Len(q) + 1 /\ (\A k \in 1..Len(q) : r[k] = q[k]) /\ r[Len(q) + 1] = "a"
    BY <1>7, Kids
  <2>3. Below(p, r)
    <3>1. Below(p, q)
      BY <1>6 DEF Straight
    <3>2. PICK s \in Path : q = p \o s
      BY <1>0, <1>7, <3>1, BelowIs, Zenon
    <3>3. r = p \o Kid(s, "a") /\ Kid(s, "a") \in Path
      BY <1>0, <1>7, <3>2, JoinedKid, Kids
    <3> QED BY <1>0, <3>3, BelowJoined
  <2> HIDE DEF r
  <2>4. ASSUME NEW k \in (Len(p) + 1)..Len(r) PROVE r[k] = "a"
    <3>1. CASE k = Len(q) + 1
      BY <2>2, <3>1
    <3>2. CASE k # Len(q) + 1
      <4>1. k \in 1..Len(q) /\ k \in (Len(p) + 1)..Len(q)
        BY <1>0, <1>7, <2>2, <3>2
      <4> QED BY <1>6, <2>2, <4>1 DEF Straight
    <3> QED BY <3>1, <3>2
  <2>5. Straight(r)
    BY <2>3, <2>4 DEF Straight
  <2>6. Len(r) \in S
    BY <2>1, <2>5
  <2>7. Len(r) <= Len(q)
    BY <1>5, <1>6, <2>6
  <2> QED BY <1>7, <2>2, <2>7
<1>9. \E c \in Tiles(t) : Below(p, c) /\ \A k \in (Len(p) + 1)..Len(c) : c[k] = "a"
  BY <1>6, <1>8, Zenon DEF Tiles, Straight
<1> QED BY <1>9, Zenon DEF FirstLeaf

\* A role has one tile at most: the one FocusRole finds
LEMMA FocusRoleIs ==
  ASSUME NEW t, NEW n, Filled(t, n), NEW f \in Tiles(t), NEW role
  PROVE  /\ FocusRole(t, f, role) \in Tiles(t)
         /\ Shows(t, role) # {} => t[FocusRole(t, f, role)].role = role
         /\ Shows(t, role) = {} => FocusRole(t, f, role) = f
<1>1. CASE Shows(t, role) = {}
  BY <1>1 DEF FocusRole
<1>2. ASSUME NEW s \in Shows(t, role)
      PROVE  FocusRole(t, f, role) \in Tiles(t) /\ t[FocusRole(t, f, role)].role = role
  <2>1. s \in Tiles(t) /\ t[s].role = role
    BY <1>2 DEF Shows
  <2>2. \A q \in Shows(t, role) : q = s
    BY <2>1 DEF Shows, Filled
  <2>3. \E p \in Shows(t, role) : \A q \in Shows(t, role) \ {p} : Before(p, q)
    BY <1>2, <2>2, Zenon
  <2>4. FocusRole(t, f, role) \in Shows(t, role)
    BY <1>2, <2>3, Zenon DEF FocusRole
  <2> QED BY <2>4 DEF Shows
<1> QED BY <1>1, <1>2

-----------------------------------------------------------------------------
(* What is done with a tree *)

LEMMA BuiltIsWellFormed ==
  ASSUME NEW t, NEW n \in Nat, n <= MaxRoles, MaxRoles \in Nat, Good(t, n), NEW f \in Tiles(t)
  PROVE  WellFormed(t, f)
<1>0. Built(t) /\ Filled(t, n) /\ DOMAIN t \subseteq Path /\ <<>> \in DOMAIN t
  BY DEF Good, Built
<1> SUFFICES ASSUME NEW p \in DOMAIN t
             PROVE  /\ p # <<>> => Parent(p) \in DOMAIN t /\ ~t[Parent(p)].leaf /\ Sibling(p) \in DOMAIN t
                    /\ IF t[p].leaf THEN t[p].role \in 0..(MaxRoles - 1)
                       ELSE t[p].vert \in BOOLEAN /\ t[p].ratio \in MinRatio..MaxRatio /\ p \o <<"a">> \in DOMAIN t
  BY <1>0 DEF WellFormed
<1>1. ASSUME p # <<>> PROVE Parent(p) \in DOMAIN t /\ ~t[Parent(p)].leaf /\ Sibling(p) \in DOMAIN t
  <2>1. PICK q \in Path, x \in Step : p = Kid(q, x)
    BY <1>0, <1>1, NotRoot, Zenon
  <2>2. Parent(p) = q /\ Sibling(p) = Kid(q, Other(x)) /\ Other(x) \in Step
    BY <2>1, Kids, OtherStep
  <2>3. q \in DOMAIN t /\ ~t[q].leaf
    BY <1>0, <2>1 DEF Built
  <2>4. Kid(q, Other(x)) \in DOMAIN t
    BY <1>0, <2>2, <2>3 DEF Built
  <2> QED BY <2>2, <2>3, <2>4
<1>2. ASSUME t[p].leaf PROVE t[p].role \in 0..(MaxRoles - 1)
  <2>1. t[p].role \in 0..(n - 1)
    BY <1>0, <1>2 DEF Filled, Tiles
  <2> QED BY <2>1
<1>3. ASSUME ~t[p].leaf PROVE t[p].vert \in BOOLEAN /\ t[p].ratio \in MinRatio..MaxRatio /\ p \o <<"a">> \in DOMAIN t
  <2>1. t[p].vert \in BOOLEAN /\ t[p].ratio \in MinRatio..MaxRatio
    BY <1>0, <1>3 DEF Filled, Tiles
  <2>2. "a" \in Step /\ p \in Path
    BY <1>0 DEF Step
  <2>3. Kid(p, "a") \in DOMAIN t
    BY <1>0, <1>3, <2>2 DEF Built
  <2> QED BY <2>1, <2>3 DEF Kid
<1> QED BY <1>1, <1>2, <1>3

\* A tree of one tile
LEMMA AloneIsGood ==
  ASSUME NEW n \in Nat, NEW role \in 0..(n - 1)
  PROVE  Good(Alone(role), n) /\ Tiles(Alone(role)) = {<<>>} /\ Alone(role)[<<>>].role = role
<1> DEFINE t == Alone(role)
<1>1. DOMAIN t = {<<>>} /\ t[<<>>] = Leaf(role)
  BY DEF Alone
<1>2. t[<<>>].leaf = TRUE /\ t[<<>>].role = role
  BY <1>1 DEF Leaf
<1> HIDE DEF t
<1>3. Tiles(t) = {<<>>}
  BY <1>1, <1>2 DEF Tiles
<1>4. Filled(t, n)
  BY <1>1, <1>2, <1>3 DEF Filled
<1>5. Built(t)
  <2>1. <<>> \in Path /\ Len(<<>>) = 0
    BY DEF Path
  <2>2. \A p \in Path, x \in Step : Kid(p, x) \notin DOMAIN t
    BY <1>1, Kids
  <2>3. \A p \in DOMAIN t : Len(p) <= 0
    BY <1>1, <2>1
  <2>4. \E k \in Nat : \A p \in DOMAIN t : Len(p) <= k
    BY <2>3
  <2>5. \A p \in Path, x \in Step : Kid(p, x) \in DOMAIN t <=> (p \in DOMAIN t /\ ~t[p].leaf)
    BY <1>1, <1>2, <2>2
  <2> QED BY <1>1, <1>2, <2>1, <2>4, <2>5 DEF Built
<1> QED BY <1>2, <1>3, <1>4, <1>5 DEF Good, t

\* A tree whose nodes change their content alone
LEMMA SameShape ==
  ASSUME NEW t, Built(t), NEW u, DOMAIN u = DOMAIN t, \A p \in DOMAIN t : u[p].leaf = t[p].leaf
  PROVE  Built(u) /\ Tiles(u) = Tiles(t)
<1>1. Tiles(u) = Tiles(t)
  BY DEF Tiles
<1>2. \A p \in Path, x \in Step : Kid(p, x) \in DOMAIN u <=> (p \in DOMAIN u /\ ~u[p].leaf)
  <2> TAKE p \in Path, x \in Step
  <2>1. Kid(p, x) \in DOMAIN t <=> (p \in DOMAIN t /\ ~t[p].leaf)
    BY DEF Built
  <2> QED BY <2>1
<1>3. DOMAIN u \subseteq Path /\ <<>> \in DOMAIN u /\ (\E n \in Nat : \A p \in DOMAIN u : Len(p) <= n)
      /\ \A p \in DOMAIN u : u[p].leaf \in BOOLEAN
  BY DEF Built
<1> QED BY <1>1, <1>2, <1>3 DEF Built

\* A hidden role takes the tile over, a shown one has its own
LEMMA RetargetKeeps ==
  ASSUME NEW t, NEW n \in Nat, Good(t, n), NEW f \in Tiles(t), NEW role \in 0..(n - 1)
  PROVE  Good(Retarget(t, f, role), n) /\ FocusRole(t, f, role) \in Tiles(Retarget(t, f, role))
<1>0. Built(t) /\ Filled(t, n)
  BY DEF Good
<1>1. CASE Shows(t, role) # {}
  <2>1. Retarget(t, f, role) = t
    BY <1>1 DEF Retarget
  <2> QED BY <1>0, <2>1, FocusRoleIs
<1>2. CASE Shows(t, role) = {}
  <2> DEFINE u == [t EXCEPT ![f] = Leaf(role)]
  <2>1. Retarget(t, f, role) = u /\ FocusRole(t, f, role) = f
    BY <1>2 DEF Retarget, FocusRole
  <2>2. f \in DOMAIN t /\ t[f].leaf
    BY DEF Tiles
  <2>3. DOMAIN u = DOMAIN t /\ u[f] = Leaf(role) /\ \A p \in DOMAIN t \ {f} : u[p] = t[p]
    BY <2>2
  <2> HIDE DEF u
  <2>4. u[f].leaf = TRUE /\ u[f].role = role
    BY <2>3 DEF Leaf
  <2>5. \A p \in DOMAIN t : u[p].leaf = t[p].leaf
    BY <1>0, <2>2, <2>3, <2>4 DEF Built
  <2>6. Built(u) /\ Tiles(u) = Tiles(t)
    BY <1>0, <2>3, <2>5, SameShape
  <2>7. \A p \in Tiles(t) : t[p].role # role
    BY <1>2 DEF Shows
  <2>8. Tiles(t) \subseteq DOMAIN t
    BY DEF Tiles
  <2>9. \A p \in Tiles(u) : u[p].role \in 0..(n - 1)
    BY <1>0, <2>3, <2>4, <2>6, <2>8 DEF Filled
  <2>10. ASSUME NEW p \in Tiles(u), NEW q \in Tiles(u), u[p].role = u[q].role PROVE p = q
    BY <1>0, <2>3, <2>4, <2>6, <2>7, <2>8, <2>10 DEF Filled
  <2>11. \A p \in DOMAIN u \ Tiles(u) : u[p].vert \in BOOLEAN /\ u[p].ratio \in MinRatio..MaxRatio
    BY <1>0, <2>3, <2>6 DEF Filled
  <2>12. Filled(u, n)
    BY <2>9, <2>10, <2>11 DEF Filled
  <2> QED BY <2>1, <2>6, <2>12 DEF Good
<1> QED BY <1>1, <1>2

LEMMA SplitKeeps ==
  ASSUME NEW t, NEW n \in Nat, Good(t, n), NEW f \in Tiles(t), NEW vert \in BOOLEAN,
         NEW role \in 0..(n - 1), Shows(t, role) = {}
  PROVE  Good(SplitTree(t, f, vert, role), n) /\ f \o <<"b">> \in Tiles(SplitTree(t, f, vert, role))
<1> DEFINE u == SplitTree(t, f, vert, role)
           a == Kid(f, "a")
           b == Kid(f, "b")
<1>0. Built(t) /\ Filled(t, n) /\ DOMAIN t \subseteq Path /\ f \in DOMAIN t /\ t[f].leaf /\ f \in Path
  BY DEF Good, Built, Tiles
<1>1. "a" \in Step /\ "b" \in Step /\ \A x \in Step : x = "a" \/ x = "b"
  BY DEF Step
<1>2. a \in Path /\ b \in Path /\ a # f /\ b # f /\ a # b /\ Len(a) = Len(f) + 1 /\ Len(b) = Len(f) + 1 /\ Len(f) \in Nat
  <2>1. Len(a) = Len(f) + 1 /\ Len(b) = Len(f) + 1 /\ a \in Path /\ b \in Path
    BY <1>0, <1>1, Kids
  <2>2. Len(f) \in Nat
    BY <1>0 DEF Path
  <2>3. a # b
    BY <1>0, <1>1, SameKid
  <2> QED BY <2>1, <2>2, <2>3
<1>3. a \notin DOMAIN t /\ b \notin DOMAIN t
  BY <1>0, <1>1 DEF Built
<1>4. DOMAIN u = DOMAIN t \cup {a, b} /\ u[f] = Fork(vert, 10) /\ u[a] = t[f] /\ u[b] = Leaf(role)
      /\ \A p \in DOMAIN t \ {f} : u[p] = t[p]
  BY <1>0, <1>2, <1>3 DEF SplitTree, Kid
<1> HIDE DEF u
<1>5. u[f].leaf = FALSE /\ u[f].vert = vert /\ u[f].ratio = 10 /\ u[b].leaf = TRUE /\ u[b].role = role
  BY <1>4 DEF Fork, Leaf
<1>6. Tiles(u) = (Tiles(t) \ {f}) \cup {a, b}
  BY <1>0, <1>2, <1>3, <1>4, <1>5 DEF Tiles
<1> HIDE DEF a, b
<1>7. Built(u)
  <2>1. DOMAIN u \subseteq Path /\ <<>> \in DOMAIN u
    BY <1>0, <1>2, <1>4 DEF Built
  <2>2. \E k \in Nat : \A p \in DOMAIN u : Len(p) <= k
    <3>1. PICK k \in Nat : \A p \in DOMAIN t : Len(p) <= k
      BY <1>0 DEF Built
    <3>2. \A p \in DOMAIN t : Len(p) \in Nat
      BY <1>0 DEF Path
    <3>3. \A p \in DOMAIN u : Len(p) <= k + 1
      BY <1>0, <1>2, <1>4, <3>1, <3>2
    <3> QED BY <3>3
  <2>3. \A p \in DOMAIN u : u[p].leaf \in BOOLEAN
    BY <1>0, <1>4, <1>5 DEF Built
  <2>4. ASSUME NEW p \in Path, NEW x \in Step
        PROVE  Kid(p, x) \in DOMAIN u <=> (p \in DOMAIN u /\ ~u[p].leaf)
    <3>1. Kid(p, x) \in DOMAIN t <=> (p \in DOMAIN t /\ ~t[p].leaf)
      BY <1>0 DEF Built
    <3>2. Kid(p, x) \in {a, b} <=> p = f
      <4>1. ASSUME Kid(p, x) \in {a, b} PROVE p = f
        BY <1>0, <1>1, <4>1, SameKid DEF a, b
      <4>2. ASSUME p = f PROVE Kid(p, x) \in {a, b}
        BY <1>1, <4>2 DEF a, b
      <4> QED BY <4>1, <4>2
    <3>3. CASE p = f
      BY <1>0, <1>4, <1>5, <3>2, <3>3
    <3>4. CASE p \in {a, b}
      <4>1. u[p].leaf
        BY <1>0, <1>4, <1>5, <3>4
      <4>2. Kid(p, x) \notin DOMAIN t /\ Kid(p, x) \notin {a, b}
        BY <1>2, <1>3, <3>1, <3>2, <3>4
      <4> QED BY <1>4, <4>1, <4>2
    <3>5. CASE p # f /\ p \notin {a, b}
      <4>1. Kid(p, x) \in DOMAIN u <=> Kid(p, x) \in DOMAIN t
        BY <1>4, <3>2, <3>5
      <4>2. p \in DOMAIN u <=> p \in DOMAIN t
        BY <1>4, <3>5
      <4>3. p \in DOMAIN t => u[p] = t[p]
        BY <1>4, <3>5
      <4> QED BY <3>1, <4>1, <4>2, <4>3
    <3> QED BY <3>3, <3>4, <3>5
  <2> QED BY <2>1, <2>2, <2>3, <2>4 DEF Built
<1>8. Filled(u, n)
  <2>1. \A p \in Tiles(t) : t[p].role # role /\ t[p].role \in 0..(n - 1)
    BY <1>0 DEF Shows, Filled
  <2>2. Tiles(t) \subseteq DOMAIN t /\ f \in Tiles(t)
    BY DEF Tiles
  <2>3. \A p \in Tiles(t) \ {f} : u[p] = t[p]
    BY <1>4, <2>2
  <2>4. \A p \in Tiles(u) : u[p].role \in 0..(n - 1)
    BY <1>4, <1>5, <1>6, <2>1, <2>2, <2>3
  <2>5. ASSUME NEW p \in Tiles(u), NEW q \in Tiles(u), u[p].role = u[q].role PROVE p = q
    <3>1. \A x, y \in Tiles(t) : t[x].role = t[y].role => x = y
      BY <1>0 DEF Filled
    <3>2. p \in (Tiles(t) \ {f}) \cup {a, b} /\ q \in (Tiles(t) \ {f}) \cup {a, b}
      BY <1>6
    <3>3. u[a].role = t[f].role /\ u[b].role = role
      BY <1>4, <1>5
    <3> QED BY <2>1, <2>2, <2>3, <2>5, <3>1, <3>2, <3>3
  <2>6. \A p \in DOMAIN u \ Tiles(u) : u[p].vert \in BOOLEAN /\ u[p].ratio \in MinRatio..MaxRatio
    <3>1. 10 \in MinRatio..MaxRatio
      BY DEF MinRatio, MaxRatio
    <3>2. \A p \in DOMAIN t \ Tiles(t) : t[p].vert \in BOOLEAN /\ t[p].ratio \in MinRatio..MaxRatio
      BY <1>0 DEF Filled
    <3> TAKE p \in DOMAIN u \ Tiles(u)
    <3>3. p = f \/ (p \in DOMAIN t \ Tiles(t) /\ p # f)
      BY <1>4, <1>6
    <3> QED BY <1>4, <1>5, <3>1, <3>2, <3>3
  <2> QED BY <2>4, <2>5, <2>6 DEF Filled
<1>9. f \o <<"b">> \in Tiles(u)
  BY <1>6 DEF b, Kid
<1> QED BY <1>7, <1>8, <1>9 DEF Good, u

\* What is not below the fork stays, what is below the sibling takes its place
LEMMA CloseTreeIs ==
  ASSUME NEW t, DOMAIN t \subseteq Path, NEW up \in Path, NEW x \in Step
  PROVE  LET u == CloseTree(t, Kid(up, x))
             keep == Kid(up, Other(x))
         IN /\ DOMAIN u \subseteq Path
            /\ \A p \in Path : ~Below(up, p) => (p \in DOMAIN u <=> p \in DOMAIN t)
            /\ \A p \in Path : ~Below(up, p) /\ p \in DOMAIN t => u[p] = t[p]
            /\ \A r \in Path : up \o r \in DOMAIN u <=> keep \o r \in DOMAIN t
            /\ \A r \in Path : keep \o r \in DOMAIN t => u[up \o r] = t[keep \o r]
<1> DEFINE f == Kid(up, x)
           keep == Kid(up, Other(x))
           u == CloseTree(t, f)
           rest == {p \in DOMAIN t : ~Below(up, p)}
           moved == {up \o Tail0(keep, p) : p \in {q \in DOMAIN t : Below(keep, q)}}
<1>1. Parent(f) = up /\ Sibling(f) = keep /\ keep \in Path
  BY Kids, OtherStep
<1>2. u = [p \in rest \cup moved |-> IF p \in rest THEN t[p] ELSE t[keep \o Tail0(up, p)]]
  BY <1>1, Zenon DEF CloseTree
<1> HIDE DEF f, keep, u
<1>3. \A r \in Path : up \o r \in Path /\ Below(up, up \o r) /\ Tail0(up, up \o r) = r
  BY BelowJoined, Joined
<1>4. \A r \in Path : keep \o r \in Path /\ Below(keep, keep \o r) /\ Tail0(keep, keep \o r) = r
  BY <1>1, BelowJoined, Joined
<1>5. ASSUME NEW p \in moved PROVE \E r \in Path : p = up \o r /\ keep \o r \in DOMAIN t
  <2>1. PICK q \in DOMAIN t : Below(keep, q) /\ p = up \o Tail0(keep, q)
    BY <1>5, Zenon
  <2>2. Tail0(keep, q) \in Path /\ q = keep \o Tail0(keep, q)
    BY <1>1, <2>1, BelowIs, Zenon
  <2> QED BY <2>1, <2>2, Zenon
<1>6. ASSUME NEW r \in Path, keep \o r \in DOMAIN t PROVE up \o r \in moved
  <2>1. Below(keep, keep \o r) /\ up \o Tail0(keep, keep \o r) = up \o r
    BY <1>4
  <2> QED BY <1>6, <2>1, Zenon
<1>7. \A r \in Path : up \o r \notin rest
  BY <1>3
<1>8. ASSUME NEW r \in Path, up \o r \in moved PROVE keep \o r \in DOMAIN t
  <2>1. PICK s \in Path : up \o r = up \o s /\ keep \o s \in DOMAIN t
    BY <1>5, <1>8, Zenon
  <2>2. r = s
    BY <1>3, <2>1, Zenon
  <2> QED BY <2>1, <2>2
<1>9. \A p \in moved : Below(up, p) /\ p \in Path
  BY <1>3, <1>5, Zenon
<1>10. rest \subseteq Path /\ \A p \in Path : p \in rest <=> (p \in DOMAIN t /\ ~Below(up, p))
  OBVIOUS
<1> HIDE DEF rest, moved
<1>11. DOMAIN u = rest \cup moved /\ (\A p \in rest : u[p] = t[p])
       /\ \A p \in moved : p \notin rest => u[p] = t[keep \o Tail0(up, p)]
  BY <1>2
<1>12. DOMAIN u \subseteq Path
  BY <1>9, <1>10, <1>11
<1>13. \A p \in Path : ~Below(up, p) => (p \in DOMAIN u <=> p \in DOMAIN t)
  BY <1>9, <1>10, <1>11
<1>14. \A p \in Path : ~Below(up, p) /\ p \in DOMAIN t => u[p] = t[p]
  BY <1>10, <1>11
<1>15. \A r \in Path : up \o r \in DOMAIN u <=> keep \o r \in DOMAIN t
  BY <1>6, <1>7, <1>8, <1>11
<1>16. ASSUME NEW r \in Path, keep \o r \in DOMAIN t PROVE u[up \o r] = t[keep \o r]
  <2>1. up \o r \in moved /\ up \o r \notin rest
    BY <1>6, <1>7, <1>16
  <2>2. u[up \o r] = t[keep \o Tail0(up, up \o r)]
    BY <1>11, <2>1
  <2> QED BY <1>3, <2>2
<1> QED BY <1>12, <1>13, <1>14, <1>15, <1>16 DEF f, keep, u

\* Where a node of the closed tree was before
From(up, keep, p) == IF Below(up, p) THEN keep \o Tail0(up, p) ELSE p

LEMMA CloseKeeps ==
  ASSUME NEW t, NEW n \in Nat, Good(t, n), NEW f \in Tiles(t), f # <<>>
  PROVE  /\ Good(CloseTree(t, f), n) /\ Parent(f) \in DOMAIN CloseTree(t, f)
         /\ {CloseTree(t, f)[p].role : p \in Tiles(CloseTree(t, f))} = {t[p].role : p \in Tiles(t)} \ {t[f].role}
<1>0. Built(t) /\ Filled(t, n) /\ DOMAIN t \subseteq Path /\ f \in DOMAIN t /\ t[f].leaf /\ f \in Path
  BY DEF Good, Built, Tiles
<1>1. PICK up \in Path, x \in Step : f = Kid(up, x)
  BY <1>0, NotRoot, Zenon
<1> DEFINE y == Other(x)
           keep == Kid(up, y)
           u == CloseTree(t, f)
           D == DOMAIN t
<1>2. y \in Step /\ y # x /\ keep \in Path /\ Len(keep) = Len(up) + 1 /\ Len(up) \in Nat /\ Parent(f) = up
  BY <1>1, OtherStep, Kids DEF Path
<1>3. up \in D /\ ~t[up].leaf
  BY <1>0, <1>1 DEF Built
<1>4. keep \in D
  BY <1>0, <1>2, <1>3 DEF Built
<1>5. /\ DOMAIN u \subseteq Path
      /\ \A p \in Path : ~Below(up, p) => (p \in DOMAIN u <=> p \in D)
      /\ \A p \in Path : ~Below(up, p) /\ p \in D => u[p] = t[p]
      /\ \A r \in Path : up \o r \in DOMAIN u <=> keep \o r \in D
      /\ \A r \in Path : keep \o r \in D => u[up \o r] = t[keep \o r]
  BY <1>0, <1>1, CloseTreeIs
<1> HIDE DEF y, u
<1>6. \A r \in Path : /\ up \o r \in Path /\ Below(up, up \o r) /\ Tail0(up, up \o r) = r
                      /\ Len(up \o r) = Len(up) + Len(r)
  BY BelowJoined, Joined
<1>7. \A r \in Path : /\ keep \o r \in Path /\ Tail0(keep, keep \o r) = r
                      /\ Len(keep \o r) = Len(keep) + Len(r)
  BY <1>2, BelowJoined, Joined
<1>8. \A p \in Path : Below(up, p) => Tail0(up, p) \in Path /\ p = up \o Tail0(up, p)
  BY BelowIs
<1>9. <<>> \in Path /\ up \o <<>> = up /\ keep \o <<>> = keep
  BY <1>2, Joined DEF Path
<1> HIDE DEF keep
<1>10. up \in DOMAIN u
  BY <1>4, <1>5, <1>9
<1>11. ASSUME NEW q \in Path, NEW z \in Step
       PROVE  Kid(q, z) \in DOMAIN u <=> (q \in DOMAIN u /\ ~u[q].leaf)
  <2>0. Kid(q, z) \in Path
    BY Kids
  <2>1. Kid(q, z) \in D <=> (q \in D /\ ~t[q].leaf)
    BY <1>0 DEF Built
  <2>2. CASE Below(up, q)
    <3>1. PICK r \in Path : q = up \o r
      BY <1>8, <2>2, Zenon
    <3>2. Kid(q, z) = up \o Kid(r, z) /\ Kid(keep \o r, z) = keep \o Kid(r, z) /\ Kid(r, z) \in Path
      <4>1. up \o Kid(r, z) = Kid(up \o r, z)
        BY JoinedKid, Zenon
      <4>2. keep \o Kid(r, z) = Kid(keep \o r, z)
        BY <1>2, JoinedKid, Zenon
      <4>3. Kid(r, z) \in Path
        BY Kids
      <4> QED BY <3>1, <4>1, <4>2, <4>3
    <3>3. Kid(q, z) \in DOMAIN u <=> Kid(keep \o r, z) \in D
      BY <1>5, <3>2
    <3>4. Kid(keep \o r, z) \in D <=> (keep \o r \in D /\ ~t[keep \o r].leaf)
      BY <1>0, <1>7 DEF Built
    <3>5. q \in DOMAIN u <=> keep \o r \in D
      BY <1>5, <3>1
    <3>6. keep \o r \in D => u[q] = t[keep \o r]
      BY <1>5, <3>1
    <3> QED BY <3>3, <3>4, <3>5, <3>6
  <2>3. CASE ~Below(up, q) /\ Kid(q, z) = up
    <3>1. q \in D /\ ~t[q].leaf
      BY <1>3, <2>1, <2>3
    <3>2. q \in DOMAIN u /\ u[q] = t[q]
      BY <1>5, <2>3, <3>1
    <3> QED BY <1>10, <2>3, <3>1, <3>2
  <2>4. CASE ~Below(up, q) /\ Kid(q, z) # up
    <3>1. ~Below(up, Kid(q, z))
      <4> SUFFICES ASSUME Below(up, Kid(q, z)) PROVE FALSE
        OBVIOUS
      <4>1. PICK r \in Path : Kid(q, z) = up \o r
        BY <1>8, <2>0, Zenon
      <4>2. r # <<>>
        BY <1>9, <2>4, <4>1
      <4>3. PICK s \in Path, w \in Step : r = Kid(s, w)
        BY <4>2, NotRoot, Zenon
      <4>4. Kid(q, z) = Kid(up \o s, w) /\ up \o s \in Path
        BY <1>6, <4>1, <4>3, JoinedKid
      <4>5. q = up \o s
        BY <4>4, SameKid, Zenon
      <4> QED BY <1>6, <2>4, <4>5
    <3>2. Kid(q, z) \in DOMAIN u <=> Kid(q, z) \in D
      BY <1>5, <2>0, <3>1
    <3>3. q \in DOMAIN u <=> q \in D
      BY <1>5, <2>4
    <3>4. q \in D => u[q] = t[q]
      BY <1>5, <2>4
    <3> QED BY <2>1, <3>2, <3>3, <3>4
  <2> QED BY <2>2, <2>3, <2>4
<1> DEFINE from(p) == From(up, keep, p)
<1>12. \A r \in Path : from(up \o r) = keep \o r
  BY <1>6 DEF From
<1>13. ASSUME NEW p \in DOMAIN u PROVE from(p) \in D /\ u[p] = t[from(p)]
  <2>1. p \in Path
    BY <1>5
  <2>2. CASE Below(up, p)
    <3>1. PICK r \in Path : p = up \o r
      BY <1>8, <2>1, <2>2, Zenon
    <3> QED BY <1>5, <1>12, <3>1
  <2>3. CASE ~Below(up, p)
    BY <1>5, <2>1, <2>3 DEF From
  <2> QED BY <2>2, <2>3
<1>14. \A r \in Path : Below(up, keep \o r)
  <2> TAKE r \in Path
  <2>1. <<y>> \in Path /\ <<y>> \o r \in Path
    <3>1. <<y>> \in Path
      BY <1>2 DEF Path
    <3> QED BY <3>1, Joined
  <2>2. keep \o r = up \o (<<y>> \o r)
    BY <2>1, ConcatAssociative DEF keep, Kid, Path
  <2> QED BY <1>6, <2>1, <2>2
<1>15. ASSUME NEW p \in DOMAIN u, NEW q \in DOMAIN u, from(p) = from(q) PROVE p = q
  <2>1. p \in Path /\ q \in Path
    BY <1>5
  <2>2. CASE Below(up, p) /\ Below(up, q)
    <3>1. PICK r \in Path : p = up \o r
      BY <1>8, <2>1, <2>2, Zenon
    <3>2. PICK s \in Path : q = up \o s
      BY <1>8, <2>1, <2>2, Zenon
    <3>3. keep \o r = keep \o s
      BY <1>12, <1>15, <3>1, <3>2
    <3>4. r = s
      BY <1>7, <3>3, Zenon
    <3> QED BY <3>1, <3>2, <3>4
  <2>3. CASE ~Below(up, p) /\ ~Below(up, q)
    BY <1>15, <2>3 DEF From
  <2>4. CASE Below(up, p) /\ ~Below(up, q)
    <3>1. PICK r \in Path : p = up \o r
      BY <1>8, <2>1, <2>4, Zenon
    <3>2. keep \o r = q
      BY <1>12, <1>15, <2>4, <3>1 DEF From
    <3> QED BY <1>14, <2>4, <3>2
  <2>5. CASE ~Below(up, p) /\ Below(up, q)
    <3>1. PICK r \in Path : q = up \o r
      BY <1>8, <2>1, <2>5, Zenon
    <3>2. keep \o r = p
      BY <1>12, <1>15, <2>5, <3>1 DEF From
    <3> QED BY <1>14, <2>5, <3>2
  <2> QED BY <2>2, <2>3, <2>4, <2>5
<1>16. <<>> \in DOMAIN u
  <2>1. CASE Below(up, <<>>)
    <3>1. PICK r \in Path : <<>> = up \o r
      BY <1>8, <1>9, <2>1, Zenon
    <3>2. Len(up \o r) = Len(up) + Len(r) /\ Len(r) \in Nat
      BY <1>6 DEF Path
    <3>3. Len(up) = 0
      BY <1>2, <3>1, <3>2
    <3>4. up = <<>>
      BY <3>3 DEF Path
    <3> QED BY <1>10, <3>4
  <2>2. CASE ~Below(up, <<>>)
    BY <1>0, <1>5, <1>9, <2>2 DEF Built
  <2> QED BY <2>1, <2>2
<1>17. \E k \in Nat : \A p \in DOMAIN u : Len(p) <= k
  <2>1. PICK k \in Nat : \A p \in D : Len(p) <= k
    BY <1>0 DEF Built
  <2>2. ASSUME NEW p \in DOMAIN u PROVE Len(p) <= k
    <3>1. p \in Path /\ Len(p) \in Nat
      BY <1>5 DEF Path
    <3>2. CASE Below(up, p)
      <4>1. PICK r \in Path : p = up \o r
        BY <1>8, <3>1, <3>2, Zenon
      <4>2. keep \o r \in D
        BY <1>5, <4>1
      <4>3. Len(keep \o r) <= k /\ Len(keep \o r) = Len(keep) + Len(r) /\ Len(p) = Len(up) + Len(r) /\ Len(r) \in Nat
        <5>1. Len(keep \o r) <= k
          BY <2>1, <4>2
        <5>2. Len(keep \o r) = Len(keep) + Len(r) /\ Len(up \o r) = Len(up) + Len(r)
          BY <1>6, <1>7
        <5>3. Len(r) \in Nat
          BY DEF Path
        <5> QED BY <4>1, <5>1, <5>2, <5>3
      <4> QED BY <1>2, <4>3
    <3>3. CASE ~Below(up, p)
      BY <1>5, <2>1, <3>1, <3>3
    <3> QED BY <3>2, <3>3
  <2> QED BY <2>2
<1>18. Built(u)
  <2>1. \A p \in DOMAIN u : u[p].leaf \in BOOLEAN
    BY <1>0, <1>13 DEF Built
  <2> QED BY <1>5, <1>11, <1>16, <1>17, <2>1 DEF Built
<1>19. Filled(u, n)
  <2>0. \A p \in Tiles(u) : p \in DOMAIN u /\ from(p) \in Tiles(t) /\ u[p] = t[from(p)]
    BY <1>13 DEF Tiles
  <2>1. \A p \in Tiles(u) : u[p].role \in 0..(n - 1)
    BY <1>0, <2>0 DEF Filled
  <2>2. ASSUME NEW p \in Tiles(u), NEW q \in Tiles(u), u[p].role = u[q].role PROVE p = q
    <3>1. from(p) = from(q)
      BY <1>0, <2>0, <2>2 DEF Filled
    <3> QED BY <1>15, <2>0, <3>1
  <2>3. ASSUME NEW p \in DOMAIN u \ Tiles(u) PROVE u[p].vert \in BOOLEAN /\ u[p].ratio \in MinRatio..MaxRatio
    <3>1. from(p) \in DOMAIN t \ Tiles(t) /\ u[p] = t[from(p)]
      BY <1>13 DEF Tiles
    <3> QED BY <1>0, <3>1 DEF Filled
  <2> QED BY <2>1, <2>2, <2>3 DEF Filled
<1>20. {u[p].role : p \in Tiles(u)} = {t[p].role : p \in Tiles(t)} \ {t[f].role}
  <2>0. \A p \in Tiles(u) : p \in DOMAIN u /\ from(p) \in Tiles(t) /\ u[p] = t[from(p)]
    BY <1>13 DEF Tiles
  <2>1. <<x>> \in Path /\ f = up \o <<x>>
    BY <1>1 DEF Path, Kid
  <2>2. \A r \in Path : keep \o r # f
    <3> SUFFICES ASSUME NEW r \in Path, keep \o r = f PROVE FALSE
      OBVIOUS
    <3>0. keep \o r = f
      OBVIOUS
    <3>1. Len(f) = Len(keep) + Len(r) /\ Len(f) = Len(up) + 1 /\ Len(r) \in Nat
      <4>1. Len(keep \o r) = Len(keep) + Len(r)
        BY <1>7
      <4>2. Len(Kid(up, x)) = Len(up) + 1
        BY Kids
      <4>3. Len(r) \in Nat
        BY DEF Path
      <4> QED BY <1>1, <3>0, <4>1, <4>2, <4>3
    <3>2. r = <<>>
      <4>1. Len(r) = 0
        BY <1>2, <3>1
      <4> QED BY <4>1 DEF Path
    <3>3. keep = f
      BY <1>9, <3>2
    <3> QED BY <1>1, <1>2, <3>3, SameKid DEF keep
  <2>3. \A p \in Tiles(u) : from(p) # f
    <3> TAKE p \in Tiles(u)
    <3>1. CASE Below(up, p)
      <4>1. PICK r \in Path : p = up \o r
        BY <1>5, <1>8, <2>0, <3>1, Zenon
      <4> QED BY <1>12, <2>2, <4>1
    <3>2. CASE ~Below(up, p)
      <4>1. from(p) = p
        BY <3>2 DEF From
      <4> QED BY <1>6, <2>1, <3>2, <4>1
    <3> QED BY <3>1, <3>2
  <2>4. ASSUME NEW q \in Tiles(t), q # f PROVE \E p \in Tiles(u) : u[p] = t[q]
    <3>1. q \in D /\ t[q].leaf /\ q \in Path
      BY <1>0 DEF Tiles
    <3>2. CASE ~Below(up, q)
      BY <1>5, <3>1, <3>2 DEF Tiles
    <3>3. CASE Below(up, q)
      <4>1. PICK r \in Path : q = up \o r
        BY <1>8, <3>1, <3>3, Zenon
      <4>2. PICK s \in Path : q = keep \o s
        <5>1. r # <<>>
          BY <1>3, <1>9, <3>1, <4>1
        <5>2. PICK z \in Step, s \in Path : q = Kid(up, z) \o s
          <6>1. Head(r) \in Step /\ Tail(r) \in Path /\ r = <<Head(r)>> \o Tail(r)
            BY <5>1 DEF Path
          <6>2. <<Head(r)>> \in Path
            BY <6>1 DEF Path
          <6>3. q = (up \o <<Head(r)>>) \o Tail(r)
            BY <4>1, <6>1, <6>2, ConcatAssociative DEF Path
          <6> QED BY <6>1, <6>3 DEF Kid
        <5>3. z = y
          <6> SUFFICES ASSUME z # y PROVE FALSE
            OBVIOUS
          <6>1. z = x
            BY <5>2 DEF y, Other, Step
          <6>2. q = f \o s
            BY <1>1, <5>2, <6>1
          <6>3. Below(f, q) /\ f # q
            BY <1>0, <2>4, <6>2, BelowJoined
          <6> QED BY <1>0, <3>1, <6>3, Ancestors
        <5> QED BY <5>2, <5>3 DEF keep
      <4>3. u[up \o s] = t[q] /\ up \o s \in DOMAIN u
        BY <1>5, <3>1, <4>2
      <4> QED BY <3>1, <4>3 DEF Tiles
    <3> QED BY <3>2, <3>3
  <2>5. \A p \in Tiles(t) : t[p].role = t[f].role => p = f
    BY <1>0 DEF Filled
  <2>6. \A p \in Tiles(u) : u[p].role \in {t[q].role : q \in Tiles(t)} \ {t[f].role}
    BY <2>0, <2>3, <2>5
  <2>7. \A q \in Tiles(t) : t[q].role # t[f].role => t[q].role \in {u[p].role : p \in Tiles(u)}
    BY <2>4
  <2> QED BY <2>6, <2>7
<1> QED BY <1>2, <1>10, <1>18, <1>19, <1>20 DEF Good, u

-----------------------------------------------------------------------------
(* Orders on finite sets, and the order of the tiles *)

Under(S, R, c) == {e \in S : <<e, c>> \in R}
Orders(S, R) ==
  /\ \A c \in S : <<c, c>> \notin R
  /\ \A c, d, e \in S : <<c, d>> \in R /\ <<d, e>> \in R => <<c, e>> \in R
  /\ \A c, d \in S : c # d => <<c, d>> \in R \/ <<d, c>> \in R

\* How many come before an element tells its place
LEMMA Ranks ==
  ASSUME NEW S, IsFiniteSet(S), NEW R, Orders(S, R)
  PROVE  /\ Cardinality(S) \in Nat
         /\ \A c \in S : Cardinality(Under(S, R, c)) \in 0..(Cardinality(S) - 1)
         /\ \A c, d \in S : Cardinality(Under(S, R, c)) = Cardinality(Under(S, R, d)) => c = d
         /\ \A c, d \in S : <<c, d>> \in R => Cardinality(Under(S, R, c)) < Cardinality(Under(S, R, d))
         /\ \A k \in 1..Cardinality(S) : \E c \in S : Cardinality(Under(S, R, c)) = k - 1
<1> DEFINE U(c) == Under(S, R, c)
           rank(c) == Cardinality(U(c))
           n == Cardinality(S)
           f == [c \in S |-> rank(c) + 1]
<1>1. n \in Nat
  BY FS_CardinalityType
<1>2. \A c \in S : U(c) \in SUBSET S /\ c \notin U(c)
  BY DEF Under, Orders
<1>3. \A c \in S : IsFiniteSet(U(c)) /\ rank(c) \in Nat
  BY <1>2, FS_Subset, FS_CardinalityType
<1>4. \A c \in S : rank(c) < n
  <2> TAKE c \in S
  <2>1. rank(c) <= n /\ (n = rank(c) => S = U(c))
    BY <1>2, FS_Subset
  <2>2. S # U(c)
    BY <1>2
  <2>3. rank(c) # n
    BY <2>1, <2>2
  <2>4. rank(c) \in Nat
    BY <1>3
  <2> HIDE DEF rank, n
  <2> QED BY <1>1, <2>1, <2>3, <2>4
<1>5. ASSUME NEW c \in S, NEW d \in S, <<c, d>> \in R PROVE rank(c) < rank(d) /\ rank(c) # rank(d)
  <2>1. U(c) \in SUBSET U(d)
    BY <1>5 DEF Under, Orders
  <2>2. c \in U(d) /\ c \notin U(c)
    BY <1>2, <1>5 DEF Under
  <2>3. rank(c) <= rank(d) /\ (rank(d) = rank(c) => U(d) = U(c))
    BY <1>3, <2>1, FS_Subset
  <2>4. rank(c) \in Nat /\ rank(d) \in Nat /\ rank(c) # rank(d)
    BY <1>3, <2>2, <2>3
  <2> HIDE DEF rank, U
  <2> QED BY <2>3, <2>4
<1>6. \A c, d \in S : rank(c) = rank(d) => c = d
  BY <1>5 DEF Orders
<1> HIDE DEF rank, n
<1>7. \A c \in S : rank(c) \in 0..(n - 1) /\ rank(c) + 1 \in 1..n
  BY <1>1, <1>3, <1>4 DEF rank
<1>8. f \in Injection(S, 1..n)
  <2>1. f \in [S -> 1..n]
    BY <1>7
  <2>2. \A c, d \in S : f[c] = f[d] => c = d
    <3> TAKE c \in S, d \in S
    <3>1. f[c] = rank(c) + 1 /\ f[d] = rank(d) + 1
      OBVIOUS
    <3>2. rank(c) \in Int /\ rank(d) \in Int
      BY <1>7
    <3> HIDE DEF f
    <3>3. f[c] = f[d] => rank(c) = rank(d)
      BY <3>1, <3>2
    <3> QED BY <1>6, <3>3
  <2> QED BY <2>1, <2>2 DEF Injection, IsInjective
<1>9. IsFiniteSet(1..n) /\ Cardinality(1..n) = n
  <2>1. IsFiniteSet(1..n) /\ Cardinality(1..n) = IF 1 > n THEN 0 ELSE n - 1 + 1
    BY <1>1, FS_Interval
  <2> QED BY <1>1, <2>1
<1>10. f \in Surjection(S, 1..n)
  BY <1>8, <1>9, FS_Injection DEF n
<1>11. \A k \in 1..n : \E c \in S : f[c] = k
  BY <1>10 DEF Surjection
<1>12. ASSUME NEW k \in 1..n PROVE \E c \in S : rank(c) = k - 1
  <2>1. PICK c \in S : f[c] = k
    BY <1>11
  <2>2. rank(c) + 1 = k /\ rank(c) \in Int
    BY <1>7, <2>1
  <2>3. rank(c) = k - 1
    BY <1>1, <2>2
  <2> QED BY <2>3
<1> QED BY <1>1, <1>5, <1>6, <1>7, <1>12 DEF rank, n

\* A finite set that is not empty has a first element
LEMMA FirstOf ==
  ASSUME NEW S, IsFiniteSet(S), NEW m \in S, NEW R, Orders(S, R)
  PROVE  \E c \in S : \A e \in S \ {c} : <<c, e>> \in R
<1>1. Cardinality(S) \in Nat /\ \A k \in 1..Cardinality(S) : \E c \in S : Cardinality(Under(S, R, c)) = k - 1
  BY Ranks
<1>2. Cardinality(S) # 0
  BY FS_EmptySet
<1>3. 1 \in 1..Cardinality(S)
  BY <1>1, <1>2
<1>4. PICK c \in S : Cardinality(Under(S, R, c)) = 0
  BY <1>1, <1>3
<1>5. Under(S, R, c) \in SUBSET S
  BY DEF Under
<1>6. Under(S, R, c) = {}
  BY <1>4, <1>5, FS_Subset, FS_EmptySet
<1>7. \A e \in S \ {c} : <<e, c>> \notin R
  BY <1>6 DEF Under
<1> QED BY <1>7 DEF Orders

\* Where two paths part
Parts(p, q, k) ==
  /\ k \in Nat /\ 1 <= k /\ k <= Len(p) /\ k <= Len(q)
  /\ \A j \in 1..(k - 1) : p[j] = q[j]
  /\ p[k] = "a" /\ q[k] = "b"

LEMMA BeforeParts ==
  ASSUME NEW p \in Path, NEW q \in Path
  PROVE  /\ Before(p, q) => \E k \in Nat : Parts(p, q, k)
         /\ \A k \in Nat : Parts(p, q, k) => Before(p, q)
<1>0. Len(p) \in Nat /\ Len(q) \in Nat
  BY DEF Path
<1>1. ASSUME Before(p, q) PROVE \E k \in Nat : Parts(p, q, k)
  <2>1. PICK k \in 1..Len(p) : k <= Len(q) /\ SubSeq(p, 1, k - 1) = SubSeq(q, 1, k - 1) /\ p[k] = "a" /\ q[k] = "b"
    BY <1>1 DEF Before
  <2> DEFINE n == k - 1
  <2>2. n \in Int /\ 0 <= n /\ n <= Len(p) /\ n <= Len(q)
    BY <1>0, <2>1
  <2>3. SubSeq(p, 1, n) = SubSeq(q, 1, n)
    BY <2>1
  <2> HIDE DEF n
  <2>4. \A j \in 1..n : p[j] = q[j]
    BY <2>2, <2>3, SameUpto
  <2>5. k \in Nat /\ 1 <= k /\ k <= Len(p)
    BY <1>0
  <2> QED BY <2>1, <2>4, <2>5 DEF n, Parts
<1>2. ASSUME NEW k \in Nat, Parts(p, q, k) PROVE Before(p, q)
  <2> DEFINE n == k - 1
  <2>1. k \in 1..Len(p) /\ k <= Len(q) /\ p[k] = "a" /\ q[k] = "b"
    BY <1>0, <1>2 DEF Parts
  <2>2. n \in Int /\ 0 <= n /\ n <= Len(p) /\ n <= Len(q)
    BY <1>0, <2>1
  <2>3. \A j \in 1..n : p[j] = q[j]
    BY <1>2 DEF Parts
  <2> HIDE DEF n
  <2>4. SubSeq(p, 1, n) = SubSeq(q, 1, n)
    BY <2>2, <2>3, SameUpto
  <2> QED BY <2>1, <2>4 DEF n, Before
<1> QED BY <1>1, <1>2

LEMMA BeforeOrders ==
  ASSUME NEW p \in Path, NEW q \in Path
  PROVE  /\ ~Before(p, p)
         /\ \A r \in Path : Before(p, q) /\ Before(q, r) => Before(p, r)
         /\ Below(p, q) \/ Below(q, p) \/ Before(p, q) \/ Before(q, p)
<1>0. Len(p) \in Nat /\ Len(q) \in Nat
  BY DEF Path
<1>1. ~Before(p, p)
  BY BeforeParts DEF Parts
<1>2. ASSUME NEW r \in Path, Before(p, q), Before(q, r) PROVE Before(p, r)
  <2>1. PICK k \in Nat : Parts(p, q, k)
    BY <1>2, BeforeParts
  <2>2. PICK j \in Nat : Parts(q, r, j)
    BY <1>2, BeforeParts
  <2>3. Len(r) \in Nat
    BY DEF Path
  <2>4. CASE k < j
    <3>1. Parts(p, r, k)
      <4>1. k <= Len(r) /\ k \in 1..(j - 1)
        BY <1>0, <2>1, <2>2, <2>3, <2>4 DEF Parts
      <4>2. q[k] = r[k] /\ \A i \in 1..(k - 1) : q[i] = r[i]
        BY <2>2, <2>4, <4>1 DEF Parts
      <4> QED BY <2>1, <4>1, <4>2 DEF Parts
    <3> QED BY <3>1, BeforeParts
  <2>5. CASE j < k
    <3>1. Parts(p, r, j)
      <4>1. j <= Len(p) /\ j \in 1..(k - 1)
        BY <1>0, <2>1, <2>2, <2>3, <2>5 DEF Parts
      <4>2. p[j] = q[j] /\ \A i \in 1..(j - 1) : p[i] = q[i]
        BY <2>1, <2>5, <4>1 DEF Parts
      <4> QED BY <2>2, <4>1, <4>2 DEF Parts
    <3> QED BY <3>1, BeforeParts
  <2>6. k # j
    BY <2>1, <2>2 DEF Parts
  <2> QED BY <2>4, <2>5, <2>6
<1>3. ASSUME ~Below(p, q), ~Below(q, p) PROVE Before(p, q) \/ Before(q, p)
  <2> DEFINE S == {k \in Nat : 1 <= k /\ k <= Len(p) /\ k <= Len(q) /\ p[k] # q[k]}
  <2>1. \E k \in S : TRUE
    <3> SUFFICES ASSUME S = {} PROVE FALSE
      BY Zenon
    <3>1. \A k \in Nat : 1 <= k /\ k <= Len(p) /\ k <= Len(q) => p[k] = q[k]
      OBVIOUS
    <3>2. CASE Len(p) <= Len(q)
      <4>1. \A j \in 1..Len(p) : p[j] = q[j]
        BY <1>0, <3>1, <3>2
      <4>2. SubSeq(p, 1, Len(p)) = SubSeq(q, 1, Len(p))
        BY <1>0, <3>2, <4>1, SameUpto
      <4> QED BY <1>3, <3>2, <4>2 DEF Below, IsPrefix
    <3>3. CASE Len(q) <= Len(p)
      <4>1. \A j \in 1..Len(q) : q[j] = p[j]
        BY <1>0, <3>1, <3>3
      <4>2. SubSeq(q, 1, Len(q)) = SubSeq(p, 1, Len(q))
        BY <1>0, <3>3, <4>1, SameUpto
      <4> QED BY <1>3, <3>3, <4>2 DEF Below, IsPrefix
    <3> QED BY <1>0, <3>2, <3>3
  <2>2. PICK k \in S : \A j \in S : k <= j
    <3>1. S \subseteq Nat
      OBVIOUS
    <3> QED BY <2>1, <3>1, LeastOf
  <2>3. k \in Nat /\ 1 <= k /\ k <= Len(p) /\ k <= Len(q) /\ p[k] # q[k]
    OBVIOUS
  <2>4. \A j \in 1..(k - 1) : p[j] = q[j]
    <3> SUFFICES ASSUME NEW j \in 1..(k - 1), p[j] # q[j] PROVE FALSE
      OBVIOUS
    <3>1. j \in S /\ ~(k <= j)
      BY <1>0, <2>3
    <3> QED BY <2>2, <3>1
  <2>5. p[k] \in Step /\ q[k] \in Step
    BY <1>0, <2>3 DEF Path
  <2>6. Parts(p, q, k) \/ Parts(q, p, k)
    BY <2>3, <2>4, <2>5 DEF Parts, Step
  <2> QED BY <2>3, <2>6, BeforeParts
<1> QED BY <1>1, <1>2, <1>3

Ordered(t) == {e \in Tiles(t) \X Tiles(t) : Before(e[1], e[2])}

LEMMA TileOrder ==
  ASSUME NEW t, NEW n \in Nat, Good(t, n)
  PROVE  IsFiniteSet(Tiles(t)) /\ Orders(Tiles(t), Ordered(t)) /\ \E p \in Tiles(t) : TRUE
<1>0. Built(t) /\ Filled(t, n) /\ Tiles(t) \subseteq DOMAIN t /\ DOMAIN t \subseteq Path /\ <<>> \in DOMAIN t
  BY DEF Good, Built, Tiles
<1>1. IsFiniteSet(Tiles(t))
  <2> DEFINE f == [p \in Tiles(t) |-> t[p].role]
  <2>1. f \in [Tiles(t) -> 0..(n - 1)]
    BY <1>0 DEF Filled
  <2>2. \A p, q \in Tiles(t) : f[p] = f[q] => p = q
    BY <1>0 DEF Filled
  <2>3. f \in Injection(Tiles(t), 0..(n - 1))
    BY <2>1, <2>2 DEF Injection, IsInjective
  <2>4. IsFiniteSet(0..(n - 1))
    BY FS_Interval
  <2> QED BY <2>3, <2>4, FS_Injection
<1>2. ASSUME NEW p \in Tiles(t), NEW q \in Tiles(t), p # q PROVE ~Below(p, q)
  <2>1. p \in Path /\ t[p].leaf /\ q \in DOMAIN t
    BY <1>0 DEF Tiles
  <2> QED BY <1>0, <1>2, <2>1, Ancestors
<1>3. \A p \in Tiles(t) : ~Before(p, p)
  BY <1>0, BeforeOrders
<1>4. \A p, q, r \in Tiles(t) : Before(p, q) /\ Before(q, r) => Before(p, r)
  BY <1>0, BeforeOrders
<1>5. \A p, q \in Tiles(t) : p # q => Before(p, q) \/ Before(q, p)
  BY <1>0, <1>2, BeforeOrders
<1>6. \A p, q \in Tiles(t) : <<p, q>> \in Ordered(t) <=> Before(p, q)
  BY DEF Ordered
<1>7. Orders(Tiles(t), Ordered(t))
  BY <1>3, <1>4, <1>5, <1>6 DEF Orders
<1>8. FirstLeaf(t, <<>>) \in Tiles(t)
  BY <1>0, FirstLeafIs
<1> QED BY <1>1, <1>7, <1>8

\* Leaves lists the tiles
LEMMA LeavesAre ==
  ASSUME NEW t, NEW n \in Nat, Good(t, n)
  PROVE  /\ Leaves(t) \in Seq(Tiles(t)) /\ Len(Leaves(t)) \in Nat \ {0}
         /\ \A k \in 1..Len(Leaves(t)) : Leaves(t)[k] \in Tiles(t)
         /\ \A p \in Tiles(t) : \E k \in 1..Len(Leaves(t)) : Leaves(t)[k] = p
         /\ Len(Leaves(t)) = Cardinality(Tiles(t))
         /\ \A k \in 1..Len(Leaves(t)) : Cardinality({q \in Tiles(t) : Before(q, Leaves(t)[k])}) = k - 1
         /\ \A p, q \in Tiles(t) : Before(p, q) =>
              Cardinality({r \in Tiles(t) : Before(r, p)}) < Cardinality({r \in Tiles(t) : Before(r, q)})
<1> DEFINE S == Tiles(t)
           U(p) == {q \in S : Before(q, p)}
           c == Cardinality(S)
           ls == Leaves(t)
<1>1. IsFiniteSet(S) /\ Orders(S, Ordered(t)) /\ \E p \in S : TRUE
  BY TileOrder
<1>2. \A p \in S : U(p) = Under(S, Ordered(t), p)
  BY DEF Under, Ordered
<1>3. /\ c \in Nat
      /\ \A p \in S : Cardinality(U(p)) \in 0..(c - 1)
      /\ \A p, q \in S : Cardinality(U(p)) = Cardinality(U(q)) => p = q
      /\ \A k \in 1..c : \E p \in S : Cardinality(U(p)) = k - 1
      /\ \A p, q \in S : <<p, q>> \in Ordered(t) => Cardinality(U(p)) < Cardinality(U(q))
  <2> HIDE DEF U, S
  <2>1. /\ c \in Nat
        /\ \A p \in S : Cardinality(Under(S, Ordered(t), p)) \in 0..(c - 1)
        /\ \A p, q \in S : Cardinality(Under(S, Ordered(t), p)) = Cardinality(Under(S, Ordered(t), q)) => p = q
        /\ \A k \in 1..c : \E p \in S : Cardinality(Under(S, Ordered(t), p)) = k - 1
        /\ \A p, q \in S : <<p, q>> \in Ordered(t) =>
             Cardinality(Under(S, Ordered(t), p)) < Cardinality(Under(S, Ordered(t), q))
    BY <1>1, Ranks
  <2> QED BY <1>2, <2>1
<1>4. c # 0
  BY <1>1, FS_EmptySet
<1>4a. \A p, q \in S : Before(p, q) => Cardinality(U(p)) < Cardinality(U(q))
  <2>1. \A p, q \in S : Before(p, q) => <<p, q>> \in Ordered(t)
    BY DEF Ordered
  <2> HIDE DEF U, S
  <2> QED BY <1>3, <2>1
<1>5. ls = [k \in 1..c |-> CHOOSE p \in S : Cardinality(U(p)) = k - 1]
  BY DEF Leaves
<1> HIDE DEF S, U, c, ls
<1>6. \A k \in 1..c : ls[k] \in S /\ Cardinality(U(ls[k])) = k - 1
  BY <1>3, <1>5
<1>7. ls \in [1..c -> S]
  BY <1>5, <1>6
<1>8. ls \in Seq(S) /\ Len(ls) = c
  BY <1>3, <1>7
<1>9. ASSUME NEW p \in S PROVE \E k \in 1..c : ls[k] = p
  <2> DEFINE k == Cardinality(U(p)) + 1
  <2>1. k \in 1..c /\ Cardinality(U(p)) = k - 1
    BY <1>3
  <2> HIDE DEF k
  <2>2. ls[k] = p
    BY <1>3, <1>6, <2>1
  <2> QED BY <2>1, <2>2
<1>10. Len(ls) \in Nat \ {0}
  BY <1>3, <1>4, <1>8
<1> QED BY <1>4a, <1>6, <1>8, <1>9, <1>10 DEF S, ls, c, U

-----------------------------------------------------------------------------
(* Closing a tile keeps the order of the others *)

\* Up to the fork that goes, the path of a node stays the same, and below it is one
\* step shorter
LEMMA FromIs ==
  ASSUME NEW up \in Path, NEW y \in Step, NEW p \in Path
  PROVE  LET q == From(up, Kid(up, y), p)
         IN /\ q \in Path /\ Len(p) <= Len(q)
            /\ \A k \in 1..Len(up) : k <= Len(p) => q[k] = p[k]
            /\ ~Below(up, p) => q = p
            /\ Below(up, p) => /\ Len(q) = Len(p) + 1 /\ Len(up) <= Len(p) /\ q[Len(up) + 1] = y
                               /\ \A k \in (Len(up) + 1)..Len(p) : q[k + 1] = p[k]
<1> DEFINE keep == Kid(up, y)
           q == From(up, keep, p)
<1>0. Len(up) \in Nat /\ Len(p) \in Nat
  BY DEF Path
<1>1. CASE ~Below(up, p)
  <2>1. q = p
    BY <1>1 DEF From
  <2> HIDE DEF q
  <2>2. q \in Path /\ Len(p) <= Len(q) /\ \A k \in 1..Len(up) : k <= Len(p) => q[k] = p[k]
    BY <1>0, <2>1
  <2> QED BY <1>1, <2>1, <2>2 DEF q
<1>2. CASE Below(up, p)
  <2>1. PICK r \in Path : r = Tail0(up, p) /\ p = up \o r
    BY <1>2, BelowIs
  <2>2. q = keep \o r
    BY <1>2, <2>1 DEF From
  <2>3. /\ keep \in Path /\ Len(keep) = Len(up) + 1 /\ (\A k \in 1..Len(up) : keep[k] = up[k])
        /\ keep[Len(up) + 1] = y
    BY Kids
  <2>4. /\ Len(p) = Len(up) + Len(r) /\ (\A k \in 1..Len(up) : p[k] = up[k])
        /\ \A k \in 1..Len(r) : p[Len(up) + k] = r[k]
    BY <2>1, Joined
  <2> HIDE DEF keep
  <2>5. /\ q \in Path /\ Len(q) = Len(keep) + Len(r) /\ (\A k \in 1..Len(keep) : q[k] = keep[k])
        /\ \A k \in 1..Len(r) : q[Len(keep) + k] = r[k]
    <3>1. /\ keep \o r \in Path /\ Len(keep \o r) = Len(keep) + Len(r)
          /\ (\A k \in 1..Len(keep) : (keep \o r)[k] = keep[k])
          /\ \A k \in 1..Len(r) : (keep \o r)[Len(keep) + k] = r[k]
      BY <2>3, Joined
    <3> HIDE DEF q
    <3> QED BY <2>2, <3>1
  <2>6. Len(r) \in Nat
    BY DEF Path
  <2> HIDE DEF q
  <2>7. Len(q) = Len(p) + 1 /\ Len(up) <= Len(p) /\ Len(p) <= Len(q)
    BY <1>0, <2>3, <2>4, <2>5, <2>6
  <2>8. \A k \in 1..Len(up) : q[k] = p[k]
    <3> TAKE k \in 1..Len(up)
    <3>1. k \in 1..Len(keep)
      BY <1>0, <2>3
    <3> QED BY <2>3, <2>4, <2>5, <3>1
  <2>9. q[Len(up) + 1] = y
    <3>1. Len(up) + 1 \in 1..Len(keep)
      BY <1>0, <2>3
    <3> QED BY <2>3, <2>5, <3>1
  <2>10. ASSUME NEW k \in (Len(up) + 1)..Len(p) PROVE q[k + 1] = p[k]
    <3>1. PICK i \in Nat : i = k - Len(up)
      BY <1>0
    <3>2. i \in 1..Len(r) /\ Len(up) + i = k /\ Len(keep) + i = k + 1
      BY <1>0, <2>3, <2>4, <2>6, <3>1
    <3>3. p[Len(up) + i] = r[i] /\ q[Len(keep) + i] = r[i]
      BY <2>4, <2>5, <3>2
    <3> QED BY <3>2, <3>3
  <2> QED BY <1>2, <2>5, <2>7, <2>8, <2>9, <2>10 DEF q, keep
<1> QED BY <1>1, <1>2

LEMMA FromBefore ==
  ASSUME NEW up \in Path, NEW y \in Step, NEW p \in Path, NEW q \in Path, Before(p, q)
  PROVE  Before(From(up, Kid(up, y), p), From(up, Kid(up, y), q))
<1>1. PICK n \in Nat : n = Len(up)
  BY DEF Path
<1>2. PICK p1 \in Path :
        /\ p1 = From(up, Kid(up, y), p) /\ Len(p) <= Len(p1)
        /\ \A k \in 1..n : k <= Len(p) => p1[k] = p[k]
        /\ ~Below(up, p) => p1 = p
        /\ Below(up, p) => /\ Len(p1) = Len(p) + 1 /\ n <= Len(p) /\ p1[n + 1] = y
                           /\ \A k \in (n + 1)..Len(p) : p1[k + 1] = p[k]
  BY <1>1, FromIs
<1>3. PICK q1 \in Path :
        /\ q1 = From(up, Kid(up, y), q) /\ Len(q) <= Len(q1)
        /\ \A k \in 1..n : k <= Len(q) => q1[k] = q[k]
        /\ ~Below(up, q) => q1 = q
        /\ Below(up, q) => /\ Len(q1) = Len(q) + 1 /\ n <= Len(q) /\ q1[n + 1] = y
                           /\ \A k \in (n + 1)..Len(q) : q1[k + 1] = q[k]
  BY <1>1, FromIs
<1>4. Len(p) \in Nat /\ Len(q) \in Nat /\ Len(p1) \in Nat /\ Len(q1) \in Nat
  BY DEF Path
<1>5. PICK k \in Nat : Parts(p, q, k)
  BY BeforeParts
<1>6. /\ 1 <= k /\ k <= Len(p) /\ k <= Len(q) /\ p[k] = "a" /\ q[k] = "b"
      /\ \A j \in 1..(k - 1) : p[j] = q[j]
  BY <1>5 DEF Parts
<1>7. CASE k <= n
  <2>1. \A j \in 1..k : p1[j] = p[j] /\ q1[j] = q[j]
    BY <1>2, <1>3, <1>4, <1>6, <1>7
  <2>2. Parts(p1, q1, k)
    BY <1>2, <1>3, <1>4, <1>6, <2>1 DEF Parts
  <2> QED BY <1>2, <1>3, <2>2, BeforeParts
<1>8. CASE n < k
  <2>1. Below(up, p) <=> Below(up, q)
    <3>1. \A j \in 1..n : p[j] = q[j]
      BY <1>6, <1>8
    <3>2. n <= Len(p) /\ n <= Len(q)
      BY <1>4, <1>6, <1>8
    <3>3. Below(up, p) <=> \A j \in 1..n : up[j] = p[j]
      BY <1>1, <3>2, BelowMeans
    <3>4. Below(up, q) <=> \A j \in 1..n : up[j] = q[j]
      BY <1>1, <3>2, BelowMeans
    <3> QED BY <3>1, <3>3, <3>4
  <2>2. CASE ~Below(up, p)
    BY <1>2, <1>3, <2>1, <2>2
  <2>3. CASE Below(up, p)
    <3>1. /\ Len(p1) = Len(p) + 1 /\ Len(q1) = Len(q) + 1 /\ p1[n + 1] = y /\ q1[n + 1] = y
          /\ (\A i \in (n + 1)..Len(p) : p1[i + 1] = p[i]) /\ \A i \in (n + 1)..Len(q) : q1[i + 1] = q[i]
      BY <1>2, <1>3, <2>1, <2>3
    <3>2. k \in (n + 1)..Len(p) /\ k \in (n + 1)..Len(q)
      BY <1>4, <1>6, <1>8
    <3>3. p1[k + 1] = "a" /\ q1[k + 1] = "b" /\ k + 1 <= Len(p1) /\ k + 1 <= Len(q1) /\ 1 <= k + 1
      BY <1>4, <1>6, <3>1, <3>2
    <3>4. ASSUME NEW j \in 1..k PROVE p1[j] = q1[j]
      <4>1. CASE j <= n
        <5>1. j \in 1..n /\ j <= Len(p) /\ j <= Len(q) /\ j \in 1..(k - 1)
          BY <1>4, <1>6, <1>8, <4>1
        <5> QED BY <1>2, <1>3, <1>6, <5>1
      <4>2. CASE j = n + 1
        BY <3>1, <4>2
      <4>3. CASE n + 1 < j
        <5>1. PICK i \in Nat : j = i + 1
          BY <4>3
        <5>2. i \in (n + 1)..Len(p) /\ i \in (n + 1)..Len(q) /\ i \in 1..(k - 1)
          BY <1>4, <1>6, <4>3, <5>1
        <5>3. p1[i + 1] = p[i] /\ q1[i + 1] = q[i] /\ p[i] = q[i]
          BY <1>6, <3>1, <5>2
        <5> QED BY <5>1, <5>3
      <4> QED BY <4>1, <4>2, <4>3
    <3>5. PICK m \in Nat : m = k + 1
      OBVIOUS
    <3>6. Parts(p1, q1, m)
      <4>1. \A j \in 1..(m - 1) : p1[j] = q1[j]
        BY <3>4, <3>5
      <4> QED BY <3>3, <3>5, <4>1 DEF Parts
    <3> QED BY <1>2, <1>3, <3>6, BeforeParts
  <2> QED BY <2>2, <2>3
<1> QED BY <1>4, <1>7, <1>8

LEMMA RemoveAtIs ==
  ASSUME NEW S, NEW s \in Seq(S), NEW k \in 1..Len(s)
  PROVE  /\ RemoveAt(s, k) \in Seq(S) /\ Len(RemoveAt(s, k)) = Len(s) - 1
         /\ \A i \in 1..(Len(s) - 1) : RemoveAt(s, k)[i] = s[IF i < k THEN i ELSE i + 1]
<1> DEFINE a == SubSeq(s, 1, k - 1)
           b == SubSeq(s, k + 1, Len(s))
           c == a \o b
<1>0. Len(s) \in Nat /\ k \in Nat /\ 1 <= k /\ k <= Len(s)
  OBVIOUS
<1>1. a \in Seq(S) /\ Len(a) = k - 1 /\ \A i \in 1..(k - 1) : a[i] = s[i]
  BY <1>0
<1>2. b \in Seq(S) /\ Len(b) = Len(s) - k /\ \A i \in 1..(Len(s) - k) : b[i] = s[k + i]
  BY <1>0
<1> HIDE DEF a, b
<1>3. c \in Seq(S) /\ Len(c) = Len(a) + Len(b)
      /\ \A i \in 1..(Len(a) + Len(b)) : c[i] = IF i <= Len(a) THEN a[i] ELSE b[i - Len(a)]
  BY <1>1, <1>2, ConcatProperties
<1> HIDE DEF c
<1>4. ASSUME NEW i \in 1..(Len(s) - 1) PROVE c[i] = s[IF i < k THEN i ELSE i + 1]
  <2>1. c[i] = IF i <= k - 1 THEN a[i] ELSE b[i - (k - 1)]
    BY <1>0, <1>1, <1>2, <1>3
  <2>2. CASE i < k
    <3>1. i <= k - 1 /\ i \in 1..(k - 1)
      BY <1>0, <2>2
    <3> QED BY <1>1, <2>1, <2>2, <3>1
  <2>3. CASE ~(i < k)
    <3>1. PICK j \in Nat : j = i - (k - 1)
      BY <1>0, <2>3
    <3>2. ~(i <= k - 1) /\ j \in 1..(Len(s) - k) /\ k + j = i + 1
      BY <1>0, <2>3, <3>1
    <3>3. c[i] = b[j] /\ b[j] = s[k + j]
      BY <1>2, <2>1, <3>1, <3>2
    <3> QED BY <2>3, <3>2, <3>3
  <2> QED BY <2>2, <2>3
<1>5. RemoveAt(s, k) = c
  BY DEF RemoveAt, c, a, b
<1>6. c \in Seq(S) /\ Len(c) = Len(s) - 1
  BY <1>0, <1>1, <1>2, <1>3
<1> QED BY <1>4, <1>5, <1>6

\* The tiles that stay come from the others of the tree, in their order
LEMMA CloseMoves ==
  ASSUME NEW t, NEW n \in Nat, Good(t, n), NEW f \in Tiles(t), f # <<>>
  PROVE  \E g \in Bijection(Tiles(CloseTree(t, f)), Tiles(t) \ {f}) :
           /\ \A p \in Tiles(CloseTree(t, f)) : CloseTree(t, f)[p].role = t[g[p]].role
           /\ \A p, q \in Tiles(CloseTree(t, f)) : Before(p, q) <=> Before(g[p], g[q])
<1>0. Built(t) /\ Filled(t, n) /\ DOMAIN t \subseteq Path /\ f \in Path /\ Tiles(t) \subseteq DOMAIN t
  BY DEF Good, Built, Tiles
<1>1. PICK up \in Path, x \in Step : f = Kid(up, x)
  BY <1>0, NotRoot
<1>2. PICK keep \in Path : keep = Kid(up, Other(x))
  BY <1>1, OtherStep, Kids
<1>3. PICK u : u = CloseTree(t, f)
  OBVIOUS
<1>4. /\ DOMAIN u \subseteq Path
      /\ \A p \in Path : ~Below(up, p) => (p \in DOMAIN u <=> p \in DOMAIN t)
      /\ \A p \in Path : ~Below(up, p) /\ p \in DOMAIN t => u[p] = t[p]
      /\ \A r \in Path : up \o r \in DOMAIN u <=> keep \o r \in DOMAIN t
      /\ \A r \in Path : keep \o r \in DOMAIN t => u[up \o r] = t[keep \o r]
  BY <1>0, <1>1, <1>2, <1>3, CloseTreeIs
<1>5. Good(u, n) /\ Filled(u, n) /\ {u[p].role : p \in Tiles(u)} = {t[p].role : p \in Tiles(t)} \ {t[f].role}
  <2>1. /\ Good(CloseTree(t, f), n)
        /\ {CloseTree(t, f)[p].role : p \in Tiles(CloseTree(t, f))} = {t[p].role : p \in Tiles(t)} \ {t[f].role}
    BY CloseKeeps
  <2>2. Good(u, n) /\ {u[p].role : p \in Tiles(u)} = {t[p].role : p \in Tiles(t)} \ {t[f].role}
    BY <1>3, <2>1
  <2> QED BY <2>2 DEF Good
<1> DEFINE S == Tiles(u)
           T == Tiles(t) \ {f}
           g == [p \in S |-> From(up, keep, p)]
<1>6. ASSUME NEW p \in S PROVE g[p] \in Tiles(t) /\ u[p].role = t[g[p]].role
  <2>1. p \in DOMAIN u /\ u[p].leaf /\ p \in Path
    BY <1>4 DEF Tiles
  <2>2. CASE ~Below(up, p)
    <3>1. g[p] = p
      BY <2>2 DEF From
    <3> QED BY <1>4, <2>1, <2>2, <3>1 DEF Tiles
  <2>3. CASE Below(up, p)
    <3>1. PICK r \in Path : r = Tail0(up, p) /\ p = up \o r
      BY <2>1, <2>3, BelowIs
    <3>2. g[p] = keep \o r
      BY <2>3, <3>1 DEF From
    <3>3. keep \o r \in DOMAIN t /\ u[p] = t[keep \o r]
      BY <1>4, <2>1, <3>1
    <3> QED BY <2>1, <3>2, <3>3 DEF Tiles
  <2> QED BY <2>2, <2>3
<1>7. \A p \in S : g[p] # f
  <2>1. \A p \in S : u[p].role # t[f].role
    BY <1>5
  <2> QED BY <1>6, <2>1
<1>8. \A p, q \in S : g[p] = g[q] => p = q
  <2> TAKE p, q \in S
  <2> SUFFICES ASSUME g[p] = g[q] PROVE p = q
    OBVIOUS
  <2>1. u[p].role = u[q].role
    BY <1>6
  <2> QED BY <1>5, <2>1 DEF Filled
<1>9. ASSUME NEW q \in T PROVE \E p \in S : g[p] = q
  <2>1. t[q].role # t[f].role
    BY <1>0 DEF Filled
  <2>2. t[q].role \in {u[p].role : p \in S}
    BY <1>5, <2>1
  <2>3. PICK p \in S : u[p].role = t[q].role
    BY <2>2
  <2>4. g[p] = q
    BY <1>0, <1>6, <2>3 DEF Filled
  <2> QED BY <2>4
<1>10. \A p, q \in S : Before(p, q) => Before(g[p], g[q])
  <2> TAKE p, q \in S
  <2>1. p \in Path /\ q \in Path
    BY <1>4 DEF Tiles
  <2>2. Other(x) \in Step
    BY OtherStep
  <2> QED BY <1>2, <2>1, <2>2, FromBefore
<1>11. \A p, q \in S : p # q => Before(p, q) \/ Before(q, p)
  <2>1. Orders(S, Ordered(u))
    BY <1>5, TileOrder
  <2> QED BY <2>1 DEF Orders, Ordered
<1>12. \A p, q \in Tiles(t) : ~(Before(p, q) /\ Before(q, p))
  <2>1. Orders(Tiles(t), Ordered(t))
    BY TileOrder
  <2> QED BY <2>1 DEF Orders, Ordered
<1>13. g \in Bijection(S, T)
  <2>1. g \in [S -> T]
    BY <1>6, <1>7
  <2> HIDE DEF g, S, T
  <2>2. g \in Injection(S, T)
    BY <1>8, <2>1 DEF Injection, IsInjective
  <2>3. g \in Surjection(S, T)
    BY <1>9, <2>1 DEF Surjection
  <2> QED BY <2>2, <2>3 DEF Bijection
<1>14. \A p, q \in S : Before(p, q) <=> Before(g[p], g[q])
  <2> HIDE DEF g
  <2> QED BY <1>6, <1>8, <1>10, <1>11, <1>12
<1> HIDE DEF g
<1> QED BY <1>3, <1>6, <1>13, <1>14

Earlier(t, p) == {q \in Tiles(t) : Before(q, p)}
SameOrder(g, S) == \A p, q \in S : Before(p, q) <=> Before(g[p], g[q])

\* A tile that stays has the same tiles before it as the one it comes from, but for
\* the one that goes
LEMMA RankMoves ==
  ASSUME NEW t, NEW n \in Nat, Good(t, n), NEW f \in Tiles(t), NEW u, Good(u, n),
         NEW T, T = Tiles(t) \ {f}, NEW g \in Bijection(Tiles(u), T),
         SameOrder(g, Tiles(u)), NEW p \in Tiles(u)
  PROVE  Cardinality(Earlier(t, g[p])) =
           IF Before(f, g[p]) THEN Cardinality(Earlier(u, p)) + 1 ELSE Cardinality(Earlier(u, p))
<1> DEFINE S == Tiles(u)
           B == {q \in S : Before(q, p)}
           C == {r \in T : Before(r, g[p])}
           D == {r \in Tiles(t) : Before(r, g[p])}
           h == [q \in B |-> g[q]]
<1>1. IsFiniteSet(S) /\ B \in SUBSET S
  BY TileOrder
<1>2. IsFiniteSet(B)
  BY <1>1, FS_Subset
<1>3. /\ g \in [S -> T]
      /\ \A q, r \in S : g[q] = g[r] => q = r
      /\ \A r \in T : \E q \in S : g[q] = r
  BY DEF Bijection, Injection, Surjection, IsInjective
<1>4. \A q \in S : q \in B <=> g[q] \in C
  BY <1>3 DEF SameOrder
<1>5. \A q \in B : h[q] = g[q] /\ q \in S
  OBVIOUS
<1>6. f \notin C /\ D = IF Before(f, g[p]) THEN C \cup {f} ELSE C
  OBVIOUS
<1>7. C \subseteq T
  OBVIOUS
<1>8. h = [q \in B |-> h[q]]
  OBVIOUS
<1> HIDE DEF B, C, D, h, S
<1>9. h \in [B -> C]
  <2>1. \A q \in B : h[q] \in C
    BY <1>4, <1>5
  <2> QED BY <1>8, <2>1
<1>10. h \in Bijection(B, C)
  <2>1. h \in Injection(B, C)
    BY <1>3, <1>5, <1>9 DEF Injection, IsInjective
  <2>2. \A r \in C : \E q \in B : h[q] = r
    BY <1>3, <1>4, <1>5, <1>7
  <2>3. h \in Surjection(B, C)
    BY <1>9, <2>2 DEF Surjection
  <2> QED BY <2>1, <2>3 DEF Bijection
<1>11. ExistsBijection(B, C)
  BY <1>10 DEF ExistsBijection
<1>12. IsFiniteSet(C) /\ Cardinality(C) = Cardinality(B)
  BY <1>2, <1>11, FS_Bijection
<1>13. Cardinality(D) = IF Before(f, g[p]) THEN Cardinality(B) + 1 ELSE Cardinality(B)
  <2>1. Cardinality(C \cup {f}) = Cardinality(C) + 1
    BY <1>6, <1>12, FS_AddElement
  <2> QED BY <1>6, <1>12, <2>1
<1> QED BY <1>13 DEF B, D, S, Earlier

\* The tiles that stay keep their order, those after the closed one a place earlier
LEMMA ClosedOrder ==
  ASSUME NEW t, NEW n \in Nat, Good(t, n), NEW f \in Tiles(t), f # <<>>,
         NEW u, u = CloseTree(t, f)
  PROVE  \E k \in 1..Len(Leaves(t)) :
           /\ Leaves(t)[k] = f
           /\ Len(Leaves(u)) = Len(Leaves(t)) - 1
           /\ \A i \in 1..Len(Leaves(u)) :
                u[Leaves(u)[i]].role = t[Leaves(t)[IF i < k THEN i ELSE i + 1]].role
<1> DEFINE S == Tiles(u)
           T == Tiles(t) \ {f}
           ls == Leaves(t)
           ms == Leaves(u)
           rank(r) == Cardinality(Earlier(t, r))
           low(p) == Cardinality(Earlier(u, p))
<1>1. Good(u, n)
  BY CloseKeeps
<1>2. PICK g \in Bijection(Tiles(CloseTree(t, f)), Tiles(t) \ {f}) :
        /\ \A p \in Tiles(CloseTree(t, f)) : CloseTree(t, f)[p].role = t[g[p]].role
        /\ \A p, q \in Tiles(CloseTree(t, f)) : Before(p, q) <=> Before(g[p], g[q])
  BY CloseMoves
<1>3. /\ g \in Bijection(S, T)
      /\ \A p \in S : u[p].role = t[g[p]].role
      /\ \A p, q \in S : Before(p, q) <=> Before(g[p], g[q])
  BY <1>2
<1>4. ASSUME NEW p \in S PROVE rank(g[p]) = IF Before(f, g[p]) THEN low(p) + 1 ELSE low(p)
  <2>1. /\ g \in Bijection(Tiles(u), T) /\ T = Tiles(t) \ {f}
        /\ SameOrder(g, Tiles(u)) /\ p \in Tiles(u)
    BY <1>3 DEF SameOrder
  <2> HIDE DEF S, T
  <2> QED BY <1>1, <2>1, RankMoves DEF S
<1>5. \A p \in S : g[p] \in Tiles(t) /\ g[p] # f
  BY <1>3 DEF Bijection, Injection
<1>6. /\ Len(ls) \in Nat /\ Len(ls) = Cardinality(Tiles(t))
      /\ \A p \in Tiles(t) : \E j \in 1..Len(ls) : ls[j] = p
      /\ \A j \in 1..Len(ls) : rank(ls[j]) = j - 1
      /\ \A p, q \in Tiles(t) : Before(p, q) => rank(p) < rank(q)
  BY LeavesAre DEF Earlier
<1>7. /\ Len(ms) \in Nat /\ Len(ms) = Cardinality(S)
      /\ \A i \in 1..Len(ms) : ms[i] \in S /\ low(ms[i]) = i - 1
  BY <1>1, LeavesAre DEF Earlier
<1>8. Len(ms) = Len(ls) - 1
  <2>1. IsFiniteSet(S) /\ IsFiniteSet(Tiles(t))
    BY <1>1, TileOrder
  <2>2. Cardinality(T) = Cardinality(Tiles(t)) - 1
    BY <2>1, FS_RemoveElement
  <2>3. ExistsBijection(S, T)
    BY <1>3 DEF ExistsBijection
  <2>4. Cardinality(T) = Cardinality(S)
    BY <2>1, <2>3, FS_Bijection
  <2> QED BY <1>6, <1>7, <2>2, <2>4
<1>9. \A p, q \in Tiles(t) : p # q => Before(p, q) \/ Before(q, p)
  <2>1. Orders(Tiles(t), Ordered(t))
    BY TileOrder
  <2> QED BY <2>1 DEF Orders, Ordered
<1> HIDE DEF S, T, ls, ms, rank, low
<1>10. PICK k \in 1..Len(ls) : ls[k] = f
  BY <1>6
<1>11. ASSUME NEW i \in 1..Len(ms) PROVE u[ms[i]].role = t[ls[IF i < k THEN i ELSE i + 1]].role
  <2>1. PICK p \in S : p = ms[i] /\ low(p) = i - 1
    BY <1>7
  <2>2. PICK j \in 1..Len(ls) : ls[j] = g[p]
    BY <1>5, <1>6
  <2>3. rank(g[p]) = j - 1 /\ rank(f) = k - 1 /\ i \in Int /\ j \in Int /\ k \in Int
    BY <1>6, <1>7, <1>10, <2>2
  <2>4. CASE Before(f, g[p])
    <3>1. rank(g[p]) = i - 1 + 1 /\ rank(f) < rank(g[p])
      BY <1>4, <1>5, <1>6, <2>1, <2>4
    <3>2. j = i + 1 /\ ~(i < k)
      BY <2>3, <3>1
    <3> QED BY <1>3, <2>1, <2>2, <3>2
  <2>5. CASE ~Before(f, g[p])
    <3>1. Before(g[p], f)
      BY <1>5, <1>9, <2>5
    <3>2. rank(g[p]) = i - 1 /\ rank(g[p]) < rank(f)
      BY <1>4, <1>5, <1>6, <2>1, <2>5, <3>1
    <3>3. j = i /\ i < k
      BY <2>3, <3>2
    <3> QED BY <1>3, <2>1, <2>2, <3>3
  <2> QED BY <2>4, <2>5
<1> QED BY <1>8, <1>10, <1>11 DEF ls, ms

-----------------------------------------------------------------------------
(* Geometry *)

Box == [x : Int, y : Int, w : Nat, h : Nat]

LEMMA ShareIs ==
  ASSUME NEW total \in Nat, NEW ratio \in Int
  PROVE  FirstShare(total, ratio) \in Nat /\ FirstShare(total, ratio) <= total
<1> DEFINE a == (total * ratio + 10) \div 20
<1>1. a \in Int
  <2>1. total * ratio \in Int
    OBVIOUS
  <2> QED BY <2>1
<1>2. FirstShare(total, ratio) = IF total < 2 THEN total ELSE IF a < 1 THEN 1 ELSE IF a > total - 1 THEN total - 1 ELSE a
  BY DEF FirstShare
<1> HIDE DEF a
<1> DEFINE v == IF total < 2 THEN total ELSE IF a < 1 THEN 1 ELSE IF a > total - 1 THEN total - 1 ELSE a
<1>3. v \in Nat /\ v <= total
  BY <1>1
<1> QED BY <1>2, <1>3

\* A child's rectangle is inside its parent's and apart from its sibling's
LEMMA NarrowIs ==
  ASSUME NEW r \in Box, NEW n, n.vert \in BOOLEAN, n.ratio \in Int
  PROVE  /\ \A z \in Step : Narrow(r, n, z) \in Box /\ Inside(Narrow(r, n, z), r)
         /\ Apart(Narrow(r, n, "a"), Narrow(r, n, "b"))
<1>1. r.x \in Int /\ r.y \in Int /\ r.w \in Nat /\ r.h \in Nat
  BY DEF Box
<1>2. CASE n.vert
  <2> DEFINE s == FirstShare(r.w, n.ratio)
             u == r.x + s
             v == r.w - s
             a == [r EXCEPT !.w = s]
             b == [r EXCEPT !.x = u, !.w = v]
  <2>1. s \in Nat /\ s <= r.w
    BY <1>1, ShareIs
  <2>2. Narrow(r, n, "a") = a /\ Narrow(r, n, "b") = b
    BY <1>2 DEF Narrow
  <2>3. v \in Nat /\ u \in Int /\ u = r.x + s /\ v = r.w - s
    BY <1>1, <2>1
  <2> HIDE DEF s, u, v
  <2>4. a \in Box /\ a.x = r.x /\ a.y = r.y /\ a.w = s /\ a.h = r.h
    BY <2>1 DEF Box
  <2>5. b \in Box /\ b.x = u /\ b.y = r.y /\ b.w = v /\ b.h = r.h
    BY <2>3 DEF Box
  <2> HIDE DEF a, b
  <2>6. Inside(a, r) /\ Inside(b, r)
    BY <1>1, <2>1, <2>3, <2>4, <2>5 DEF Inside
  <2>7. Apart(a, b)
    BY <1>1, <2>1, <2>3, <2>4, <2>5 DEF Apart
  <2> QED BY <2>2, <2>4, <2>5, <2>6, <2>7 DEF Step
<1>3. CASE ~n.vert
  <2> DEFINE s == FirstShare(r.h, n.ratio)
             u == r.y + s
             v == r.h - s
             a == [r EXCEPT !.h = s]
             b == [r EXCEPT !.y = u, !.h = v]
  <2>1. s \in Nat /\ s <= r.h
    BY <1>1, ShareIs
  <2>2. Narrow(r, n, "a") = a /\ Narrow(r, n, "b") = b
    BY <1>3 DEF Narrow
  <2>3. v \in Nat /\ u \in Int /\ u = r.y + s /\ v = r.h - s
    BY <1>1, <2>1
  <2> HIDE DEF s, u, v
  <2>4. a \in Box /\ a.x = r.x /\ a.y = r.y /\ a.w = r.w /\ a.h = s
    BY <2>1 DEF Box
  <2>5. b \in Box /\ b.x = r.x /\ b.y = u /\ b.w = r.w /\ b.h = v
    BY <2>3 DEF Box
  <2> HIDE DEF a, b
  <2>6. Inside(a, r) /\ Inside(b, r)
    BY <1>1, <2>1, <2>3, <2>4, <2>5 DEF Inside
  <2>7. Apart(a, b)
    BY <1>1, <2>1, <2>3, <2>4, <2>5 DEF Apart
  <2> QED BY <2>2, <2>4, <2>5, <2>6, <2>7 DEF Step
<1> QED BY <1>2, <1>3

\* The rectangles on the way from the root to a node
Walks(g, t, p, w, h) ==
  /\ g[0] = [x |-> 0, y |-> 0, w |-> w, h |-> h]
  /\ \A k \in 1..Len(p) : g[k] = Narrow(g[k - 1], t[SubSeq(p, 1, k - 1)], p[k])

LEMMA RectWalks ==
  ASSUME NEW t, NEW p, Len(p) \in Nat, NEW w, NEW h
  PROVE  \E g : Walks(g, t, p, w, h) /\ Rect(t, p, w, h) = g[Len(p)]
<1> DEFINE Runs(g, m) == g = [k \in 0..m |-> IF k = 0 THEN [x |-> 0, y |-> 0, w |-> w, h |-> h]
                                             ELSE Narrow(g[k - 1], t[SubSeq(p, 1, k - 1)], p[k])]
           f == CHOOSE g : Runs(g, Len(p))
           S == {m \in Nat : ~\E g : Runs(g, m)}
<1>1. Rect(t, p, w, h) = f[Len(p)]
  BY Zenon DEF Rect
<1>2. \A m \in Nat : \E g : Runs(g, m)
  <2> SUFFICES ASSUME NEW c \in S PROVE FALSE
    BY Zenon
  <2>1. S \subseteq Nat
    BY Zenon
  <2> HIDE DEF S
  <2>2. PICK m \in S : \A j \in S : m <= j
    BY <2>1, LeastOf
  <2> USE DEF S
  <2>3. m \in Nat /\ ~\E g : Runs(g, m)
    BY Zenon
  <2>4. CASE m = 0
    <3> DEFINE g == [k \in 0..0 |-> [x |-> 0, y |-> 0, w |-> w, h |-> h]]
    <3>1. Runs(g, 0)
      OBVIOUS
    <3> QED BY <2>3, <2>4, <3>1, Zenon
  <2>5. CASE m # 0
    <3>1. m - 1 \in Nat /\ ~(m <= m - 1)
      BY <2>3, <2>5
    <3> DEFINE i == m - 1
    <3> HIDE DEF i
    <3>2. i \in Nat /\ i \notin S
      BY <2>2, <3>1 DEF i
    <3>3. PICK g : Runs(g, i)
      BY <3>2, Zenon
    <3> DEFINE e == [k \in 0..m |-> IF k = m THEN Narrow(g[i], t[SubSeq(p, 1, i)], p[m]) ELSE g[k]]
    <3>4. ASSUME NEW k \in 0..m
          PROVE  e[k] = IF k = 0 THEN [x |-> 0, y |-> 0, w |-> w, h |-> h]
                        ELSE Narrow(e[k - 1], t[SubSeq(p, 1, k - 1)], p[k])
      <4>1. CASE k = m
        <5>1. k - 1 = i /\ i \in 0..m /\ i # m /\ k # 0
          BY <2>3, <2>5, <4>1 DEF i
        <5>2. e[k] = Narrow(g[i], t[SubSeq(p, 1, i)], p[m])
          BY <4>1
        <5>3. e[i] = g[i]
          BY <5>1
        <5> HIDE DEF e
        <5> QED BY <4>1, <5>1, <5>2, <5>3
      <4>2. CASE k # m
        <5>1. k \in 0..i
          BY <2>3, <4>2 DEF i
        <5>2. e[k] = g[k]
          BY <4>2
        <5>3. g[k] = IF k = 0 THEN [x |-> 0, y |-> 0, w |-> w, h |-> h]
                     ELSE Narrow(g[k - 1], t[SubSeq(p, 1, k - 1)], p[k])
          BY <3>3, <5>1
        <5>4. k # 0 => e[k - 1] = g[k - 1]
          <6>1. k # 0 => k - 1 \in 0..m /\ k - 1 # m
            BY <2>3
          <6> QED BY <6>1
        <5> HIDE DEF e
        <5> QED BY <5>2, <5>3, <5>4
      <4> QED BY <4>1, <4>2
    <3>5. e = [k \in 0..m |-> e[k]]
      OBVIOUS
    <3> HIDE DEF e
    <3>6. e = [k \in 0..m |-> IF k = 0 THEN [x |-> 0, y |-> 0, w |-> w, h |-> h]
                              ELSE Narrow(e[k - 1], t[SubSeq(p, 1, k - 1)], p[k])]
      BY <3>4, <3>5
    <3> QED BY <2>3, <3>6, Zenon
  <2> QED BY <2>4, <2>5
<1>3. Runs(f, Len(p))
  BY <1>2, Zenon
<1> HIDE DEF f
<1>4. f[0] = [x |-> 0, y |-> 0, w |-> w, h |-> h]
  BY <1>3
<1>5. \A k \in 1..Len(p) : f[k] = Narrow(f[k - 1], t[SubSeq(p, 1, k - 1)], p[k])
  <2> TAKE k \in 1..Len(p)
  <2>1. k \in 0..Len(p) /\ k # 0
    OBVIOUS
  <2> QED BY <1>3, <2>1
<1>6. Walks(f, t, p, w, h)
  BY <1>4, <1>5 DEF Walks
<1> QED BY <1>1, <1>6

LEMMA Above ==
  ASSUME NEW p \in Path, NEW k \in Int, 0 <= k, k < Len(p)
  PROVE  SubSeq(p, 1, k) \in Path /\ Below(SubSeq(p, 1, k), p) /\ SubSeq(p, 1, k) # p /\ Len(SubSeq(p, 1, k)) = k
<1> DEFINE s == SubSeq(p, 1, k)
<1>1. Len(p) \in Nat
  BY DEF Path
<1>2. s \in Seq(Step) /\ Len(s) = k
  BY <1>1, Upto DEF Path
<1>3. s = SubSeq(p, 1, k)
  OBVIOUS
<1> HIDE DEF s
<1>4. SubSeq(s, 1, Len(s)) = s
  BY <1>2, SubSeqFull
<1>5. Below(s, p)
  BY <1>1, <1>2, <1>3, <1>4 DEF Below, IsPrefix
<1> QED BY <1>1, <1>2, <1>5 DEF s, Path

LEMMA RectIs ==
  ASSUME NEW t, NEW n, Good(t, n), NEW p \in DOMAIN t, NEW w \in Nat, NEW h \in Nat
  PROVE  \E g : /\ Walks(g, t, p, w, h) /\ Rect(t, p, w, h) = g[Len(p)]
                /\ \A k \in 0..Len(p) : g[k] \in Box
                /\ \A k \in 1..Len(p) : Inside(g[k], g[k - 1])
<1>0. Built(t) /\ Filled(t, n) /\ p \in Path /\ Len(p) \in Nat
  BY DEF Good, Built, Path
<1>1. PICK g : Walks(g, t, p, w, h) /\ Rect(t, p, w, h) = g[Len(p)]
  BY <1>0, RectWalks, Zenon
<1>2. ASSUME NEW k \in 1..Len(p), g[k - 1] \in Box PROVE g[k] \in Box /\ Inside(g[k], g[k - 1])
  <2> DEFINE i == k - 1
             q == SubSeq(p, 1, i)
  <2>1. i \in Int /\ 0 <= i /\ i < Len(p)
    BY <1>0
  <2>2. g[k] = Narrow(g[i], t[q], p[k])
    BY <1>1 DEF Walks
  <2>3. g[i] \in Box
    BY <1>2
  <2> HIDE DEF i
  <2>4. q \in Path /\ Below(q, p) /\ q # p
    BY <1>0, <2>1, Above
  <2> HIDE DEF q
  <2>5. q \in DOMAIN t /\ ~t[q].leaf
    BY <1>0, <2>4, Ancestors
  <2>6. t[q].vert \in BOOLEAN /\ t[q].ratio \in Int
    BY <1>0, <2>5, ForkIs
  <2>7. p[k] \in Step
    BY <1>0 DEF Path
  <2>8. g[k] \in Box /\ Inside(g[k], g[i])
    BY <2>2, <2>3, <2>6, <2>7, NarrowIs
  <2> QED BY <2>8 DEF i
<1>3. g[0] \in Box
  BY <1>1 DEF Walks, Box
<1>4. \A k \in 0..Len(p) : g[k] \in Box
  <2> DEFINE S == {k \in Nat : k <= Len(p) /\ g[k] \notin Box}
  <2> SUFFICES ASSUME NEW c \in S PROVE FALSE
    OBVIOUS
  <2>1. S \subseteq Nat
    OBVIOUS
  <2> HIDE DEF S
  <2>2. PICK m \in S : \A j \in S : m <= j
    BY <2>1, LeastOf
  <2> USE DEF S
  <2>3. m \in Nat /\ m <= Len(p) /\ g[m] \notin Box
    OBVIOUS
  <2>4. m # 0
    BY <1>3, <2>3
  <2>5. m \in 1..Len(p) /\ m - 1 \in Nat /\ ~(m <= m - 1) /\ m - 1 <= Len(p)
    BY <1>0, <2>3, <2>4
  <2>6. g[m - 1] \in Box
    BY <2>2, <2>5
  <2> QED BY <1>2, <2>3, <2>5, <2>6
<1>5. \A k \in 1..Len(p) : Inside(g[k], g[k - 1])
  <2> TAKE k \in 1..Len(p)
  <2>1. k - 1 \in 0..Len(p)
    BY <1>0
  <2> QED BY <1>2, <1>4, <2>1
<1> QED BY <1>1, <1>4, <1>5

LEMMA RectsAre ==
  ASSUME NEW t, NEW n, Good(t, n), NEW w \in Nat, NEW h \in Nat
  PROVE  Rects(t, w, h) \in [Tiles(t) -> Box]
<1> SUFFICES ASSUME NEW p \in Tiles(t) PROVE Rect(t, p, w, h) \in Box
  BY DEF Rects
<1>1. p \in DOMAIN t /\ Len(p) \in Nat
  BY DEF Tiles, Good, Built, Path
<1>2. PICK g : Rect(t, p, w, h) = g[Len(p)] /\ \A k \in 0..Len(p) : g[k] \in Box
  <2>1. \E g : /\ Walks(g, t, p, w, h) /\ Rect(t, p, w, h) = g[Len(p)]
               /\ \A k \in 0..Len(p) : g[k] \in Box
               /\ \A k \in 1..Len(p) : Inside(g[k], g[k - 1])
    BY <1>1, RectIs
  <2> QED BY <2>1, Zenon
<1> QED BY <1>1, <1>2

\* A rectangle further down is inside every one above it
LEMMA InsideAbove ==
  ASSUME NEW g, NEW n \in Nat, \A k \in 0..n : g[k] \in Box, \A k \in 1..n : Inside(g[k], g[k - 1]),
         NEW k \in 0..n
  PROVE  Inside(g[n], g[k])
<1> DEFINE S == {j \in Nat : k <= j /\ j <= n /\ ~Inside(g[j], g[k])}
<1> SUFFICES ASSUME NEW c \in S PROVE FALSE
  OBVIOUS
<1>1. S \subseteq Nat
  OBVIOUS
<1> HIDE DEF S
<1>2. PICK m \in S : \A j \in S : m <= j
  BY <1>1, LeastOf
<1> USE DEF S
<1>3. m \in Nat /\ k <= m /\ m <= n /\ ~Inside(g[m], g[k])
  OBVIOUS
<1>4. m # k
  <2>1. g[k] \in Box
    OBVIOUS
  <2>2. Inside(g[k], g[k])
    <3> DEFINE r == g[k]
    <3>1. r.x \in Int /\ r.y \in Int /\ r.w \in Nat /\ r.h \in Nat
      BY <2>1 DEF Box
    <3> HIDE DEF r
    <3>2. Inside(r, r)
      BY <3>1 DEF Inside
    <3> QED BY <3>2 DEF r
  <2> QED BY <1>3, <2>2
<1> DEFINE i == m - 1
<1>5. i \in Nat /\ k <= i /\ i <= n /\ ~(m <= i) /\ m \in 1..n /\ m \in 0..n /\ i \in 0..n
  BY <1>3, <1>4
<1>6. Inside(g[m], g[i])
  BY <1>5
<1> HIDE DEF i
<1>7. Inside(g[i], g[k])
  BY <1>2, <1>5
<1>8. g[m] \in Box /\ g[i] \in Box /\ g[k] \in Box
  BY <1>5
<1>9. Inside(g[m], g[k])
  <2> DEFINE q == g[m]
             r == g[i]
             s == g[k]
  <2>1. Inside(q, r) /\ Inside(r, s)
    BY <1>6, <1>7
  <2>2. q.x \in Int /\ q.y \in Int /\ q.w \in Nat /\ q.h \in Nat
    BY <1>8 DEF Box
  <2>3. r.x \in Int /\ r.y \in Int /\ r.w \in Nat /\ r.h \in Nat
    BY <1>8 DEF Box
  <2>4. s.x \in Int /\ s.y \in Int /\ s.w \in Nat /\ s.h \in Nat
    BY <1>8 DEF Box
  <2> HIDE DEF q, r, s
  <2>5. Inside(q, s)
    BY <2>1, <2>2, <2>3, <2>4 DEF Inside
  <2> QED BY <2>5 DEF q, s
<1> QED BY <1>3, <1>9

LEMMA InsideApart ==
  ASSUME NEW a \in Box, NEW b \in Box, NEW c \in Box, NEW d \in Box, Inside(a, c), Inside(b, d), Apart(c, d)
  PROVE  Apart(a, b) /\ Apart(b, a)
<1>1. a.x \in Int /\ a.y \in Int /\ a.w \in Nat /\ a.h \in Nat
  BY DEF Box
<1>2. b.x \in Int /\ b.y \in Int /\ b.w \in Nat /\ b.h \in Nat
  BY DEF Box
<1>3. c.x \in Int /\ c.y \in Int /\ c.w \in Nat /\ c.h \in Nat
  BY DEF Box
<1>4. d.x \in Int /\ d.y \in Int /\ d.w \in Nat /\ d.h \in Nat
  BY DEF Box
<1> QED BY <1>1, <1>2, <1>3, <1>4 DEF Inside, Apart

\* What the way to two nodes has in common has the same rectangles
Agree(p, q, i) == i <= Len(p) /\ i <= Len(q) /\ \A j \in 1..i : p[j] = q[j]

LEMMA WalksAgree ==
  ASSUME NEW t, NEW w, NEW h, NEW p \in Path, NEW q \in Path, NEW g, NEW e,
         Walks(g, t, p, w, h), Walks(e, t, q, w, h)
  PROVE  \A i \in Nat : Agree(p, q, i) => g[i] = e[i]
<1> SUFFICES ASSUME NEW i \in Nat, i <= Len(p), i <= Len(q), \A j \in 1..i : p[j] = q[j]
             PROVE  g[i] = e[i]
  BY DEF Agree
<1>0. Len(p) \in Nat /\ Len(q) \in Nat
  BY DEF Path
<1>1. ASSUME NEW j \in Int, 0 <= j, j <= i PROVE SubSeq(p, 1, j) = SubSeq(q, 1, j)
  <2>1. j <= Len(p) /\ j <= Len(q)
    BY <1>0, <1>1
  <2>2. \A k \in 1..j : p[k] = q[k]
    BY <1>1
  <2> QED BY <1>0, <1>1, <2>1, <2>2, SameUpto
<1> DEFINE S == {k \in Nat : k <= i /\ g[k] # e[k]}
<1> SUFFICES ASSUME NEW c \in S PROVE FALSE
  OBVIOUS
<1>2. S \subseteq Nat
  OBVIOUS
<1> HIDE DEF S
<1>3. PICK k \in S : \A j \in S : k <= j
  BY <1>2, LeastOf
<1> USE DEF S
<1>4. k \in Nat /\ k <= i /\ g[k] # e[k]
  OBVIOUS
<1>5. k # 0
  BY <1>4 DEF Walks
<1> DEFINE j == k - 1
<1>6. /\ j \in Nat /\ j <= i /\ ~(k <= j) /\ k \in 1..Len(p) /\ k \in 1..Len(q) /\ k \in 1..i
      /\ j \in Int /\ 0 <= j
  BY <1>0, <1>4, <1>5
<1>7. g[j] = e[j]
  BY <1>3, <1>6
<1>8. g[k] = Narrow(g[j], t[SubSeq(p, 1, j)], p[k]) /\ e[k] = Narrow(e[j], t[SubSeq(q, 1, j)], q[k])
  BY <1>6 DEF Walks
<1> HIDE DEF j
<1>9. SubSeq(p, 1, j) = SubSeq(q, 1, j) /\ p[k] = q[k]
  BY <1>1, <1>6
<1> QED BY <1>4, <1>7, <1>8, <1>9

\* Two tiles part at a fork, whose children are apart
LEMMA PartedApart ==
  ASSUME NEW t, NEW n, Good(t, n), NEW p \in Tiles(t), NEW q \in Tiles(t), Before(p, q),
         NEW w \in Nat, NEW h \in Nat
  PROVE  Apart(Rect(t, p, w, h), Rect(t, q, w, h)) /\ Apart(Rect(t, q, w, h), Rect(t, p, w, h))
<1>0. /\ Built(t) /\ Filled(t, n) /\ p \in DOMAIN t /\ q \in DOMAIN t /\ p \in Path /\ q \in Path
      /\ Len(p) \in Nat /\ Len(q) \in Nat
  BY DEF Good, Built, Path, Tiles
<1>1. PICK m \in Nat : Parts(p, q, m)
  BY <1>0, BeforeParts
<1>2. PICK g : /\ Walks(g, t, p, w, h) /\ Rect(t, p, w, h) = g[Len(p)]
               /\ \A k \in 0..Len(p) : g[k] \in Box
               /\ \A k \in 1..Len(p) : Inside(g[k], g[k - 1])
  BY <1>0, RectIs
<1>3. PICK e : /\ Walks(e, t, q, w, h) /\ Rect(t, q, w, h) = e[Len(q)]
               /\ \A k \in 0..Len(q) : e[k] \in Box
               /\ \A k \in 1..Len(q) : Inside(e[k], e[k - 1])
  BY <1>0, RectIs
<1>4. /\ 1 <= m /\ m <= Len(p) /\ m <= Len(q) /\ p[m] = "a" /\ q[m] = "b"
      /\ \A j \in 1..(m - 1) : p[j] = q[j]
  BY <1>1 DEF Parts
<1> DEFINE i == m - 1
<1>5. i \in Int /\ 0 <= i /\ i < Len(p) /\ i < Len(q) /\ i \in Nat /\ i < m
  BY <1>0, <1>4
<1>6. \A j \in 1..i : p[j] = q[j]
  BY <1>4
<1>7. g[m] = Narrow(g[i], t[SubSeq(p, 1, i)], "a") /\ e[m] = Narrow(e[i], t[SubSeq(q, 1, i)], "b")
  <2>1. m \in 1..Len(p) /\ m \in 1..Len(q)
    BY <1>0, <1>4
  <2> QED BY <1>2, <1>3, <1>4, <2>1 DEF Walks
<1>8. \A k \in 1..Len(p) : g[k] = Narrow(g[k - 1], t[SubSeq(p, 1, k - 1)], p[k])
  BY <1>2 DEF Walks
<1>9. \A k \in 1..Len(q) : e[k] = Narrow(e[k - 1], t[SubSeq(q, 1, k - 1)], q[k])
  BY <1>3 DEF Walks
<1> HIDE DEF i
<1>10. ASSUME NEW j \in Int, 0 <= j, j <= i PROVE SubSeq(p, 1, j) = SubSeq(q, 1, j)
  <2>1. j <= Len(p) /\ j <= Len(q)
    BY <1>0, <1>5, <1>10
  <2>2. \A k \in 1..j : p[k] = q[k]
    BY <1>5, <1>6, <1>10
  <2> QED BY <1>0, <1>10, <2>1, <2>2, SameUpto
<1>11. g[i] = e[i]
  <2>1. Agree(p, q, i)
    BY <1>5, <1>6 DEF Agree
  <2> QED BY <1>0, <1>2, <1>3, <1>5, <2>1, WalksAgree
<1>12. Apart(g[m], e[m])
  <2> DEFINE u == SubSeq(p, 1, i)
  <2>1. u \in Path /\ Below(u, p) /\ u # p
    BY <1>0, <1>5, Above
  <2>2. SubSeq(q, 1, i) = u
    BY <1>5, <1>10
  <2> HIDE DEF u
  <2>3. u \in DOMAIN t /\ ~t[u].leaf
    BY <1>0, <2>1, Ancestors
  <2>4. t[u].vert \in BOOLEAN /\ t[u].ratio \in Int
    BY <1>0, <2>3, ForkIs
  <2>5. g[i] \in Box
    <3>1. i \in 0..Len(p)
      BY <1>0, <1>5
    <3> QED BY <1>2, <3>1
  <2>6. g[m] = Narrow(g[i], t[u], "a") /\ e[m] = Narrow(g[i], t[u], "b")
    BY <1>7, <1>11, <2>2 DEF u
  <2> QED BY <2>4, <2>5, <2>6, NarrowIs
<1>13. m \in 0..Len(p) /\ m \in 0..Len(q) /\ Len(p) \in 0..Len(p) /\ Len(q) \in 0..Len(q)
  BY <1>0, <1>4
<1>14. Inside(g[Len(p)], g[m]) /\ Inside(e[Len(q)], e[m])
  BY <1>0, <1>2, <1>3, <1>13, InsideAbove
<1>15. g[Len(p)] \in Box /\ g[m] \in Box /\ e[Len(q)] \in Box /\ e[m] \in Box
  BY <1>2, <1>3, <1>13
<1>16. Apart(g[Len(p)], e[Len(q)]) /\ Apart(e[Len(q)], g[Len(p)])
  BY <1>12, <1>14, <1>15, InsideApart
<1> QED BY <1>2, <1>3, <1>16

\* The rectangles of the tiles, inside the area and apart
LEMMA TilesAreApart ==
  ASSUME NEW t, NEW n \in Nat, Good(t, n), NEW w \in Nat, NEW h \in Nat
  PROVE  /\ \A p, q \in Tiles(t) : p # q => Apart(Rects(t, w, h)[p], Rects(t, w, h)[q])
         /\ \A p \in Tiles(t) : Inside(Rects(t, w, h)[p], [x |-> 0, y |-> 0, w |-> w, h |-> h])
<1>1. ASSUME NEW p \in Tiles(t), NEW q \in Tiles(t), p # q
      PROVE  Apart(Rects(t, w, h)[p], Rects(t, w, h)[q])
  <2>1. Before(p, q) \/ Before(q, p)
    <3>1. <<p, q>> \in Ordered(t) \/ <<q, p>> \in Ordered(t)
      BY <1>1, TileOrder DEF Orders
    <3> QED BY <3>1 DEF Ordered
  <2>2. Apart(Rect(t, p, w, h), Rect(t, q, w, h))
    BY <2>1, PartedApart
  <2> QED BY <2>2 DEF Rects
<1>2. ASSUME NEW p \in Tiles(t)
      PROVE  Inside(Rects(t, w, h)[p], [x |-> 0, y |-> 0, w |-> w, h |-> h])
  <2>1. p \in DOMAIN t /\ Len(p) \in Nat
    BY DEF Tiles, Good, Built, Path
  <2>2. PICK g : /\ Walks(g, t, p, w, h) /\ Rect(t, p, w, h) = g[Len(p)]
                 /\ \A k \in 0..Len(p) : g[k] \in Box
                 /\ \A k \in 1..Len(p) : Inside(g[k], g[k - 1])
    BY <2>1, RectIs
  <2>3. 0 \in 0..Len(p)
    BY <2>1
  <2>4. Inside(g[Len(p)], g[0])
    BY <2>1, <2>2, <2>3, InsideAbove
  <2> QED BY <2>2, <2>4 DEF Walks, Rects
<1> QED BY <1>1, <1>2

\* A child's rectangle is what its parent's leaves it
LEMMA KidRect ==
  ASSUME NEW t, NEW p \in Path, NEW z \in Step, NEW w \in Nat, NEW h \in Nat
  PROVE  Rect(t, Kid(p, z), w, h) = Narrow(Rect(t, p, w, h), t[p], z)
<1>1. PICK n \in Nat : n = Len(p)
  BY DEF Path
<1>2. PICK q \in Path : q = Kid(p, z)
  BY Kids
<1>3. Len(q) = n + 1 /\ (\A k \in 1..n : p[k] = q[k]) /\ q[n + 1] = z /\ Parent(q) = p
  BY <1>1, <1>2, Kids
<1>4. n <= Len(p) /\ n <= Len(q) /\ n + 1 \in 1..Len(q) /\ n + 1 - 1 = n /\ Len(q) \in Nat
  BY <1>1, <1>3
<1>5. PICK g : Walks(g, t, p, w, h) /\ Rect(t, p, w, h) = g[n]
  BY <1>1, RectWalks
<1>6. PICK e : Walks(e, t, q, w, h) /\ Rect(t, q, w, h) = e[Len(q)]
  BY <1>4, RectWalks
<1>7. g[n] = e[n]
  <2>1. Agree(p, q, n)
    BY <1>3, <1>4 DEF Agree
  <2> QED BY <1>5, <1>6, <2>1, WalksAgree
<1>8. SubSeq(q, 1, n) = p
  BY <1>3, <1>4 DEF Parent, Front
<1>9. \A k \in 1..Len(q) : e[k] = Narrow(e[k - 1], t[SubSeq(q, 1, k - 1)], q[k])
  BY <1>6 DEF Walks
<1>10. e[n + 1] = Narrow(e[n + 1 - 1], t[SubSeq(q, 1, n + 1 - 1)], q[n + 1])
  BY <1>4, <1>9
<1>11. e[n + 1] = Narrow(e[n], t[p], z)
  BY <1>3, <1>4, <1>8, <1>10
<1> QED BY <1>2, <1>3, <1>5, <1>6, <1>7, <1>11

LEMMA NodeRect ==
  ASSUME NEW t, NEW n, Good(t, n), NEW p \in DOMAIN t, NEW w \in Nat, NEW h \in Nat
  PROVE  /\ Rect(t, p, w, h) \in Box
         /\ \A q \in DOMAIN t : Below(p, q) => Inside(Rect(t, q, w, h), Rect(t, p, w, h))
<1>0. DOMAIN t \subseteq Path /\ p \in Path /\ Len(p) \in Nat
  BY DEF Good, Built, Path
<1>1. PICK g : /\ Walks(g, t, p, w, h) /\ Rect(t, p, w, h) = g[Len(p)]
               /\ \A k \in 0..Len(p) : g[k] \in Box
               /\ \A k \in 1..Len(p) : Inside(g[k], g[k - 1])
  BY RectIs
<1>2. Rect(t, p, w, h) \in Box
  BY <1>0, <1>1
<1>3. ASSUME NEW q \in DOMAIN t, Below(p, q) PROVE Inside(Rect(t, q, w, h), Rect(t, p, w, h))
  <2>1. q \in Path /\ Len(q) \in Nat
    BY <1>0 DEF Path
  <2>2. PICK e : /\ Walks(e, t, q, w, h) /\ Rect(t, q, w, h) = e[Len(q)]
                 /\ \A k \in 0..Len(q) : e[k] \in Box
                 /\ \A k \in 1..Len(q) : Inside(e[k], e[k - 1])
    BY RectIs
  <2>3. Len(p) <= Len(q) /\ \A k \in 1..Len(p) : p[k] = q[k]
    BY <1>0, <1>3, <2>1, BelowMeans
  <2>4. Len(p) \in 0..Len(q) /\ Len(p) <= Len(p)
    BY <1>0, <2>1, <2>3
  <2>5. g[Len(p)] = e[Len(p)]
    <3>1. Agree(p, q, Len(p))
      BY <2>3, <2>4 DEF Agree
    <3> QED BY <1>0, <1>1, <2>1, <2>2, <3>1, WalksAgree
  <2>6. Inside(e[Len(q)], e[Len(p)])
    BY <2>1, <2>2, <2>4, InsideAbove
  <2> QED BY <1>1, <2>2, <2>5, <2>6
<1> QED BY <1>2, <1>3

\* A cell of a fork's rectangle is in one of its children's
LEMMA NarrowCovers ==
  ASSUME NEW r \in Box, NEW n, n.vert \in BOOLEAN, n.ratio \in Int, NEW x \in Int, NEW y \in Int, Covers(r, x, y)
  PROVE  \E z \in Step : Covers(Narrow(r, n, z), x, y)
<1>1. r.x \in Int /\ r.y \in Int /\ r.w \in Nat /\ r.h \in Nat
  BY DEF Box
<1>2. CASE n.vert
  <2> DEFINE s == FirstShare(r.w, n.ratio)
             u == r.x + s
             v == r.w - s
             a == [r EXCEPT !.w = s]
             b == [r EXCEPT !.x = u, !.w = v]
  <2>1. s \in Nat /\ s <= r.w
    BY <1>1, ShareIs
  <2>2. Narrow(r, n, "a") = a /\ Narrow(r, n, "b") = b
    BY <1>2 DEF Narrow
  <2>3. v \in Nat /\ u \in Int /\ u = r.x + s /\ v = r.w - s
    BY <1>1, <2>1
  <2> HIDE DEF s, u, v
  <2>4. a.x = r.x /\ a.y = r.y /\ a.w = s /\ a.h = r.h
    BY <2>1 DEF Box
  <2>5. b.x = u /\ b.y = r.y /\ b.w = v /\ b.h = r.h
    BY <2>3 DEF Box
  <2> HIDE DEF a, b
  <2>6. Covers(a, x, y) \/ Covers(b, x, y)
    BY <1>1, <2>1, <2>3, <2>4, <2>5 DEF Covers
  <2> QED BY <2>2, <2>6 DEF Step
<1>3. CASE ~n.vert
  <2> DEFINE s == FirstShare(r.h, n.ratio)
             u == r.y + s
             v == r.h - s
             a == [r EXCEPT !.h = s]
             b == [r EXCEPT !.y = u, !.h = v]
  <2>1. s \in Nat /\ s <= r.h
    BY <1>1, ShareIs
  <2>2. Narrow(r, n, "a") = a /\ Narrow(r, n, "b") = b
    BY <1>3 DEF Narrow
  <2>3. v \in Nat /\ u \in Int /\ u = r.y + s /\ v = r.h - s
    BY <1>1, <2>1
  <2> HIDE DEF s, u, v
  <2>4. a.x = r.x /\ a.y = r.y /\ a.w = r.w /\ a.h = s
    BY <2>1 DEF Box
  <2>5. b.x = r.x /\ b.y = u /\ b.w = r.w /\ b.h = v
    BY <2>3 DEF Box
  <2> HIDE DEF a, b
  <2>6. Covers(a, x, y) \/ Covers(b, x, y)
    BY <1>1, <2>1, <2>3, <2>4, <2>5 DEF Covers
  <2> QED BY <2>2, <2>6 DEF Step
<1> QED BY <1>2, <1>3

LEMMA RootCovers ==
  ASSUME NEW t, NEW w \in Nat, NEW h \in Nat, NEW x \in Int, NEW y \in Int, 0 <= x, x < w, 0 <= y, y < h
  PROVE  Covers(Rect(t, <<>>, w, h), x, y)
<1>1. PICK g : Walks(g, t, <<>>, w, h) /\ Rect(t, <<>>, w, h) = g[Len(<<>>)]
  BY RectWalks
<1>2. Rect(t, <<>>, w, h) = [x |-> 0, y |-> 0, w |-> w, h |-> h]
  BY <1>1 DEF Walks
<1> QED BY <1>2 DEF Covers

\* Every cell of a node's rectangle is in a tile below the node
LEMMA CellsCovered ==
  ASSUME NEW t, NEW n, Good(t, n), NEW p \in DOMAIN t, NEW w \in Nat, NEW h \in Nat,
         NEW x \in Int, NEW y \in Int, Covers(Rect(t, p, w, h), x, y)
  PROVE  \E q \in Tiles(t) : Below(p, q) /\ Covers(Rect(t, q, w, h), x, y)
<1> DEFINE D == {q \in DOMAIN t : Below(p, q) /\ Covers(Rect(t, q, w, h), x, y)}
           S == {Len(q) : q \in D}
<1>0. Built(t) /\ Filled(t, n) /\ DOMAIN t \subseteq Path /\ p \in Path
  BY DEF Good, Built
<1>1. p \in D
  BY <1>0, BelowKid
<1>2. S \subseteq Nat /\ Len(p) \in S
  <2>1. \A q \in D : Len(q) \in Nat
    BY <1>0 DEF Path
  <2> QED BY <1>1, <2>1
<1>3. PICK m \in Nat : \A q \in DOMAIN t : Len(q) <= m
  BY <1>0 DEF Built
<1>4. \A k \in S : k <= m
  BY <1>3
<1>5. PICK k \in S : \A j \in S : j <= k
  <2> HIDE DEF S
  <2> QED BY <1>2, <1>3, <1>4, GreatestOf
<1>6. PICK q \in D : k = Len(q)
  BY Zenon
<1>7. q \in DOMAIN t /\ Below(p, q) /\ Covers(Rect(t, q, w, h), x, y) /\ q \in Path
  BY <1>0
<1>8. t[q].leaf
  <2> SUFFICES ASSUME ~t[q].leaf PROVE FALSE
    OBVIOUS
  <2>1. t[q].vert \in BOOLEAN /\ t[q].ratio \in Int
    BY <1>0, <1>7, ForkIs
  <2>2. Rect(t, q, w, h) \in Box
    BY <1>7, NodeRect
  <2> DEFINE r == Rect(t, q, w, h)
             nd == t[q]
  <2>3. r \in Box /\ nd.vert \in BOOLEAN /\ nd.ratio \in Int /\ Covers(r, x, y)
    BY <1>7, <2>1, <2>2
  <2> HIDE DEF r, nd
  <2>4. PICK z \in Step : Covers(Narrow(r, nd, z), x, y)
    BY <2>3, NarrowCovers
  <2> DEFINE c == Kid(q, z)
  <2>5. c \in DOMAIN t /\ c \in Path /\ Len(c) = Len(q) + 1
    BY <1>0, <1>7, Kids DEF Built
  <2>6. Covers(Rect(t, c, w, h), x, y)
    <3>1. Rect(t, c, w, h) = Narrow(r, nd, z)
      BY <1>7, KidRect DEF r, nd
    <3> QED BY <2>4, <3>1
  <2>7. Below(p, c)
    <3>1. Len(p) <= Len(q) /\ (\A j \in 1..Len(p) : p[j] = q[j]) /\ Len(p) \in Nat /\ Len(q) \in Nat
      BY <1>0, <1>7, BelowMeans DEF Path
    <3>2. \A j \in 1..Len(q) : c[j] = q[j]
      BY <1>7, Kids
    <3> HIDE DEF c
    <3>3. Len(p) <= Len(c) /\ \A j \in 1..Len(p) : p[j] = c[j]
      BY <2>5, <3>1, <3>2
    <3> QED BY <1>0, <2>5, <3>3, BelowMeans
  <2>8. Len(c) \in S
    BY <2>5, <2>6, <2>7
  <2>9. Len(q) + 1 <= Len(q) /\ Len(q) \in Nat
    BY <1>5, <1>6, <1>7, <2>5, <2>8 DEF Path
  <2> QED BY <2>9
<1> QED BY <1>7, <1>8 DEF Tiles

Directions == {"left", "down", "up", "right"}

\* Focus moves to a tile, and to one that is next to it if there is any
LEMMA NeighbourIs ==
  ASSUME NEW t, NEW n \in Nat, Good(t, n), NEW rect \in [Tiles(t) -> Box], NEW f \in Tiles(t), NEW d \in Directions
  PROVE  /\ Neighbour(rect, f, d) \in Tiles(t)
         /\ \A e \in Tiles(t) :
              f # e /\ Gap(d, rect[f], rect[e]) >= 0 /\ Shared(d, rect[f], rect[e]) > 0 =>
                LET c == Neighbour(rect, f, d)
                IN /\ c # f /\ Gap(d, rect[f], rect[c]) >= 0 /\ Shared(d, rect[f], rect[c]) > 0
                   /\ Gap(d, rect[f], rect[c]) <= Gap(d, rect[f], rect[e])
<1> DEFINE gap(c) == Gap(d, rect[f], rect[c])
           shared(c) == Shared(d, rect[f], rect[c])
           found == {c \in DOMAIN rect \ {f} : gap(c) >= 0 /\ shared(c) > 0}
           better(c, e) == \/ gap(c) < gap(e)
                           \/ gap(c) = gap(e) /\ shared(c) > shared(e)
                           \/ gap(c) = gap(e) /\ shared(c) = shared(e) /\ Before(c, e)
           R == {e \in found \X found : better(e[1], e[2])}
<1>1. Neighbour(rect, f, d) = IF found = {} THEN f ELSE CHOOSE c \in found : \A e \in found \ {c} : better(c, e)
  BY Zenon DEF Neighbour
<1>2. IsFiniteSet(Tiles(t)) /\ Orders(Tiles(t), Ordered(t))
  BY TileOrder
<1>3. found \in SUBSET Tiles(t)
  OBVIOUS
<1>4. IsFiniteSet(found)
  BY <1>2, <1>3, FS_Subset
<1>5. \A c \in Tiles(t) : gap(c) \in Int /\ shared(c) \in Int
  <2> TAKE c \in Tiles(t)
  <2>1. rect[c].x \in Int /\ rect[c].y \in Int /\ rect[c].w \in Nat /\ rect[c].h \in Nat
    BY DEF Box
  <2>2. rect[f].x \in Int /\ rect[f].y \in Int /\ rect[f].w \in Nat /\ rect[f].h \in Nat
    BY DEF Box
  <2>3. gap(c) \in Int
    BY <2>1, <2>2 DEF Gap, Directions
  <2>4. \A x, xl, y, yl \in Int : Overlap(x, xl, y, yl) \in Int
    BY DEF Overlap, Least, Most
  <2>5. shared(c) \in Int
    <3>1. rect[c].w \in Int /\ rect[c].h \in Int /\ rect[f].w \in Int /\ rect[f].h \in Int
      BY <2>1, <2>2
    <3>2. Overlap(rect[f].y, rect[f].h, rect[c].y, rect[c].h) \in Int
      BY <2>1, <2>2, <2>4, <3>1
    <3>3. Overlap(rect[f].x, rect[f].w, rect[c].x, rect[c].w) \in Int
      BY <2>1, <2>2, <2>4, <3>1
    <3> QED BY <3>2, <3>3 DEF Shared
  <2> QED BY <2>3, <2>5
<1>6. /\ \A c \in Tiles(t) : ~Before(c, c)
      /\ \A c, e, b \in Tiles(t) : Before(c, e) /\ Before(e, b) => Before(c, b)
      /\ \A c, e \in Tiles(t) : c # e => Before(c, e) \/ Before(e, c)
  <2>1. \A c, e \in Tiles(t) : <<c, e>> \in Ordered(t) <=> Before(c, e)
    BY DEF Ordered
  <2> QED BY <1>2, <2>1 DEF Orders
<1> HIDE DEF gap, shared
<1>7. \A c, e \in found : <<c, e>> \in R <=> better(c, e)
  OBVIOUS
<1>8. Orders(found, R)
  <2>1. \A c \in found : ~better(c, c)
    BY <1>3, <1>5, <1>6
  <2>2. \A c, e, b \in found : better(c, e) /\ better(e, b) => better(c, b)
    <3> TAKE c, e, b \in found
    <3>1. gap(c) \in Int /\ gap(e) \in Int /\ gap(b) \in Int /\ shared(c) \in Int /\ shared(e) \in Int /\ shared(b) \in Int
      BY <1>3, <1>5
    <3>2. Before(c, e) /\ Before(e, b) => Before(c, b)
      BY <1>3, <1>6
    <3> QED BY <3>1, <3>2
  <2>3. \A c, e \in found : c # e => better(c, e) \/ better(e, c)
    <3> TAKE c, e \in found
    <3>1. gap(c) \in Int /\ gap(e) \in Int /\ shared(c) \in Int /\ shared(e) \in Int
      BY <1>3, <1>5
    <3>2. c # e => Before(c, e) \/ Before(e, c)
      BY <1>3, <1>6
    <3> QED BY <3>1, <3>2
  <2> HIDE DEF R, better, found
  <2> QED BY <1>7, <2>1, <2>2, <2>3 DEF Orders
<1> HIDE DEF R, better, found
<1>9. ASSUME NEW m \in found
      PROVE  /\ Neighbour(rect, f, d) \in found
             /\ \A e \in found \ {Neighbour(rect, f, d)} : better(Neighbour(rect, f, d), e)
  <2>1. \E c \in found : \A e \in found \ {c} : <<c, e>> \in R
    BY <1>4, <1>8, FirstOf
  <2>2. \E c \in found : \A e \in found \ {c} : better(c, e)
    BY <1>7, <2>1
  <2> DEFINE c0 == CHOOSE c \in found : \A e \in found \ {c} : better(c, e)
  <2>3. c0 \in found /\ \A e \in found \ {c0} : better(c0, e)
    BY <2>2, Zenon
  <2> QED BY <1>1, <2>3
<1>10. \A e \in Tiles(t) : f # e /\ gap(e) >= 0 /\ shared(e) > 0 => e \in found
  BY DEF found
<1>11. \A e \in found : e # f /\ gap(e) >= 0 /\ shared(e) > 0
  BY DEF found
<1>12. \A c, e \in found : better(c, e) => gap(c) <= gap(e)
  <2> TAKE c, e \in found
  <2>1. gap(c) \in Int /\ gap(e) \in Int
    BY <1>3, <1>5
  <2> QED BY <2>1 DEF better
<1>13. \A e \in found : gap(e) \in Int
  BY <1>3, <1>5
<1> DEFINE b == Neighbour(rect, f, d)
<1>14. \A e \in found : b \in found /\ (e # b => better(b, e))
  BY <1>9
<1>15. b \in Tiles(t)
  BY <1>1, <1>3, <1>14
<1> HIDE DEF b
<1>16. ASSUME NEW e \in Tiles(t), f # e, gap(e) >= 0, shared(e) > 0
       PROVE  b # f /\ gap(b) >= 0 /\ shared(b) > 0 /\ gap(b) <= gap(e)
  <2>1. e \in found /\ b \in found
    BY <1>10, <1>14, <1>16
  <2>2. gap(b) <= gap(e)
    BY <1>12, <1>13, <1>14, <2>1
  <2> QED BY <1>11, <2>1, <2>2
<1> QED BY <1>15, <1>16 DEF b, gap, shared

\* k and o lie side by side, o in direction d of k, and all of a side is shared
Borders(d, k, o) ==
  \/ d = "right" /\ o.x = k.x + k.w /\ o.y = k.y /\ o.h = k.h
  \/ d = "left" /\ k.x = o.x + o.w /\ o.y = k.y /\ o.h = k.h
  \/ d = "down" /\ o.y = k.y + k.h /\ o.x = k.x /\ o.w = k.w
  \/ d = "up" /\ k.y = o.y + o.h /\ o.x = k.x /\ o.w = k.w

\* The children of a fork lie side by side
LEMMA NarrowBorders ==
  ASSUME NEW r \in Box, NEW n, n.vert \in BOOLEAN, n.ratio \in Int, NEW z \in Step
  PROVE  \E d \in Directions : Borders(d, Narrow(r, n, z), Narrow(r, n, Other(z)))
<1>1. r.x \in Int /\ r.y \in Int /\ r.w \in Nat /\ r.h \in Nat
  BY DEF Box
<1>2. CASE n.vert
  <2> DEFINE s == FirstShare(r.w, n.ratio)
             u == r.x + s
             v == r.w - s
             a == [r EXCEPT !.w = s]
             b == [r EXCEPT !.x = u, !.w = v]
  <2>1. s \in Nat /\ s <= r.w
    BY <1>1, ShareIs
  <2>2. Narrow(r, n, "a") = a /\ Narrow(r, n, "b") = b
    BY <1>2 DEF Narrow
  <2>3. v \in Nat /\ u \in Int /\ u = r.x + s /\ v = r.w - s
    BY <1>1, <2>1
  <2> HIDE DEF s, u, v
  <2>4. a.x = r.x /\ a.y = r.y /\ a.w = s /\ a.h = r.h
    BY <2>1 DEF Box
  <2>5. b.x = u /\ b.y = r.y /\ b.w = v /\ b.h = r.h
    BY <2>3 DEF Box
  <2> HIDE DEF a, b
  <2>6. Borders("right", a, b) /\ Borders("left", b, a)
    BY <1>1, <2>1, <2>3, <2>4, <2>5 DEF Borders
  <2> QED BY <2>2, <2>6 DEF Step, Other, Directions
<1>3. CASE ~n.vert
  <2> DEFINE s == FirstShare(r.h, n.ratio)
             u == r.y + s
             v == r.h - s
             a == [r EXCEPT !.h = s]
             b == [r EXCEPT !.y = u, !.h = v]
  <2>1. s \in Nat /\ s <= r.h
    BY <1>1, ShareIs
  <2>2. Narrow(r, n, "a") = a /\ Narrow(r, n, "b") = b
    BY <1>3 DEF Narrow
  <2>3. v \in Nat /\ u \in Int /\ u = r.y + s /\ v = r.h - s
    BY <1>1, <2>1
  <2> HIDE DEF s, u, v
  <2>4. a.x = r.x /\ a.y = r.y /\ a.w = r.w /\ a.h = s
    BY <2>1 DEF Box
  <2>5. b.x = r.x /\ b.y = u /\ b.w = r.w /\ b.h = v
    BY <2>3 DEF Box
  <2> HIDE DEF a, b
  <2>6. Borders("down", a, b) /\ Borders("up", b, a)
    BY <1>1, <2>1, <2>3, <2>4, <2>5 DEF Borders
  <2> QED BY <2>2, <2>6 DEF Step, Other, Directions
<1> QED BY <1>2, <1>3

LEMMA Fields ==
  ASSUME NEW r \in Box
  PROVE  r.x \in Int /\ r.y \in Int /\ r.w \in Nat /\ r.h \in Nat /\ r.w \in Int /\ r.h \in Int
BY DEF Box

\* On both sides of the border there is a cell, and whatever covers the one is a
\* neighbour of whatever covers the other
LEMMA BorderCells ==
  ASSUME NEW k \in Box, NEW o \in Box, k.w > 0, k.h > 0, o.w > 0, o.h > 0,
         NEW d \in Directions, Borders(d, k, o)
  PROVE  \E x, y, u, v \in Int :
           /\ Covers(k, x, y) /\ Covers(o, u, v)
           /\ \A p, e \in Box : Inside(p, k) /\ Covers(p, x, y) /\ Inside(e, o) /\ Covers(e, u, v)
                => Gap(d, p, e) = 0 /\ Shared(d, p, e) > 0
<1>0. /\ k.x \in Int /\ k.y \in Int /\ k.w \in Int /\ k.h \in Int
      /\ o.x \in Int /\ o.y \in Int /\ o.w \in Int /\ o.h \in Int
  BY Fields
<1> DEFINE Meets(x, y, u, v) ==
             /\ Covers(k, x, y) /\ Covers(o, u, v)
             /\ \A p, e \in Box : Inside(p, k) /\ Covers(p, x, y) /\ Inside(e, o) /\ Covers(e, u, v)
                  => Gap(d, p, e) = 0 /\ Shared(d, p, e) > 0
<1>1. CASE d = "right"
  <2> DEFINE x == o.x - 1
             y == o.y
             u == o.x
  <2>1. x \in Int /\ y \in Int /\ u \in Int /\ Covers(k, x, y) /\ Covers(o, u, y)
    BY <1>0, <1>1 DEF Borders, Covers
  <2>2. ASSUME NEW p \in Box, NEW e \in Box, Inside(p, k), Covers(p, x, y), Inside(e, o), Covers(e, u, y)
        PROVE  Gap(d, p, e) = 0 /\ Shared(d, p, e) > 0
    <3>1. p.x \in Int /\ p.y \in Int /\ p.w \in Int /\ p.h \in Int /\ e.x \in Int /\ e.y \in Int /\ e.w \in Int /\ e.h \in Int
      BY Fields
    <3> QED BY <1>0, <1>1, <2>2, <3>1 DEF Borders, Covers, Inside, Gap, Shared, Overlap, Least, Most
  <2>3. Meets(x, y, u, y)
    BY <2>1, <2>2
  <2> HIDE DEF x, y, u, Meets
  <2> QED BY <2>1, <2>3 DEF Meets
<1>2. CASE d = "left"
  <2> DEFINE x == k.x
             y == o.y
             u == k.x - 1
  <2>1. x \in Int /\ y \in Int /\ u \in Int /\ Covers(k, x, y) /\ Covers(o, u, y)
    BY <1>0, <1>2 DEF Borders, Covers
  <2>2. ASSUME NEW p \in Box, NEW e \in Box, Inside(p, k), Covers(p, x, y), Inside(e, o), Covers(e, u, y)
        PROVE  Gap(d, p, e) = 0 /\ Shared(d, p, e) > 0
    <3>1. p.x \in Int /\ p.y \in Int /\ p.w \in Int /\ p.h \in Int /\ e.x \in Int /\ e.y \in Int /\ e.w \in Int /\ e.h \in Int
      BY Fields
    <3> QED BY <1>0, <1>2, <2>2, <3>1 DEF Borders, Covers, Inside, Gap, Shared, Overlap, Least, Most
  <2>3. Meets(x, y, u, y)
    BY <2>1, <2>2
  <2> HIDE DEF x, y, u, Meets
  <2> QED BY <2>1, <2>3 DEF Meets
<1>3. CASE d = "down"
  <2> DEFINE x == o.x
             y == o.y - 1
             v == o.y
  <2>1. x \in Int /\ y \in Int /\ v \in Int /\ Covers(k, x, y) /\ Covers(o, x, v)
    BY <1>0, <1>3 DEF Borders, Covers
  <2>2. ASSUME NEW p \in Box, NEW e \in Box, Inside(p, k), Covers(p, x, y), Inside(e, o), Covers(e, x, v)
        PROVE  Gap(d, p, e) = 0 /\ Shared(d, p, e) > 0
    <3>1. p.x \in Int /\ p.y \in Int /\ p.w \in Int /\ p.h \in Int /\ e.x \in Int /\ e.y \in Int /\ e.w \in Int /\ e.h \in Int
      BY Fields
    <3> QED BY <1>0, <1>3, <2>2, <3>1 DEF Borders, Covers, Inside, Gap, Shared, Overlap, Least, Most
  <2>3. Meets(x, y, x, v)
    BY <2>1, <2>2
  <2> HIDE DEF x, y, v, Meets
  <2> QED BY <2>1, <2>3 DEF Meets
<1>4. CASE d = "up"
  <2> DEFINE x == o.x
             y == k.y
             v == k.y - 1
  <2>1. x \in Int /\ y \in Int /\ v \in Int /\ Covers(k, x, y) /\ Covers(o, x, v)
    BY <1>0, <1>4 DEF Borders, Covers
  <2>2. ASSUME NEW p \in Box, NEW e \in Box, Inside(p, k), Covers(p, x, y), Inside(e, o), Covers(e, x, v)
        PROVE  Gap(d, p, e) = 0 /\ Shared(d, p, e) > 0
    <3>1. p.x \in Int /\ p.y \in Int /\ p.w \in Int /\ p.h \in Int /\ e.x \in Int /\ e.y \in Int /\ e.w \in Int /\ e.h \in Int
      BY Fields
    <3> QED BY <1>0, <1>4, <2>2, <3>1 DEF Borders, Covers, Inside, Gap, Shared, Overlap, Least, Most
  <2>3. Meets(x, y, x, v)
    BY <2>1, <2>2
  <2> HIDE DEF x, y, v, Meets
  <2> QED BY <2>1, <2>3 DEF Meets
<1> QED BY <1>1, <1>2, <1>3, <1>4 DEF Directions

\* What touches p where p touches the border reaches over it
LEMMA ReachesOver ==
  ASSUME NEW k \in Box, NEW o \in Box, NEW d \in Directions, Borders(d, k, o),
         NEW p \in Box, NEW e \in Box, NEW c \in Box, Inside(p, k), Inside(e, o),
         Gap(d, p, e) = 0, Gap(d, p, c) = 0, Shared(d, p, c) > 0,
         c.w > 0, c.h > 0, o.w > 0, o.h > 0
  PROVE  \E x, y \in Int : Covers(c, x, y) /\ Covers(o, x, y)
<1>0. /\ k.x \in Int /\ k.y \in Int /\ k.w \in Nat /\ k.h \in Nat /\ o.x \in Int /\ o.y \in Int /\ o.w \in Nat /\ o.h \in Nat
      /\ p.x \in Int /\ p.y \in Int /\ p.w \in Nat /\ p.h \in Nat /\ e.x \in Int /\ e.y \in Int /\ e.w \in Nat /\ e.h \in Nat
      /\ c.x \in Int /\ c.y \in Int /\ c.w \in Nat /\ c.h \in Nat
  BY Fields
<1> DEFINE my == Most(p.y, c.y)
           mx == Most(p.x, c.x)
<1>1. my \in Int /\ mx \in Int
  BY <1>0 DEF Most
<1>2. CASE d = "right"
  <2>1. Covers(c, o.x, my) /\ Covers(o, o.x, my)
    BY <1>0, <1>2 DEF Borders, Inside, Gap, Shared, Overlap, Least, Most, Covers
  <2> HIDE DEF my
  <2> QED BY <1>0, <1>1, <2>1
<1>3. CASE d = "left"
  <2> DEFINE x == k.x - 1
  <2>1. x \in Int /\ Covers(c, x, my) /\ Covers(o, x, my)
    BY <1>0, <1>3 DEF Borders, Inside, Gap, Shared, Overlap, Least, Most, Covers
  <2> HIDE DEF my, x
  <2> QED BY <1>1, <2>1
<1>4. CASE d = "down"
  <2>1. Covers(c, mx, o.y) /\ Covers(o, mx, o.y)
    BY <1>0, <1>4 DEF Borders, Inside, Gap, Shared, Overlap, Least, Most, Covers
  <2> HIDE DEF mx
  <2> QED BY <1>0, <1>1, <2>1
<1>5. CASE d = "up"
  <2> DEFINE y == k.y - 1
  <2>1. y \in Int /\ Covers(c, mx, y) /\ Covers(o, mx, y)
    BY <1>0, <1>5 DEF Borders, Inside, Gap, Shared, Overlap, Least, Most, Covers
  <2> HIDE DEF mx, y
  <2> QED BY <1>1, <2>1
<1> QED BY <1>2, <1>3, <1>4, <1>5 DEF Directions

\* No cell is in two tiles
LEMMA OneTile ==
  ASSUME NEW t, NEW n \in Nat, Good(t, n), NEW w \in Nat, NEW h \in Nat, NEW p \in Tiles(t), NEW q \in Tiles(t),
         NEW x \in Int, NEW y \in Int, Covers(Rect(t, p, w, h), x, y), Covers(Rect(t, q, w, h), x, y)
  PROVE  p = q
<1> SUFFICES ASSUME p # q PROVE FALSE
  OBVIOUS
<1> DEFINE r == Rect(t, p, w, h)
           s == Rect(t, q, w, h)
<1>1. Rects(t, w, h)[p] = r /\ Rects(t, w, h)[q] = s
  BY DEF Rects
<1>2. Apart(r, s)
  BY <1>1, TilesAreApart
<1>3. r \in Box /\ s \in Box
  BY NodeRect DEF Tiles
<1>4. Covers(r, x, y) /\ Covers(s, x, y)
  OBVIOUS
<1> HIDE DEF r, s
<1>5. r.x \in Int /\ r.y \in Int /\ r.w \in Int /\ r.h \in Int /\ s.x \in Int /\ s.y \in Int /\ s.w \in Int /\ s.h \in Int
  BY <1>3, Fields
<1> QED BY <1>2, <1>4, <1>5 DEF Apart, Covers

\* From either side of a divider focus moves to the other
LEMMA FocusCrosses ==
  ASSUME NEW t, NEW n \in Nat, Good(t, n), NEW w \in Nat, NEW h \in Nat,
         \A p \in Tiles(t) : Usable(Rects(t, w, h)[p]),
         NEW u \in DOMAIN t, ~t[u].leaf, NEW z \in Step
  PROVE  \E p \in Tiles(t), d \in Directions :
           Below(Kid(u, z), p) /\ Below(Kid(u, Other(z)), Neighbour(Rects(t, w, h), p, d))
<1> DEFINE rect == Rects(t, w, h)
           a == Kid(u, z)
           b == Kid(u, Other(z))
           k == Rect(t, a, w, h)
           o == Rect(t, b, w, h)
<1>0. /\ Built(t) /\ Filled(t, n) /\ DOMAIN t \subseteq Path /\ Tiles(t) \subseteq DOMAIN t
      /\ u \in Path /\ Other(z) \in Step
  BY OtherStep DEF Good, Built, Tiles
<1>1. a \in DOMAIN t /\ b \in DOMAIN t
  BY <1>0 DEF Built
<1>2. rect \in [Tiles(t) -> Box] /\ \A p \in Tiles(t) : rect[p] = Rect(t, p, w, h)
  BY RectsAre DEF Rects
<1>3. \A p \in Tiles(t) : rect[p].w > 0 /\ rect[p].h > 0
  <2> TAKE p \in Tiles(t)
  <2>1. rect[p].w \in Int /\ rect[p].h \in Int
    BY <1>2, Fields
  <2> QED BY <2>1 DEF Usable, MinTileW, MinTileH
<1>4. k \in Box /\ o \in Box
  BY <1>1, NodeRect
<1>5. \A p \in Tiles(t) : (Below(a, p) => Inside(rect[p], k)) /\ (Below(b, p) => Inside(rect[p], o))
  BY <1>0, <1>1, <1>2, NodeRect
<1>6. PICK d \in Directions : Borders(d, k, o)
  <2> DEFINE r == Rect(t, u, w, h)
             nd == t[u]
  <2>1. r \in Box /\ nd.vert \in BOOLEAN /\ nd.ratio \in Int
    BY <1>0, NodeRect, ForkIs
  <2>2. k = Narrow(r, nd, z) /\ o = Narrow(r, nd, Other(z))
    BY <1>0, KidRect
  <2> HIDE DEF r, nd, k, o
  <2> QED BY <2>1, <2>2, NarrowBorders
<1>7. PICK p0 \in Tiles(t), q0 \in Tiles(t) : Below(a, p0) /\ Below(b, q0)
  BY <1>0, <1>1, FirstLeafIs
<1>8. \A p \in Tiles(t), c \in Directions : Neighbour(rect, p, c) \in Tiles(t)
  BY <1>2, NeighbourIs
<1>9. \A p, e \in Tiles(t), c \in Directions :
        p # e /\ Gap(c, rect[p], rect[e]) >= 0 /\ Shared(c, rect[p], rect[e]) > 0 =>
          LET f == Neighbour(rect, p, c)
          IN /\ f # p /\ Gap(c, rect[p], rect[f]) >= 0 /\ Shared(c, rect[p], rect[f]) > 0
             /\ Gap(c, rect[p], rect[f]) <= Gap(c, rect[p], rect[e])
  <2> HIDE DEF rect
  <2> QED BY <1>2, NeighbourIs
<1>10. \A x, y \in Int : Covers(k, x, y) => \E p \in Tiles(t) : Below(a, p) /\ Covers(rect[p], x, y)
  BY <1>1, <1>2, CellsCovered
<1>11. \A x, y \in Int : Covers(o, x, y) => \E p \in Tiles(t) : Below(b, p) /\ Covers(rect[p], x, y)
  <2>1. \A x, y \in Int : Covers(o, x, y) => \E p \in Tiles(t) : Below(b, p) /\ Covers(Rect(t, p, w, h), x, y)
    <3> HIDE DEF b
    <3> QED BY <1>1, CellsCovered
  <2> HIDE DEF rect, o, b
  <2> QED BY <1>2, <2>1
<1>12. \A p, q \in Tiles(t), x, y \in Int : Covers(rect[p], x, y) /\ Covers(rect[q], x, y) => p = q
  <2> TAKE p, q \in Tiles(t), x, y \in Int
  <2>1. Covers(Rect(t, p, w, h), x, y) /\ Covers(Rect(t, q, w, h), x, y) => p = q
    BY OneTile
  <2> HIDE DEF rect
  <2> QED BY <1>2, <2>1
<1> HIDE DEF rect, a, b, k, o
<1>13. k.w > 0 /\ k.h > 0 /\ o.w > 0 /\ o.h > 0
  <2> DEFINE r == rect[p0]
             s == rect[q0]
  <2>1. r.w > 0 /\ r.h > 0 /\ s.w > 0 /\ s.h > 0 /\ Inside(r, k) /\ Inside(s, o) /\ r \in Box /\ s \in Box
    BY <1>2, <1>3, <1>5, <1>7
  <2> HIDE DEF r, s
  <2>2. r.x \in Int /\ r.y \in Int /\ r.w \in Int /\ r.h \in Int /\ s.x \in Int /\ s.y \in Int /\ s.w \in Int /\ s.h \in Int
    BY <2>1, Fields
  <2>3. k.x \in Int /\ k.y \in Int /\ k.w \in Int /\ k.h \in Int /\ o.x \in Int /\ o.y \in Int /\ o.w \in Int /\ o.h \in Int
    BY <1>4, Fields
  <2> QED BY <2>1, <2>2, <2>3 DEF Inside
<1>14. PICK x \in Int, y \in Int, x1 \in Int, y1 \in Int :
         /\ Covers(k, x, y) /\ Covers(o, x1, y1)
         /\ \A p, e \in Box : Inside(p, k) /\ Covers(p, x, y) /\ Inside(e, o) /\ Covers(e, x1, y1)
              => Gap(d, p, e) = 0 /\ Shared(d, p, e) > 0
  BY <1>4, <1>6, <1>13, BorderCells
<1>15. PICK p \in Tiles(t) : Below(a, p) /\ Covers(rect[p], x, y)
  BY <1>10, <1>14
<1>16. PICK e \in Tiles(t) : Below(b, e) /\ Covers(rect[e], x1, y1)
  BY <1>11, <1>14
<1> DEFINE f == Neighbour(rect, p, d)
<1>17. rect[p] \in Box /\ rect[e] \in Box /\ Inside(rect[p], k) /\ Inside(rect[e], o)
  BY <1>2, <1>5, <1>15, <1>16
<1>18. Gap(d, rect[p], rect[e]) = 0 /\ Shared(d, rect[p], rect[e]) > 0
  BY <1>14, <1>15, <1>16, <1>17
<1>19. p # e
  <2> SUFFICES ASSUME p = e PROVE FALSE
    OBVIOUS
  <2> DEFINE r == rect[p]
  <2>1. Gap(d, r, r) = 0 /\ r \in Box /\ r.w > 0 /\ r.h > 0
    BY <1>3, <1>17, <1>18
  <2> HIDE DEF r
  <2>2. r.x \in Int /\ r.y \in Int /\ r.w \in Int /\ r.h \in Int
    BY <2>1, Fields
  <2> QED BY <2>1, <2>2 DEF Gap, Directions
<1>20. /\ f \in Tiles(t) /\ Gap(d, rect[p], rect[f]) >= 0 /\ Gap(d, rect[p], rect[f]) <= 0
       /\ Shared(d, rect[p], rect[f]) > 0
  BY <1>8, <1>9, <1>18, <1>19
<1> HIDE DEF f
<1>21. rect[f] \in Box /\ rect[f].w > 0 /\ rect[f].h > 0
  BY <1>2, <1>3, <1>20
<1>22. Gap(d, rect[p], rect[f]) = 0
  <2> DEFINE r == rect[p]
             s == rect[f]
  <2>1. r.x \in Int /\ r.y \in Int /\ r.w \in Int /\ r.h \in Int /\ s.x \in Int /\ s.y \in Int /\ s.w \in Int /\ s.h \in Int
    BY <1>17, <1>21, Fields
  <2> HIDE DEF r, s
  <2>2. Gap(d, r, s) \in Int
    BY <2>1 DEF Gap, Directions
  <2>3. Gap(d, r, s) >= 0 /\ Gap(d, r, s) <= 0
    BY <1>20 DEF r, s
  <2> QED BY <2>2, <2>3 DEF r, s
<1>23. PICK x2 \in Int, y2 \in Int : Covers(rect[f], x2, y2) /\ Covers(o, x2, y2)
  BY <1>4, <1>6, <1>13, <1>17, <1>18, <1>20, <1>21, <1>22, ReachesOver
<1>24. PICK q \in Tiles(t) : Below(b, q) /\ Covers(rect[q], x2, y2)
  BY <1>11, <1>23
<1>25. f = q
  BY <1>12, <1>20, <1>23, <1>24
<1> QED BY <1>15, <1>24, <1>25 DEF f, rect, a, b

\* Some move leads out of every set of tiles that is not all of them: at the lowest
\* fork that has tiles both in the set and outside, each child has only the one kind
LEMMA NoneStranded ==
  ASSUME NEW t, NEW n \in Nat, Good(t, n), NEW w \in Nat, NEW h \in Nat,
         \A p \in Tiles(t) : Usable(Rects(t, w, h)[p]),
         NEW S \in SUBSET Tiles(t), S # {}, S # Tiles(t)
  PROVE  \E p \in S, d \in Directions : Neighbour(Rects(t, w, h), p, d) \notin S
<1> DEFINE Mixed(u) == (\E p \in S : Below(u, p)) /\ (\E q \in Tiles(t) \ S : Below(u, q))
           D == {u \in DOMAIN t : Mixed(u)}
           L == {Len(u) : u \in D}
<1>0. /\ Built(t) /\ Filled(t, n) /\ DOMAIN t \subseteq Path /\ Tiles(t) \subseteq DOMAIN t /\ <<>> \in DOMAIN t
      /\ <<>> \in Path
  BY DEF Good, Built, Tiles
<1>1. \A p \in Path : Below(<<>>, p)
  BY <1>0, BelowMeans DEF Path
<1>2. <<>> \in D
  BY <1>0, <1>1
<1>3. L \subseteq Nat /\ Len(<<>>) \in L
  <2>1. \A u \in D : Len(u) \in Nat
    BY <1>0 DEF Path
  <2> QED BY <1>2, <2>1
<1>4. PICK m \in Nat : \A u \in DOMAIN t : Len(u) <= m
  BY <1>0 DEF Built
<1>5. \A k \in L : k <= m
  BY <1>4
<1>6. PICK k \in L : \A j \in L : j <= k
  <2> HIDE DEF L
  <2> QED BY <1>3, <1>4, <1>5, GreatestOf
<1>7. PICK u \in D : k = Len(u)
  BY Zenon
<1>8. u \in DOMAIN t /\ u \in Path /\ Len(u) \in Nat
  BY <1>0 DEF Path
<1>9. PICK p \in S, q \in Tiles(t) \ S : Below(u, p) /\ Below(u, q)
  BY Zenon
<1>10. ~t[u].leaf
  <2> SUFFICES ASSUME t[u].leaf PROVE FALSE
    OBVIOUS
  <2>1. p = u /\ q = u
    BY <1>0, <1>8, <1>9, Ancestors
  <2> QED BY <2>1
<1>11. u \notin Tiles(t)
  BY <1>10 DEF Tiles
<1>12. PICK x \in Step : Below(Kid(u, x), p)
  BY <1>0, <1>8, <1>9, <1>11, BelowKid
<1>13. PICK y \in Step : Below(Kid(u, y), q)
  BY <1>0, <1>8, <1>9, <1>11, BelowKid
<1>14. ASSUME NEW z \in Step PROVE ~Mixed(Kid(u, z))
  <2> SUFFICES ASSUME Mixed(Kid(u, z)) PROVE FALSE
    OBVIOUS
  <2> DEFINE c == Kid(u, z)
  <2>1. c \in DOMAIN t /\ Len(c) = Len(u) + 1
    BY <1>0, <1>8, <1>10, Kids DEF Built
  <2>2. Len(c) \in L
    BY <2>1
  <2>3. Len(u) + 1 <= Len(u)
    BY <1>6, <1>7, <2>1, <2>2
  <2> QED BY <1>8, <2>3
<1>15. \A s \in Tiles(t) : Below(Kid(u, x), s) => s \in S
  BY <1>12, <1>14
<1>16. \A s \in Tiles(t) : Below(Kid(u, y), s) => s \notin S
  BY <1>13, <1>14
<1>17. y = Other(x)
  <2>1. x # y
    BY <1>12, <1>16
  <2> QED BY <2>1 DEF Other, Step
<1>18. PICK s \in Tiles(t), d \in Directions :
         Below(Kid(u, x), s) /\ Below(Kid(u, Other(x)), Neighbour(Rects(t, w, h), s, d))
  BY <1>8, <1>10, FocusCrosses
<1>19. Neighbour(Rects(t, w, h), s, d) \in Tiles(t)
  BY RectsAre, NeighbourIs
<1> QED BY <1>15, <1>16, <1>17, <1>18, <1>19

-----------------------------------------------------------------------------
(* The retired roles' tiles *)

\* What the slots gone through so far have left: a tree and its focus
Left(v, n) == Good(v.tree, n) /\ v.focused \in Tiles(v.tree)

LEMMA DropTileKeeps ==
  ASSUME NEW v, NEW n \in Nat, Left(v, n), Start \in 0..(n - 1), NEW i
  PROVE  Left(DropTile(v, i), n)
<1> DEFINE t == v.tree
           f == FocusRole(t, v.focused, i)
           u == CloseTree(t, f)
<1>0. Good(t, n) /\ Filled(t, n) /\ v.focused \in Tiles(t)
  BY DEF Left, Good
<1>1. CASE Shows(t, i) = {}
  BY <1>1 DEF DropTile
<1>2. CASE Shows(t, i) # {} /\ f = <<>>
  <2>1. DropTile(v, i) = [tree |-> Alone(Start), focused |-> <<>>, dropped |-> TRUE]
    BY <1>2 DEF DropTile
  <2>2. DropTile(v, i).tree = Alone(Start) /\ DropTile(v, i).focused = <<>>
    BY <2>1
  <2>3. Good(Alone(Start), n) /\ <<>> \in Tiles(Alone(Start))
    BY AloneIsGood
  <2> QED BY <2>2, <2>3 DEF Left
<1>3. CASE Shows(t, i) # {} /\ f # <<>>
  <2>1. DropTile(v, i) = [tree |-> u, focused |-> FirstLeaf(u, Parent(f)), dropped |-> TRUE]
    BY <1>3 DEF DropTile
  <2>2. DropTile(v, i).tree = u /\ DropTile(v, i).focused = FirstLeaf(u, Parent(f))
    BY <2>1
  <2>3. f \in Tiles(t)
    BY <1>0, FocusRoleIs
  <2> HIDE DEF f
  <2>4. Good(u, n) /\ Parent(f) \in DOMAIN u
    BY <1>0, <1>3, <2>3, CloseKeeps
  <2> HIDE DEF u
  <2>5. FirstLeaf(u, Parent(f)) \in Tiles(u)
    BY <2>4, FirstLeafIs DEF Good
  <2> QED BY <2>2, <2>4, <2>5 DEF Left
<1> QED BY <1>1, <1>2, <1>3

LEMMA DropTilesKeeps ==
  ASSUME NEW v, NEW n \in Nat, Left(v, n), Start \in 0..(n - 1), size \in Nat, NEW stale
  PROVE  Left(DropTiles(v, stale), n)
<1> DEFINE Runs(g, m) == g = [k \in 0..m |-> IF k = 0 THEN v
                                             ELSE IF k - 1 \in stale THEN DropTile(g[k - 1], k - 1) ELSE g[k - 1]]
           f == CHOOSE g : Runs(g, size)
           S == {m \in Nat : ~\E g : Runs(g, m)}
<1>1. DropTiles(v, stale) = f[size]
  BY Zenon DEF DropTiles
<1>2. \A m \in Nat : \E g : Runs(g, m)
  <2> SUFFICES ASSUME NEW c \in S PROVE FALSE
    BY Zenon
  <2>1. S \subseteq Nat
    BY Zenon
  <2> HIDE DEF S
  <2>2. PICK m \in S : \A j \in S : m <= j
    BY <2>1, LeastOf
  <2> USE DEF S
  <2>3. m \in Nat /\ ~\E g : Runs(g, m)
    BY Zenon
  <2>4. CASE m = 0
    <3> DEFINE g == [k \in 0..0 |-> v]
    <3>1. Runs(g, 0)
      OBVIOUS
    <3> QED BY <2>3, <2>4, <3>1, Zenon
  <2>5. CASE m # 0
    <3>1. m - 1 \in Nat /\ ~(m <= m - 1)
      BY <2>3, <2>5
    <3> DEFINE i == m - 1
    <3> HIDE DEF i
    <3>2. i \in Nat /\ i \notin S
      BY <2>2, <3>1 DEF i
    <3>3. PICK g : Runs(g, i)
      BY <3>2, Zenon
    <3> DEFINE e == [k \in 0..m |-> IF k = m THEN IF i \in stale THEN DropTile(g[i], i) ELSE g[i] ELSE g[k]]
    <3>4. ASSUME NEW k \in 0..m
          PROVE  e[k] = IF k = 0 THEN v
                        ELSE IF k - 1 \in stale THEN DropTile(e[k - 1], k - 1) ELSE e[k - 1]
      <4>1. CASE k = m
        <5>1. k - 1 = i /\ i \in 0..m /\ i # m /\ k # 0
          BY <2>3, <2>5, <4>1 DEF i
        <5>2. e[k] = IF i \in stale THEN DropTile(g[i], i) ELSE g[i]
          BY <4>1
        <5>3. e[i] = g[i]
          BY <5>1
        <5> HIDE DEF e
        <5> QED BY <4>1, <5>1, <5>2, <5>3
      <4>2. CASE k # m
        <5>1. k \in 0..i
          BY <2>3, <4>2 DEF i
        <5>2. e[k] = g[k]
          BY <4>2
        <5>3. g[k] = IF k = 0 THEN v
                     ELSE IF k - 1 \in stale THEN DropTile(g[k - 1], k - 1) ELSE g[k - 1]
          BY <3>3, <5>1
        <5>4. k # 0 => e[k - 1] = g[k - 1]
          <6>1. k # 0 => k - 1 \in 0..m /\ k - 1 # m
            BY <2>3
          <6> QED BY <6>1
        <5> HIDE DEF e
        <5> QED BY <5>2, <5>3, <5>4
      <4> QED BY <4>1, <4>2
    <3>5. e = [k \in 0..m |-> e[k]]
      OBVIOUS
    <3> HIDE DEF e
    <3>6. e = [k \in 0..m |-> IF k = 0 THEN v
                              ELSE IF k - 1 \in stale THEN DropTile(e[k - 1], k - 1) ELSE e[k - 1]]
      BY <3>4, <3>5
    <3> QED BY <2>3, <3>6, Zenon
  <2> QED BY <2>4, <2>5
<1>3. Runs(f, size)
  BY <1>2, Zenon
<1> HIDE DEF f
<1>4. f[0] = v
  BY <1>3
<1>5. \A k \in 1..size : f[k] = IF k - 1 \in stale THEN DropTile(f[k - 1], k - 1) ELSE f[k - 1]
  <2> TAKE k \in 1..size
  <2>1. k \in 0..size /\ k # 0
    OBVIOUS
  <2> QED BY <1>3, <2>1
<1>6. Left(f[size], n)
  <2> DEFINE T == {k \in Nat : k <= size /\ ~Left(f[k], n)}
  <2> SUFFICES ASSUME NEW c \in T PROVE FALSE
    OBVIOUS
  <2>1. T \subseteq Nat
    OBVIOUS
  <2> HIDE DEF T
  <2>2. PICK k \in T : \A j \in T : k <= j
    BY <2>1, LeastOf
  <2> USE DEF T
  <2>3. k \in Nat /\ k <= size /\ ~Left(f[k], n)
    OBVIOUS
  <2>4. k # 0
    BY <1>4, <2>3
  <2> DEFINE i == k - 1
  <2>5. i \in Nat /\ i <= size /\ ~(k <= i) /\ k \in 1..size
    BY <2>3, <2>4
  <2>6. Left(f[i], n)
    BY <2>2, <2>5
  <2>7. f[k] = IF i \in stale THEN DropTile(f[i], i) ELSE f[i]
    BY <1>5, <2>5
  <2> HIDE DEF i
  <2>8. Left(DropTile(f[i], i), n)
    BY <2>6, DropTileKeeps
  <2> QED BY <2>3, <2>6, <2>7, <2>8
<1> QED BY <1>1, <1>6

-----------------------------------------------------------------------------
(* The invariant: the tree in use is well built, its focus a tile of it that shows   *)
(* the active role, and the layout kept for the next UI is well built too: the next  *)
(* UI makes it its tree without a look at the roster.                                 *)

Typed ==
  /\ size \in Roles0..MaxRoles /\ gone \subseteq 0..(size - 1)
  /\ ui \in {"open", "closed"}
  /\ zoomed \in BOOLEAN /\ resizing \in BOOLEAN /\ manual \in BOOLEAN
  /\ area \in Areas
Shown == Good(tree, size) /\ focused \in Tiles(tree) /\ ActiveIsFocused
Kept == layout # NoLayout => Good(layout.nodes, size)
UIInv == Typed /\ Shown /\ Kept

LEMMA Sizes ==
  ASSUME Typed
  PROVE  /\ size \in Nat /\ size > 0 /\ size <= MaxRoles /\ MaxRoles \in Nat
         /\ Start \in 0..(size - 1) /\ area[1] \in Nat /\ area[2] \in Nat
<1>1. size \in Int /\ Roles0 \in Nat /\ Roles0 > 0 /\ Roles0 <= size /\ size <= MaxRoles /\ MaxRoles \in Nat
  BY TilingAssumption DEF Typed
<1>2. Start \in 0..(size - 1)
  BY <1>1, TilingAssumption
<1>3. area \in Nat \X Nat
  BY TilingAssumption DEF Typed
<1> QED BY <1>1, <1>2, <1>3

LEMMA RosterGrows ==
  ASSUME NEW t, NEW n \in Nat, NEW m \in Nat, n <= m, Good(t, n)
  PROVE  Good(t, m)
<1>1. \A p \in Tiles(t) : t[p].role \in 0..(n - 1)
  BY DEF Good, Filled
<1>2. \A p \in Tiles(t) : t[p].role \in 0..(m - 1)
  BY <1>1
<1> QED BY <1>2 DEF Good, Filled

LEMMA ShownStays ==
  ASSUME UIInv, UNCHANGED <<tree, focused, active>>, size' \in Nat, size <= size'
  PROVE  Shown'
<1>1. Good(tree, size')
  BY Sizes, RosterGrows DEF UIInv, Shown
<1> QED BY <1>1 DEF UIInv, Shown, ActiveIsFocused

LEMMA LayoutStays ==
  ASSUME UIInv, UNCHANGED layout, size' \in Nat, size <= size'
  PROVE  Kept'
BY Sizes, RosterGrows DEF UIInv, Kept

LEMMA LayoutKept ==
  ASSUME Keep, Shown'
  PROVE  Kept'
<1>1. layout'.nodes = tree'
  BY DEF Keep, Marshal
<1> QED BY <1>1 DEF Kept, Shown

\* Focus on a role of the roster
LEMMA FocusOnKeeps ==
  ASSUME UIInv, NEW i \in 0..(size - 1), FocusOn(i), UNCHANGED size
  PROVE  Shown'
<1>1. CASE i = active
  <2>1. UNCHANGED <<tree, focused, active>>
    BY <1>1 DEF FocusOn, treeVars
  <2>2. size' \in Nat /\ size <= size'
    BY Sizes DEF UIInv
  <2> QED BY <2>1, <2>2, ShownStays
<1>2. CASE i # active
  <2>1. tree' = Retarget(tree, focused, i) /\ focused' = FocusRole(tree, focused, i) /\ active' = tree'[focused'].role
    BY <1>2 DEF FocusOn, SyncFocus
  <2>2. Good(Retarget(tree, focused, i), size) /\ FocusRole(tree, focused, i) \in Tiles(Retarget(tree, focused, i))
    BY Sizes, RetargetKeeps DEF UIInv, Shown
  <2> QED BY <2>1, <2>2 DEF Shown, ActiveIsFocused
<1> QED BY <1>1, <1>2

LEMMA SurfaceKeeps ==
  ASSUME UIInv, NEW i \in 0..(size - 1), Surface(i), UNCHANGED size
  PROVE  Shown' /\ manual' \in BOOLEAN
<1>1. CASE i \in gone
  <2>1. UNCHANGED <<tree, focused, active, manual>>
    BY <1>1 DEF Surface, treeVars
  <2>2. size' \in Nat /\ size <= size'
    BY Sizes DEF UIInv
  <2> QED BY <2>1, <2>2, ShownStays DEF UIInv, Typed
<1>2. CASE i \notin gone
  BY <1>2, FocusOnKeeps DEF Surface
<1> QED BY <1>1, <1>2

LEMMA InitUIInv == Init => UIInv
<1> SUFFICES ASSUME Init PROVE UIInv
  OBVIOUS
<1>1. Typed
  <2>1. size = Roles0 /\ gone = {} /\ ui = "open" /\ zoomed = FALSE /\ resizing = FALSE /\ manual = FALSE /\ area \in Areas
    BY DEF Init
  <2>2. Roles0 \in Roles0..MaxRoles
    BY TilingAssumption
  <2> QED BY <2>1, <2>2 DEF Typed
<1>2. tree = Alone(Start) /\ focused = <<>> /\ active = Start
  BY DEF Init
<1>3. Good(Alone(Start), size) /\ Tiles(Alone(Start)) = {<<>>} /\ Alone(Start)[<<>>].role = Start
  BY <1>1, Sizes, AloneIsGood
<1>4. Shown
  BY <1>2, <1>3 DEF Shown, ActiveIsFocused
<1> QED BY <1>1, <1>4 DEF Init, Kept, UIInv

LEMMA SplitStep ==
  ASSUME UIInv, NEW vert \in BOOLEAN, Split(vert)
  PROVE  UIInv'
<1> DEFINE next == {k \in 1..size : Hidden((active + k) % size)}
           k0 == CHOOSE k \in next : \A j \in next : k <= j
           role == (active + k0) % size
<1>0. size \in Nat /\ size > 0 /\ Good(tree, size) /\ focused \in Tiles(tree)
  BY Sizes DEF UIInv, Shown
<1>1. UNCHANGED <<size, gone, ui, area, resizing>> /\ Keep
  BY DEF Split, roster
<1>2. CASE next = {}
  <2>1. UNCHANGED <<tree, focused, active, manual, zoomed>>
    BY <1>2, Zenon DEF Split, treeVars
  <2>2. Shown'
    BY <1>0, <1>1, <2>1, ShownStays
  <2>3. Typed'
    BY <1>1, <2>1 DEF UIInv, Typed
  <2> QED BY <1>1, <2>2, <2>3, LayoutKept DEF UIInv
<1>3. CASE next # {}
  <2>1. manual' = TRUE /\ zoomed' = FALSE /\ tree' = SplitTree(tree, focused, vert, role)
        /\ focused' = focused \o <<"b">> /\ active' = tree'[focused'].role
    BY <1>3, Zenon DEF Split, SyncFocus
  <2>2. k0 \in next
    <3>1. PICK m \in next : TRUE
      BY <1>3
    <3>2. next \subseteq Nat
      OBVIOUS
    <3> HIDE DEF next
    <3>3. \E k \in next : \A j \in next : k <= j
      BY <3>1, <3>2, LeastOf
    <3> QED BY <3>3, Zenon
  <2> HIDE DEF k0
  <2>3. k0 \in 1..size /\ Hidden(role)
    BY <2>2
  <2>4. active \in Int
    BY <1>0 DEF UIInv, Shown, ActiveIsFocused, Good, Filled
  <2>5. role \in 0..(size - 1)
    BY <1>0, <2>3, <2>4
  <2>6. Shows(tree, role) = {}
    BY <2>3 DEF Hidden
  <2> HIDE DEF role
  <2>7. Good(SplitTree(tree, focused, vert, role), size)
        /\ focused \o <<"b">> \in Tiles(SplitTree(tree, focused, vert, role))
    BY <1>0, <2>5, <2>6, SplitKeeps
  <2>8. Shown'
    BY <1>1, <2>1, <2>7 DEF Shown, ActiveIsFocused
  <2>9. Typed'
    BY <1>1, <2>1 DEF UIInv, Typed
  <2> QED BY <1>1, <2>8, <2>9, LayoutKept DEF UIInv
<1> QED BY <1>2, <1>3

LEMMA CloseStep ==
  ASSUME UIInv, ClosePane
  PROVE  UIInv'
<1>0. size \in Nat /\ size > 0 /\ Good(tree, size) /\ focused \in Tiles(tree)
  BY Sizes DEF UIInv, Shown
<1>1. UNCHANGED <<size, gone, ui, area, resizing>> /\ Keep /\ zoomed' = FALSE
  BY DEF ClosePane, roster
<1>2. CASE focused = <<>>
  <2>1. UNCHANGED <<tree, focused, active, manual>>
    BY <1>2 DEF ClosePane, treeVars
  <2>2. Shown'
    BY <1>0, <1>1, <2>1, ShownStays
  <2>3. Typed'
    BY <1>1, <2>1 DEF UIInv, Typed
  <2> QED BY <1>1, <2>2, <2>3, LayoutKept DEF UIInv
<1>3. CASE focused # <<>>
  <2>1. manual' = TRUE /\ tree' = CloseTree(tree, focused) /\ focused' = FirstLeaf(tree', Parent(focused))
        /\ active' = tree'[focused'].role
    BY <1>3 DEF ClosePane, SyncFocus
  <2>2. Good(tree', size) /\ Parent(focused) \in DOMAIN tree'
    BY <1>0, <1>3, <2>1, CloseKeeps
  <2>3. focused' \in Tiles(tree')
    BY <2>1, <2>2, FirstLeafIs DEF Good
  <2>4. Shown'
    BY <1>1, <2>1, <2>2, <2>3 DEF Shown, ActiveIsFocused
  <2>5. Typed'
    BY <1>1, <2>1 DEF UIInv, Typed
  <2> QED BY <1>1, <2>4, <2>5, LayoutKept DEF UIInv
<1> QED BY <1>2, <1>3

LEMMA FocusDirStep ==
  ASSUME UIInv, NEW d \in Directions, FocusDir(d)
  PROVE  UIInv'
<1>0. size \in Nat /\ Good(tree, size) /\ focused \in Tiles(tree) /\ area[1] \in Nat /\ area[2] \in Nat
  BY Sizes DEF UIInv, Shown
<1>1. /\ UNCHANGED <<size, gone, ui, area, zoomed, resizing, tree>> /\ Keep /\ manual' = TRUE
      /\ active' = tree'[focused'].role
      /\ focused' = IF zoomed THEN focused ELSE Neighbour(TileRects, focused, d)
  BY DEF FocusDir, roster, modes, SyncFocus
<1>2. TileRects \in [Tiles(tree) -> Box]
  BY <1>0, RectsAre DEF TileRects
<1>3. Neighbour(TileRects, focused, d) \in Tiles(tree)
  BY <1>0, <1>2, NeighbourIs
<1>4. Shown'
  BY <1>0, <1>1, <1>3 DEF Shown, ActiveIsFocused
<1>5. Typed'
  BY <1>1 DEF UIInv, Typed
<1> QED BY <1>1, <1>4, <1>5, LayoutKept DEF UIInv

LEMMA CycleStep ==
  ASSUME UIInv, NEW step \in {1, -1}, Cycle(step)
  PROVE  UIInv'
<1> DEFINE ls == Leaves(tree)
           k0 == CHOOSE k \in 1..Len(ls) : ls[k] = focused
           n == Len(ls)
<1>0. size \in Nat /\ Good(tree, size) /\ focused \in Tiles(tree)
  BY Sizes DEF UIInv, Shown
<1>1. /\ UNCHANGED <<size, gone, ui, area, zoomed, resizing, tree>> /\ Keep /\ manual' = TRUE
      /\ active' = tree'[focused'].role
  BY DEF Cycle, roster, modes, SyncFocus
<1>2. focused' = ls[Turn(k0, step, n)]
  BY DEF Cycle
<1>3. n \in Nat \ {0} /\ (\A k \in 1..n : ls[k] \in Tiles(tree)) /\ \E k \in 1..n : ls[k] = focused
  BY <1>0, LeavesAre
<1>4. k0 \in 1..n
  BY <1>3, Zenon
<1> HIDE DEF ls, k0, n
<1>5. Turn(k0, step, n) \in 1..n
  <2> DEFINE z == k0 - 1 + step + n
  <2>1. z \in Int
    BY <1>3, <1>4
  <2> HIDE DEF z
  <2>2. z % n \in 0..(n - 1)
    BY <1>3, <2>1
  <2>3. (z % n) + 1 \in 1..n
    BY <1>3, <2>2
  <2> QED BY <2>3 DEF z, Turn
<1>6. focused' \in Tiles(tree)
  BY <1>2, <1>3, <1>5
<1>7. Shown'
  BY <1>0, <1>1, <1>6 DEF Shown, ActiveIsFocused
<1>8. Typed'
  BY <1>1 DEF UIInv, Typed
<1> QED BY <1>1, <1>7, <1>8, LayoutKept DEF UIInv

\* A divider is a fork above the focused tile
LEMMA DividerIs ==
  ASSUME NEW t, Built(t), NEW f \in DOMAIN t, NEW vert, NEW p \in Divider(t, f, vert)
  PROVE  p \in DOMAIN t /\ ~t[p].leaf
<1> DEFINE above == {k \in 0..(Len(f) - 1) : t[SubSeq(f, 1, k)].vert = vert}
           k0 == CHOOSE k \in above : \A j \in above : j <= k
<1>0. f \in Path /\ Len(f) \in Nat
  BY DEF Built, Path
<1>1. above # {} /\ p = SubSeq(f, 1, k0)
  BY Zenon DEF Divider
<1>2. above \subseteq Nat /\ \A k \in above : k <= Len(f)
  BY <1>0
<1>3. PICK m \in above : TRUE
  BY <1>1
<1>4. above \subseteq 0..(Len(f) - 1)
  OBVIOUS
<1> HIDE DEF above
<1>5. \E k \in above : \A j \in above : j <= k
  BY <1>0, <1>2, <1>3, GreatestOf
<1>6. k0 \in above
  BY <1>5, Zenon
<1> HIDE DEF k0
<1>7. k0 \in Int /\ 0 <= k0 /\ k0 < Len(f)
  BY <1>0, <1>4, <1>6
<1>8. p \in Path /\ Below(p, f) /\ p # f
  BY <1>0, <1>1, <1>7, Above
<1> QED BY <1>8, Ancestors

LEMMA ResizeStep ==
  ASSUME UIInv, NEW vert \in BOOLEAN, NEW delta \in Deltas, ResizeKey(vert, delta)
  PROVE  UIInv'
<1> DEFINE D == Divider(tree, focused, vert)
           moved(p) == Fork(vert, ClampRatio(tree[p].ratio + delta))
           u == [p \in DOMAIN tree |-> IF p \in D THEN moved(p) ELSE tree[p]]
<1>0. size \in Nat /\ Good(tree, size) /\ Built(tree) /\ Filled(tree, size) /\ focused \in Tiles(tree)
      /\ focused \in DOMAIN tree /\ tree[focused].leaf /\ active = tree[focused].role
  BY Sizes DEF UIInv, Shown, Good, Tiles, ActiveIsFocused
<1>1. UNCHANGED <<size, gone, ui, area, focused, active, manual, zoomed, resizing, layout>> /\ tree' = u
  BY DEF ResizeKey, roster, modes
<1>2. \A p \in D : p \in DOMAIN tree /\ ~tree[p].leaf
  BY <1>0, DividerIs
<1>3. \A p \in DOMAIN tree : u[p] = IF p \in D THEN moved(p) ELSE tree[p]
  OBVIOUS
<1>4. DOMAIN u = DOMAIN tree
  OBVIOUS
<1> HIDE DEF u, D
<1>5. \A p \in D : moved(p).leaf = FALSE /\ moved(p).vert = vert /\ moved(p).ratio = ClampRatio(tree[p].ratio + delta)
  BY DEF Fork
<1> HIDE DEF moved
<1>6. \A p \in DOMAIN tree : u[p].leaf = tree[p].leaf
  <2> TAKE p \in DOMAIN tree
  <2>1. tree[p].leaf \in BOOLEAN
    BY <1>0 DEF Built
  <2>2. CASE p \in D
    BY <1>2, <1>3, <1>5, <2>1, <2>2
  <2>3. CASE p \notin D
    BY <1>3, <2>3
  <2> QED BY <2>2, <2>3
<1>7. Built(u) /\ Tiles(u) = Tiles(tree)
  BY <1>0, <1>4, <1>6, SameShape
<1>8. \A p \in Tiles(tree) : u[p] = tree[p] /\ p \in DOMAIN tree
  BY <1>2, <1>3 DEF Tiles
<1>9. Filled(u, size)
  <2>1. \A r \in Int : ClampRatio(r) \in MinRatio..MaxRatio
    BY DEF ClampRatio, MinRatio, MaxRatio
  <2>2. ASSUME NEW p \in DOMAIN u \ Tiles(u) PROVE u[p].vert \in BOOLEAN /\ u[p].ratio \in MinRatio..MaxRatio
    <3>1. p \in DOMAIN tree \ Tiles(tree)
      BY <1>4, <1>7
    <3>2. tree[p].vert \in BOOLEAN /\ tree[p].ratio \in MinRatio..MaxRatio
      BY <1>0, <3>1 DEF Filled
    <3>3. tree[p].ratio + delta \in Int
      <4>1. delta \in Int
        BY TilingAssumption
      <4> QED BY <3>2, <4>1 DEF MinRatio, MaxRatio
    <3>4. CASE p \in D
      <4>1. u[p] = moved(p)
        BY <1>3, <3>1, <3>4
      <4> QED BY <1>5, <2>1, <3>3, <3>4, <4>1
    <3>5. CASE p \notin D
      BY <1>3, <3>1, <3>2, <3>5
    <3> QED BY <3>4, <3>5
  <2> QED BY <1>0, <1>7, <1>8, <2>2 DEF Filled
<1>10. Shown'
  BY <1>0, <1>1, <1>7, <1>8, <1>9 DEF Shown, Good, ActiveIsFocused
<1>11. Typed'
  BY <1>1 DEF UIInv, Typed
<1>12. Kept'
  BY <1>0, <1>1, LayoutStays
<1> QED BY <1>10, <1>11, <1>12 DEF UIInv

LEMMA OpenStep ==
  ASSUME UIInv, Open
  PROVE  UIInv'
<1>0. size \in Nat /\ Start \in 0..(size - 1)
  BY Sizes DEF UIInv
<1>1. /\ UNCHANGED <<size, gone, area, layout>> /\ ui' = "open"
      /\ manual' = FALSE /\ zoomed' = FALSE /\ resizing' = FALSE
      /\ active' = tree'[focused'].role
  BY DEF Open
<1>2. Kept'
  BY <1>0, <1>1, LayoutStays
<1>3. Typed'
  BY <1>1 DEF UIInv, Typed
<1>4. CASE layout = NoLayout
  <2>1. tree' = Alone(Start) /\ focused' = <<>>
    BY <1>4 DEF Open
  <2>2. Good(Alone(Start), size) /\ <<>> \in Tiles(Alone(Start))
    BY <1>0, AloneIsGood
  <2>3. Shown'
    BY <1>1, <2>1, <2>2 DEF Shown, ActiveIsFocused
  <2> QED BY <1>2, <1>3, <2>3 DEF UIInv
<1>5. CASE layout # NoLayout
  <2> DEFINE t == layout.nodes
  <2>1. tree' = t /\ focused' = FocusRole(t, FirstLeaf(t, <<>>), layout.focused)
    BY <1>5 DEF Open, UnmarshalFocus
  <2>2. Good(t, size)
    BY <1>5 DEF UIInv, Kept
  <2> HIDE DEF t
  <2>3. FirstLeaf(t, <<>>) \in Tiles(t)
    BY <2>2, FirstLeafIs DEF Good, Built
  <2>4. FocusRole(t, FirstLeaf(t, <<>>), layout.focused) \in Tiles(t)
    BY <2>2, <2>3, FocusRoleIs DEF Good
  <2>5. Shown'
    BY <1>1, <2>1, <2>2, <2>4 DEF Shown, ActiveIsFocused
  <2> QED BY <1>2, <1>3, <2>5 DEF UIInv
<1> QED BY <1>4, <1>5

LEMMA ClosedStep ==
  ASSUME UIInv, Quit \/ Cut
  PROVE  UIInv'
<1>0. size \in Nat /\ Start \in 0..(size - 1) /\ Good(tree, size)
  BY Sizes DEF UIInv, Shown
<1>1. PICK kept : Closed(kept) /\ (kept = Marshal(tree, focused) \/ kept = layout)
  BY DEF Quit, Cut
<1>2. /\ UNCHANGED <<size, gone, area>> /\ ui' = "closed" /\ layout' = kept
      /\ manual' = FALSE /\ zoomed' = FALSE /\ resizing' = FALSE
      /\ tree' = Alone(Start) /\ focused' = <<>> /\ active' = Start
  BY <1>1 DEF Closed
<1>3. Good(Alone(Start), size) /\ Tiles(Alone(Start)) = {<<>>} /\ Alone(Start)[<<>>].role = Start
  BY <1>0, AloneIsGood
<1>4. Shown'
  BY <1>2, <1>3 DEF Shown, ActiveIsFocused
<1>5. Marshal(tree, focused).nodes = tree
  BY DEF Marshal
<1>6. Kept'
  BY <1>0, <1>1, <1>2, <1>5 DEF UIInv, Kept
<1>7. Typed'
  BY <1>2 DEF UIInv, Typed
<1> QED BY <1>4, <1>6, <1>7 DEF UIInv

LEMMA RetireStep ==
  ASSUME UIInv, NEW retired, NEW stale, ReloadRetires(retired, stale)
  PROVE  UIInv'
<1> DEFINE v0 == [tree |-> tree, focused |-> focused, dropped |-> FALSE]
           v == DropTiles(v0, stale)
<1>0. size \in Nat /\ Start \in 0..(size - 1) /\ Good(tree, size) /\ focused \in Tiles(tree)
  BY Sizes DEF UIInv, Shown
<1>1. /\ UNCHANGED <<size, ui, area, manual, resizing, layout>>
      /\ gone' = gone \cup retired /\ retired \subseteq 0..(size - 1)
  BY DEF ReloadRetires
<1>2. Kept'
  BY <1>0, <1>1, LayoutStays
<1>3. CASE ui = "closed"
  <2>1. UNCHANGED <<tree, focused, active, zoomed>>
    BY <1>3 DEF ReloadRetires, treeVars
  <2>2. Shown'
    BY <1>0, <1>1, <2>1, ShownStays
  <2>3. Typed'
    BY <1>1, <2>1 DEF UIInv, Typed
  <2> QED BY <1>2, <2>2, <2>3 DEF UIInv
<1>4. CASE ui # "closed"
  <2>1. tree' = v.tree /\ focused' = v.focused /\ zoomed' = (zoomed /\ ~v.dropped) /\ active' = tree'[focused'].role
    BY <1>4 DEF ReloadRetires, SyncFocus
  <2>2. v0.tree = tree /\ v0.focused = focused
    OBVIOUS
  <2> HIDE DEF v0
  <2>3. Left(v, size)
    BY <1>0, <2>2, DropTilesKeeps DEF Left
  <2> HIDE DEF v
  <2>4. Shown'
    BY <1>1, <2>1, <2>3 DEF Left, Shown, ActiveIsFocused
  <2>5. Typed'
    BY <1>1, <2>1 DEF UIInv, Typed
  <2> QED BY <1>2, <2>4, <2>5 DEF UIInv
<1> QED BY <1>3, <1>4

LEMMA OtherKeysStep ==
  ASSUME UIInv, Zoom \/ ResizeMode \/ ToggleSidebar \/ LeaveResize \/ WindowSize
  PROVE  UIInv'
<1>0. size \in Nat
  BY Sizes DEF UIInv
<1>1. UNCHANGED <<size, gone, ui, tree, focused, active>> /\ (Keep \/ UNCHANGED layout)
  BY DEF Zoom, ResizeMode, ToggleSidebar, LeaveResize, WindowSize, roster, treeVars
<1>2. Shown'
  BY <1>0, <1>1, ShownStays
<1>3. Kept'
  BY <1>0, <1>1, <1>2, LayoutKept, LayoutStays
<1>4. zoomed' \in BOOLEAN /\ resizing' \in BOOLEAN /\ manual' \in BOOLEAN /\ area' \in Areas
  BY DEF UIInv, Typed, Zoom, ResizeMode, ToggleSidebar, LeaveResize, WindowSize, roster, modes
<1>5. Typed'
  BY <1>1, <1>4 DEF UIInv, Typed
<1> QED BY <1>2, <1>3, <1>5 DEF UIInv

LEMMA SurfaceStep ==
  ASSUME UIInv, NEW i \in 0..(MaxRoles - 1), PrefixDigit(i) \/ ClickCard(i)
  PROVE  UIInv'
<1>0. size \in Nat /\ MaxRoles \in Nat
  BY Sizes DEF UIInv
<1>1. UNCHANGED <<size, gone, ui, area, zoomed, resizing>> /\ Surface(i) /\ i < size /\ (Keep \/ UNCHANGED layout)
  BY DEF PrefixDigit, ClickCard, roster, modes
<1>2. i \in 0..(size - 1)
  BY <1>0, <1>1
<1>3. Shown' /\ manual' \in BOOLEAN
  BY <1>1, <1>2, SurfaceKeeps
<1>4. Kept'
  BY <1>0, <1>1, <1>3, LayoutKept, LayoutStays
<1>5. Typed'
  BY <1>1, <1>3 DEF UIInv, Typed
<1> QED BY <1>3, <1>4, <1>5 DEF UIInv

LEMMA FocusStep ==
  ASSUME UIInv, CtrlO \/ (\E p \in Tiles(tree) : ClickTile(p)) \/ \E i \in 0..(MaxRoles - 1) : AutoFocus(i)
  PROVE  UIInv'
<1>0. size \in Nat /\ size > 0 /\ Good(tree, size) /\ focused \in Tiles(tree) /\ active = tree[focused].role
      /\ MaxRoles \in Nat
  BY Sizes DEF UIInv, Shown, ActiveIsFocused
<1>1. UNCHANGED <<size, gone, ui, area, zoomed, resizing, layout>>
  BY DEF CtrlO, ClickTile, AutoFocus, roster, modes
<1>2. Kept'
  BY <1>0, <1>1, LayoutStays
<1>3. \A p \in Tiles(tree) : tree[p].role \in 0..(size - 1)
  BY <1>0 DEF Good, Filled
<1>4. Shown' /\ manual' \in BOOLEAN
  <2>1. CASE CtrlO
    <3>1. FocusOn((active + 1) % size) /\ manual' = TRUE
      BY <2>1 DEF CtrlO
    <3>2. active \in Int
      BY <1>0, <1>3
    <3> DEFINE i == (active + 1) % size
    <3>3. i \in 0..(size - 1)
      BY <1>0, <3>2
    <3> HIDE DEF i
    <3> QED BY <1>1, <3>1, <3>3, FocusOnKeeps DEF i
  <2>2. ASSUME NEW p \in Tiles(tree), ClickTile(p) PROVE Shown' /\ manual' \in BOOLEAN
    <3> DEFINE i == tree[p].role
    <3>1. i \in 0..(size - 1)
      BY <1>3
    <3>2. CASE i = active
      <4>1. UNCHANGED <<tree, focused, active, manual>>
        BY <2>2, <3>2 DEF ClickTile, treeVars
      <4> QED BY <1>0, <1>1, <4>1, ShownStays DEF UIInv, Typed
    <3>3. CASE i # active
      <4>1. FocusOn(i) /\ manual' = TRUE
        BY <2>2, <3>3 DEF ClickTile
      <4> HIDE DEF i
      <4> QED BY <1>1, <3>1, <4>1, FocusOnKeeps
    <3> QED BY <3>2, <3>3
  <2>3. ASSUME NEW i \in 0..(MaxRoles - 1), AutoFocus(i) PROVE Shown' /\ manual' \in BOOLEAN
    <3>1. FocusOn(i) /\ i < size /\ manual' = manual
      BY <2>3 DEF AutoFocus
    <3>2. i \in 0..(size - 1)
      BY <1>0, <3>1
    <3> QED BY <1>1, <3>1, <3>2, FocusOnKeeps DEF UIInv, Typed
  <2> QED BY <2>1, <2>2, <2>3
<1>5. Typed'
  BY <1>1, <1>4 DEF UIInv, Typed
<1> QED BY <1>2, <1>4, <1>5 DEF UIInv

LEMMA ReloadAddsStep ==
  ASSUME UIInv, ReloadAdds
  PROVE  UIInv'
<1>0. size \in Nat /\ MaxRoles \in Nat /\ Roles0 \in Int /\ Roles0 <= size
  BY Sizes, TilingAssumption DEF UIInv, Typed
<1>1. UNCHANGED <<gone, ui, area, zoomed, resizing, tree, focused, active, manual, layout>>
      /\ size < MaxRoles /\ size' = size + 1
  BY DEF ReloadAdds, treeVars, modes
<1>2. size' \in Nat /\ size <= size' /\ size' \in Roles0..MaxRoles
  BY <1>0, <1>1
<1>3. Shown' /\ Kept'
  BY <1>1, <1>2, ShownStays, LayoutStays
<1>4. Typed'
  <2>1. gone' \subseteq 0..(size' - 1)
    <3>1. 0..(size - 1) \subseteq 0..(size' - 1)
      BY <1>0, <1>1
    <3> QED BY <1>1, <3>1 DEF UIInv, Typed
  <2> QED BY <1>1, <1>2, <2>1 DEF UIInv, Typed
<1> QED BY <1>3, <1>4 DEF UIInv

\* Every step keeps the invariant.
LEMMA NextUIInv == UIInv /\ [Next]_vars => UIInv'
<1> SUFFICES ASSUME UIInv, [Next]_vars PROVE UIInv'
  OBVIOUS
<1>1. CASE UNCHANGED vars
  BY <1>1 DEF vars, UIInv, Typed, Shown, Kept, ActiveIsFocused
<1>2. CASE WindowKeys
  <2>1. ASSUME NEW vert \in BOOLEAN, Split(vert) PROVE UIInv'
    BY <2>1, SplitStep
  <2>2. CASE ClosePane
    BY <2>2, CloseStep
  <2>3. ASSUME NEW d \in {"left", "down", "up", "right"}, FocusDir(d) PROVE UIInv'
    BY <2>3, FocusDirStep DEF Directions
  <2>4. ASSUME NEW step \in {1, -1}, Cycle(step) PROVE UIInv'
    BY <2>4, CycleStep
  <2>5. ASSUME NEW i \in 0..(MaxRoles - 1), PrefixDigit(i) PROVE UIInv'
    BY <2>5, SurfaceStep
  <2>6. ASSUME NEW vert \in BOOLEAN, NEW delta \in Deltas, ResizeKey(vert, delta) PROVE UIInv'
    BY <2>6, ResizeStep
  <2>7. CASE Zoom \/ ResizeMode \/ ToggleSidebar \/ LeaveResize
    BY <2>7, OtherKeysStep
  <2> QED BY <1>2, <2>1, <2>2, <2>3, <2>4, <2>5, <2>6, <2>7 DEF WindowKeys
<1>3. CASE CtrlO \/ (\E p \in Tiles(tree) : ClickTile(p)) \/ \E i \in 0..(MaxRoles - 1) : AutoFocus(i)
  BY <1>3, FocusStep
<1>4. ASSUME NEW i \in 0..(MaxRoles - 1), ClickCard(i) PROVE UIInv'
  BY <1>4, SurfaceStep
<1>5. CASE WindowSize
  BY <1>5, OtherKeysStep
<1>6. CASE Open
  BY <1>6, OpenStep
<1>7. CASE Quit \/ Cut
  BY <1>7, ClosedStep
<1>8. CASE ReloadAdds
  BY <1>8, ReloadAddsStep
<1>9. ASSUME NEW retired \in SUBSET (0..(MaxRoles - 1)),
             ReloadRetires(retired, retired) \/ ReloadRetires(retired, gone \cup retired)
      PROVE  UIInv'
  BY <1>9, RetireStep
<1> QED BY <1>1, <1>2, <1>3, <1>4, <1>5, <1>6, <1>7, <1>8, <1>9 DEF Next

-----------------------------------------------------------------------------
(* What follows *)

LEMMA AlwaysUIInv == Spec => []UIInv
<1> QED BY InitUIInv, NextUIInv, PTL DEF Spec

\* The layout is a binary tree whatever is split, closed, resized, retired or restored,
\* and the focus one of its tiles.
THEOREM LayoutTyped == Spec => []TypeOK
<1>1. UIInv => TypeOK
  <2> SUFFICES ASSUME UIInv PROVE TypeOK
    OBVIOUS
  <2>1. size \in Nat /\ size <= MaxRoles /\ MaxRoles \in Nat /\ Good(tree, size) /\ focused \in Tiles(tree)
        /\ active = tree[focused].role
    BY Sizes DEF UIInv, Shown, ActiveIsFocused
  <2>2. WellFormed(tree, focused)
    BY <2>1, BuiltIsWellFormed
  <2>3. active \in 0..(MaxRoles - 1)
    <3>1. active \in 0..(size - 1)
      BY <2>1 DEF Good, Filled
    <3> QED BY <2>1, <3>1
  <2> QED BY <2>2, <2>3 DEF UIInv, Typed, TypeOK
<1> QED BY <1>1, AlwaysUIInv, PTL

\* Keys, restarts and pauses, which go to the Model's active role, go to the tile in
\* focus, whatever moved it last: keys, the mouse, a prompt, a reload or a restore.
THEOREM FocusIsOneThing == Spec => []ActiveIsFocused
<1>1. UIInv => ActiveIsFocused
  BY DEF UIInv, Shown
<1> QED BY <1>1, AlwaysUIInv, PTL

\* No tile shows a slot the roster does not have, which View would index its panes
\* with, and no role has two tiles, also after a layout kept long ago is restored.
THEOREM TilesShowTheRoster == Spec => []TilesInRoster
<1>1. UIInv => TilesInRoster
  <2> SUFFICES ASSUME UIInv PROVE TilesInRoster
    OBVIOUS
  <2>1. size \in Nat /\ Filled(tree, size)
    BY Sizes DEF UIInv, Shown, Good
  <2>2. \A p \in Tiles(tree) : tree[p].role < size
    BY <2>1 DEF Filled
  <2> QED BY <2>1, <2>2 DEF Filled, TilesInRoster
<1> QED BY <1>1, AlwaysUIInv, PTL

\* Every cell of the area is drawn by one tile and no more, for every area, also one
\* too small for the tiles: the layout neither loses cells nor draws them twice.
THEOREM EveryCellHasOneTile ==
  Spec => [](\A x \in 0..(area[1] - 1), y \in 0..(area[2] - 1) :
               \E p \in Tiles(tree) : /\ Covers(TileRects[p], x, y)
                                     /\ \A q \in Tiles(tree) : Covers(TileRects[q], x, y) => q = p)
<1>1. UIInv => \A x \in 0..(area[1] - 1), y \in 0..(area[2] - 1) :
               \E p \in Tiles(tree) : /\ Covers(TileRects[p], x, y)
                                     /\ \A q \in Tiles(tree) : Covers(TileRects[q], x, y) => q = p
  <2> SUFFICES ASSUME UIInv, NEW x \in 0..(area[1] - 1), NEW y \in 0..(area[2] - 1)
               PROVE  \E p \in Tiles(tree) : /\ Covers(TileRects[p], x, y)
                                            /\ \A q \in Tiles(tree) : Covers(TileRects[q], x, y) => q = p
    OBVIOUS
  <2>1. size \in Nat /\ Good(tree, size) /\ area[1] \in Nat /\ area[2] \in Nat /\ <<>> \in DOMAIN tree
    BY Sizes DEF UIInv, Shown, Good, Built
  <2>2. x \in Int /\ y \in Int /\ 0 <= x /\ x < area[1] /\ 0 <= y /\ y < area[2]
    BY <2>1
  <2>3. Covers(Rect(tree, <<>>, area[1], area[2]), x, y)
    BY <2>1, <2>2, RootCovers
  <2>4. PICK p \in Tiles(tree) : Covers(Rect(tree, p, area[1], area[2]), x, y)
    BY <2>1, <2>2, <2>3, CellsCovered
  <2>5. \A q \in Tiles(tree) : Covers(Rect(tree, q, area[1], area[2]), x, y) => q = p
    BY <2>1, <2>2, <2>4, OneTile
  <2> QED BY <2>4, <2>5 DEF TileRects, Rects
<1> QED BY <1>1, AlwaysUIInv, PTL

\* The tiles on the screen lie in the area, cover it and do not overlap.
THEOREM TilesArePartition == Spec => []TilesPartition
<1>1. UIInv => TilesPartition
  <2> SUFFICES ASSUME UIInv PROVE TilesPartition
    OBVIOUS
  <2>1. size \in Nat /\ Good(tree, size) /\ area[1] \in Nat /\ area[2] \in Nat /\ <<>> \in DOMAIN tree
        /\ Tiles(tree) \subseteq DOMAIN tree
    BY Sizes DEF UIInv, Shown, Good, Built, Tiles
  <2>2. /\ \A p, q \in Tiles(tree) : p # q => Apart(TileRects[p], TileRects[q])
        /\ \A p \in Tiles(tree) : Inside(TileRects[p], [x |-> 0, y |-> 0, w |-> area[1], h |-> area[2]])
    BY <2>1, TilesAreApart DEF TileRects
  <2>3. \A p \in Tiles(tree) : TileRects[p] = Rect(tree, p, area[1], area[2])
    BY DEF TileRects, Rects
  <2>4. \A p \in Tiles(tree) : TileRects[p] \in Box
    BY <2>1, <2>3, NodeRect
  <2>5. \A p \in Tiles(tree) : /\ TileRects[p].x + TileRects[p].w \in Int /\ 0 <= TileRects[p].x + TileRects[p].w
                              /\ TileRects[p].y + TileRects[p].h \in Int /\ 0 <= TileRects[p].y + TileRects[p].h
    <3> TAKE p \in Tiles(tree)
    <3> DEFINE r == TileRects[p]
    <3>1. Inside(r, [x |-> 0, y |-> 0, w |-> area[1], h |-> area[2]])
      BY <2>2
    <3>2. r.x \in Int /\ r.y \in Int /\ r.w \in Nat /\ r.h \in Nat
      BY <2>4, Fields
    <3> HIDE DEF r
    <3>3. 0 <= r.x /\ 0 <= r.y
      BY <3>1 DEF Inside
    <3>4. r.x + r.w \in Int /\ 0 <= r.x + r.w /\ r.y + r.h \in Int /\ 0 <= r.y + r.h
      BY <3>2, <3>3
    <3> QED BY <3>4 DEF r
  <2>6. ASSUME NEW x \in Int, NEW y \in Int, 0 <= x, x < area[1], 0 <= y, y < area[2]
        PROVE  \E p \in Tiles(tree) : Covers(TileRects[p], x, y)
    <3>1. Covers(Rect(tree, <<>>, area[1], area[2]), x, y)
      BY <2>1, <2>6, RootCovers
    <3>2. PICK p \in Tiles(tree) : Covers(Rect(tree, p, area[1], area[2]), x, y)
      BY <2>1, <2>6, <3>1, CellsCovered
    <3> QED BY <2>3, <3>2
  <2> DEFINE xs == {x \in {0} \cup {TileRects[p].x + TileRects[p].w : p \in Tiles(tree)} : x < area[1]}
             ys == {y \in {0} \cup {TileRects[p].y + TileRects[p].h : p \in Tiles(tree)} : y < area[2]}
  <2>7. (\A x \in xs : x \in Int /\ 0 <= x /\ x < area[1]) /\ \A y \in ys : y \in Int /\ 0 <= y /\ y < area[2]
    BY <2>5
  <2>8. \A x \in xs, y \in ys : \E p \in Tiles(tree) : Covers(TileRects[p], x, y)
    BY <2>6, <2>7
  <2> QED BY <2>2, <2>8 DEF TilesPartition
<1> QED BY <1>1, AlwaysUIInv, PTL

\* From every tile on the screen the focus keys lead to every other one, whatever was
\* split, closed and resized: no set of tiles is closed under them.
THEOREM FocusReachesAll == Spec => []NoTileStranded
<1>1. UIInv => NoTileStranded
  <2> DEFINE next == [p \in Tiles(tree) |-> {Neighbour(TileRects, p, d) : d \in {"left", "down", "up", "right"}}]
  <2> SUFFICES ASSUME UIInv, \A p \in Tiles(tree) : Usable(TileRects[p]),
                      NEW S \in SUBSET Tiles(tree), S # {}, S # Tiles(tree)
               PROVE  \E p \in S : ~(next[p] \subseteq S)
    BY Zenon DEF NoTileStranded
  <2>1. size \in Nat /\ Good(tree, size) /\ area[1] \in Nat /\ area[2] \in Nat
    BY Sizes DEF UIInv, Shown
  <2>2. \A p \in Tiles(tree) : Usable(Rects(tree, area[1], area[2])[p])
    BY DEF TileRects
  <2>3. PICK p \in S, d \in Directions : Neighbour(Rects(tree, area[1], area[2]), p, d) \notin S
    BY <2>1, <2>2, NoneStranded
  <2>4. Neighbour(TileRects, p, d) \notin S
    BY <2>3 DEF TileRects
  <2>5. Neighbour(TileRects, p, d) \in next[p]
    BY DEF Directions
  <2> QED BY <2>4, <2>5
<1> QED BY <1>1, AlwaysUIInv, PTL

LEMMA RolesAre ==
  ASSUME NEW t, NEW n \in Nat, Good(t, n)
  PROVE  /\ RolesInOrder(t) \in Seq(Nat) /\ Len(RolesInOrder(t)) = Len(Leaves(t)) /\ Len(Leaves(t)) \in Nat
         /\ \A k \in 1..Len(Leaves(t)) : RolesInOrder(t)[k] = t[Leaves(t)[k]].role
<1> DEFINE ls == Leaves(t)
           rs == [k \in 1..Len(ls) |-> t[ls[k]].role]
<1>1. Len(ls) \in Nat /\ \A k \in 1..Len(ls) : ls[k] \in Tiles(t)
  BY LeavesAre
<1>2. \A p \in Tiles(t) : t[p].role \in Nat
  BY DEF Good, Filled
<1>3. RolesInOrder(t) = rs
  BY DEF RolesInOrder
<1> HIDE DEF ls
<1>4. \A k \in 1..Len(ls) : rs[k] \in Nat
  BY <1>1, <1>2
<1>5. rs \in Seq(Nat) /\ Len(rs) = Len(ls)
  <2>1. rs \in [1..Len(ls) -> Nat]
    BY <1>4
  <2> QED BY <1>1, <2>1
<1>6. \A k \in 1..Len(ls) : rs[k] = t[ls[k]].role
  OBVIOUS
<1> QED BY <1>1, <1>3, <1>5, <1>6 DEF ls

\* Closing the focused tile leaves a binary tree and a tile to focus, and the roles of
\* the other tiles in the order they had: the sibling's subtree takes the place of the
\* fork above, and nothing else moves.
THEOREM CloseKeepsTheOthers == Spec => []CloseKeepsOthers
<1>1. UIInv => CloseKeepsOthers
  <2> DEFINE u == CloseTree(tree, focused)
             ls == Leaves(tree)
             ms == Leaves(u)
             shown == RolesInOrder(tree)
             left == RolesInOrder(u)
  <2> SUFFICES ASSUME UIInv, focused # <<>>
               PROVE  /\ WellFormed(u, FirstLeaf(u, Parent(focused)))
                      /\ \E k \in DOMAIN shown : shown[k] = active /\ left = RemoveAt(shown, k)
    BY DEF CloseKeepsOthers
  <2>1. size \in Nat /\ size <= MaxRoles /\ MaxRoles \in Nat /\ Good(tree, size) /\ focused \in Tiles(tree)
        /\ active = tree[focused].role
    BY Sizes DEF UIInv, Shown, ActiveIsFocused
  <2>2. Good(u, size) /\ Parent(focused) \in DOMAIN u
    BY <2>1, CloseKeeps
  <2>3. PICK k \in 1..Len(ls) :
          /\ ls[k] = focused
          /\ Len(ms) = Len(ls) - 1
          /\ \A i \in 1..Len(ms) : u[ms[i]].role = tree[ls[IF i < k THEN i ELSE i + 1]].role
    BY <2>1, ClosedOrder
  <2> HIDE DEF u, ls, ms, shown, left
  <2>4. WellFormed(u, FirstLeaf(u, Parent(focused)))
    <3>1. FirstLeaf(u, Parent(focused)) \in Tiles(u)
      BY <2>2, FirstLeafIs DEF Good
    <3> QED BY <2>1, <2>2, <3>1, BuiltIsWellFormed
  <2>5. shown \in Seq(Nat) /\ Len(shown) = Len(ls) /\ Len(ls) \in Nat
        /\ \A i \in 1..Len(ls) : shown[i] = tree[ls[i]].role
    BY <2>1, RolesAre DEF shown, ls
  <2>6. left \in Seq(Nat) /\ Len(left) = Len(ms) /\ \A i \in 1..Len(ms) : left[i] = u[ms[i]].role
    BY <2>1, <2>2, RolesAre DEF left, ms
  <2>7. k \in DOMAIN shown /\ shown[k] = active
    BY <2>1, <2>3, <2>5
  <2>8. PICK cut : cut = RemoveAt(shown, k)
    OBVIOUS
  <2>9. cut \in Seq(Nat) /\ Len(cut) = Len(ms)
        /\ \A i \in 1..Len(ms) : cut[i] = shown[IF i < k THEN i ELSE i + 1]
    <3>1. k \in 1..Len(shown)
      BY <2>5
    <3>2. /\ RemoveAt(shown, k) \in Seq(Nat) /\ Len(RemoveAt(shown, k)) = Len(shown) - 1
          /\ \A i \in 1..(Len(shown) - 1) : RemoveAt(shown, k)[i] = shown[IF i < k THEN i ELSE i + 1]
      BY <2>5, <3>1, RemoveAtIs
    <3> QED BY <2>3, <2>5, <2>8, <3>2
  <2>10. \A i \in 1..Len(ms) : cut[i] = left[i]
    <3> TAKE i \in 1..Len(ms)
    <3>1. (IF i < k THEN i ELSE i + 1) \in 1..Len(ls)
      BY <2>3, <2>5
    <3> QED BY <2>3, <2>5, <2>6, <2>9, <3>1
  <2>11. left = cut
    <3>1. left = [i \in 1..Len(ms) |-> left[i]]
      BY <2>6
    <3>2. cut = [i \in 1..Len(ms) |-> cut[i]]
      BY <2>9
    <3> QED BY <2>10, <3>1, <3>2
  <2> QED BY <2>4, <2>7, <2>8, <2>11
<1> QED BY <1>1, AlwaysUIInv, PTL

-----------------------------------------------------------------------------
(* The keys, for every number of gates and rows *)

USE DEF overlays, keyModes, session, keysVars, Decides, Nothing

\* What Draw makes of a selection s over r rows
Clamp(s, r) == LET top == IF s >= r THEN r - 1 ELSE s IN IF top < 0 THEN 0 ELSE top

LEMMA ClampIsARow ==
  ASSUME NEW s \in Int, NEW r \in Nat
  PROVE  Clamp(s, r) \in Nat /\ (Clamp(s, r) < r \/ r = 0)
  BY DEF Clamp

\* Whatever it is given, what the board draws is a row, or the first place of an
\* empty board.
LEMMA DrawClamps ==
  ASSUME NEW s \in Int, rows' \in Nat, board' \in BOOLEAN, Draw(s)
  PROVE  /\ SelectionReadable'
         /\ sel' \in Int
  <1>1. sel' = IF ~board' THEN s ELSE Clamp(s, rows')
    BY DEF Draw, Clamp
  <1>2. Clamp(s, rows') \in Nat /\ (Clamp(s, rows') < rows' \/ rows' = 0)
    BY ClampIsARow
  <1>3. CASE board' = FALSE BY <1>1, <1>3 DEF SelectionReadable
  <1>4. CASE board' = TRUE
    <2>1. sel' = Clamp(s, rows') BY <1>1, <1>4
    <2>2. sel' \in Nat /\ (sel' < rows' \/ rows' = 0) BY <2>1, <1>2
    <2>3. \A n \in Nat : n >= 0 OBVIOUS
    <2>4. sel' >= 0 BY <2>2, <2>3
    <2> QED BY <2>2, <2>4 DEF SelectionReadable
  <1> QED BY <1>3, <1>4

KTyped ==
  /\ pager \in BOOLEAN /\ ho \in BOOLEAN /\ board \in BOOLEAN /\ help \in BOOLEAN /\ searching \in BOOLEAN
  /\ resizeMode \in BOOLEAN /\ prefixed \in BOOLEAN /\ broadcast \in BOOLEAN /\ query \in BOOLEAN /\ scrolled \in BOOLEAN
  /\ rb \in {"off", "ask", "told"}
  /\ sel \in Int
  /\ gates \in Nat /\ rows \in Nat

\* A rollback is asked for where no handoff waits, and the other way round.
OneConfirm == rb # "off" => ~ho

KInv == KTyped /\ OneConfirm /\ SelectionReadable

LEMMA InitKInv == KeysInit => KInv
  <1> SUFFICES ASSUME KeysInit PROVE KInv OBVIOUS
  <1>1. sel \in Int /\ gates \in Nat /\ rows \in Nat BY DEF KeysInit
  <1>2. KTyped BY <1>1, Zenon DEF KeysInit, KTyped
  <1>3. OneConfirm /\ SelectionReadable BY DEF KeysInit, OneConfirm, SelectionReadable
  <1> QED BY <1>2, <1>3 DEF KInv

\* What is typed, and one confirm at a time, is kept by every action.
LEMMA NextKTyped ==
  ASSUME KTyped, OneConfirm, KeysNext
  PROVE  OneConfirm' /\ rows' \in Nat /\ gates' \in Nat
         /\ pager' \in BOOLEAN /\ ho' \in BOOLEAN /\ board' \in BOOLEAN /\ help' \in BOOLEAN /\ searching' \in BOOLEAN
         /\ resizeMode' \in BOOLEAN /\ prefixed' \in BOOLEAN /\ broadcast' \in BOOLEAN /\ query' \in BOOLEAN /\ scrolled' \in BOOLEAN
         /\ rb' \in {"off", "ask", "told"}
  <1> USE KeysAssumption DEF KTyped, OneConfirm, Taker
  <1>1. CASE PagerKey BY <1>1 DEF PagerKey
  <1>2. CASE RollbackKey BY <1>2 DEF RollbackKey
  <1>3. CASE HandoffKey BY <1>3 DEF HandoffKey
  <1>4. CASE BoardKey BY <1>4 DEF BoardKey, ReadRow, AskRollback
  <1>5. CASE HelpKey BY <1>5 DEF HelpKey
  <1>6. CASE GateKey BY <1>6 DEF GateKey
  <1>7. CASE SearchKey BY <1>7 DEF SearchKey
  <1>8. CASE ResizingKey BY <1>8 DEF ResizingKey
  <1>9. CASE ArmPrefix BY <1>9 DEF ArmPrefix, Plain
  <1>10. CASE WmAction BY <1>10 DEF WmAction, Plain
  <1>11. CASE JumpKey BY <1>11 DEF JumpKey, Plain
  <1>12. CASE TypeKey BY <1>12 DEF TypeKey, Plain
  <1>13. CASE Scroll BY <1>13 DEF Scroll
  <1>14. CASE NextUI BY <1>14 DEF NextUI
  <1>15. CASE Arrives BY <1>15 DEF Arrives
  <1>16. CASE Synced BY <1>16 DEF Synced
  <1> QED BY <1>1, <1>2, <1>3, <1>4, <1>5, <1>6, <1>7, <1>8, <1>9, <1>10, <1>11, <1>12,
             <1>13, <1>14, <1>15, <1>16 DEF KeysNext

\* Every action ends in a drawing of the board.
LEMMA NextDraws ==
  ASSUME KTyped, KeysNext
  PROVE  \E s \in Int : Draw(s)
  <1> USE DEF KTyped
  <1>1. CASE PagerKey BY <1>1 DEF PagerKey
  <1>2. CASE RollbackKey BY <1>2 DEF RollbackKey
  <1>3. CASE HandoffKey BY <1>3 DEF HandoffKey
  <1>4. CASE BoardKey BY <1>4 DEF BoardKey
  <1>5. CASE HelpKey BY <1>5 DEF HelpKey
  <1>6. CASE GateKey BY <1>6 DEF GateKey
  <1>7. CASE SearchKey BY <1>7 DEF SearchKey
  <1>8. CASE ResizingKey BY <1>8 DEF ResizingKey
  <1>9. CASE ArmPrefix BY <1>9 DEF ArmPrefix
  <1>10. CASE WmAction
    <2>1. Draw(sel) \/ Draw(rows - 1) BY <1>10 DEF WmAction
    <2> QED BY <2>1
  <1>11. CASE JumpKey BY <1>11 DEF JumpKey
  <1>12. CASE TypeKey BY <1>12 DEF TypeKey
  <1>13. CASE Scroll BY <1>13 DEF Scroll
  <1>14. CASE NextUI BY <1>14 DEF NextUI
  <1>15. CASE Arrives BY <1>15 DEF Arrives
  <1>16. CASE Synced BY <1>16 DEF Synced
  <1> QED BY <1>1, <1>2, <1>3, <1>4, <1>5, <1>6, <1>7, <1>8, <1>9, <1>10, <1>11, <1>12,
             <1>13, <1>14, <1>15, <1>16 DEF KeysNext

LEMMA NextKInv ==
  ASSUME KInv, [KeysNext]_keysVars
  PROVE  KInv'
  <1>1. CASE KeysNext
    <2>1. PICK s \in Int : Draw(s) BY <1>1, NextDraws DEF KInv
    <2> QED BY <1>1, <2>1, NextKTyped, DrawClamps DEF KInv, KTyped
  <1>2. CASE UNCHANGED keysVars
    BY <1>2 DEF KInv, KTyped, OneConfirm, SelectionReadable
  <1> QED BY <1>1, <1>2

THEOREM KeysInvariance == KeysSpec => []KInv
  <1> QED BY InitKInv, NextKInv, PTL DEF KeysSpec

\* The selection is a row of the board whenever the board takes keys, whatever
\* rows came, went or were replaced under it (renderBoard, boardKey).
THEOREM SelectionIsARow == KeysSpec => []SelectionReadable
  <1>1. KInv => SelectionReadable BY DEF KInv
  <1> QED BY <1>1, KeysInvariance, PTL

-----------------------------------------------------------------------------
(* What a key decides *)

LEMMA StepDecides ==
  ASSUME KInv, [KeysNext]_keysVars
  PROVE  [/\ did' = "verdict" => Screen = "gate"
          /\ did' = "rollback" => Screen = "rollback"
          /\ did' = "handoff" => Screen = "handoff"
          /\ did' \in {"role", "typed"} => Screen = "tiles"]_keysVars
  <1> SUFFICES ASSUME KeysNext
               PROVE  /\ did' = "verdict" => Screen = "gate"
                      /\ did' = "rollback" => Screen = "rollback"
                      /\ did' = "handoff" => Screen = "handoff"
                      /\ did' \in {"role", "typed"} => Screen = "tiles"
    OBVIOUS
  <1> USE DEF KInv, KTyped, OneConfirm, Taker, Screen
  <1>1. CASE did' = "nothing" BY <1>1
  <1>2. CASE RollbackKey BY <1>2 DEF RollbackKey
  <1>3. CASE HandoffKey BY <1>3 DEF HandoffKey
  <1>4. CASE GateKey BY <1>4 DEF GateKey
  <1>5. CASE WmAction BY <1>5 DEF WmAction, Plain
  <1>6. CASE TypeKey BY <1>6 DEF TypeKey, Plain
  <1>7. PagerKey \/ BoardKey \/ HelpKey \/ SearchKey \/ ResizingKey \/ ArmPrefix \/ JumpKey
          \/ Scroll \/ NextUI \/ Arrives \/ Synced => did' = "nothing"
    BY DEF PagerKey, BoardKey, HelpKey, SearchKey, ResizingKey, ArmPrefix, JumpKey, Scroll, NextUI,
           Arrives, Synced
  <1> QED BY <1>1, <1>2, <1>3, <1>4, <1>5, <1>6, <1>7 DEF KeysNext

\* No key decides anything that is not on the screen, though handleKey and View
\* walk the overlays in different orders: the two agree wherever something can
\* be decided, because a rollback and a handoff are never both asked for.
THEOREM DecisionsAreSeen == KeysSpec => DecidesWhatIsShown
  <1> QED BY KeysInvariance, StepDecides, PTL DEF KeysSpec, DecidesWhatIsShown

=============================================================================
