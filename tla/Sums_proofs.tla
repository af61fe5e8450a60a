---------------------------- MODULE Sums_proofs ----------------------------
(***************************************************************************)
(* What a sum over a sequence is when the sequence gains a last member or  *)
(* loses its first one.  The sum is a fold, which recurs over the subsets  *)
(* of the sequence's domain; the induction is over sets of natural         *)
(* numbers, of which a nonempty one has a least member.                    *)
(***************************************************************************)
EXTENDS Sums, SequenceTheorems, WellFoundedInduction, TLAPS

\* Induction up to n: a set that holds 0 and with each number the next holds all.
LEMMA UpTo ==
    ASSUME NEW n \in Nat, NEW good, 0 \in good,
           \A k \in 1..n : k - 1 \in good => k \in good
    PROVE  \A k \in 0..n : k \in good
<1> DEFINE missing == {k \in 0..n : k \notin good}
<1>1. SUFFICES ASSUME missing # {} PROVE FALSE
  OBVIOUS
<1>2. \E a \in missing : \A b \in missing : <<b, a>> \notin OpToRel(<, Nat)
  <2>1. missing \subseteq Nat
    OBVIOUS
  <2> HIDE DEF missing
  <2> QED
    BY <1>1, <2>1, NatLessThanWellFounded, WFMin
<1>3. PICK a \in missing : \A b \in missing : <<b, a>> \notin OpToRel(<, Nat)
  BY <1>2
<1>4. a \in 0..n /\ a \notin good
  BY <1>3
<1>5. a - 1 \in 0..n /\ a \in 1..n
  BY <1>4
<1>6. a - 1 \notin missing
  <2>1. <<a - 1, a>> \in OpToRel(<, Nat)
    BY <1>5 DEF OpToRel
  <2> QED
    BY <1>3, <2>1
<1> QED
  BY <1>4, <1>5, <1>6

-----------------------------------------------------------------------------
(* The fold.                                                               *)

\* The member the fold takes out of a set next.
Highest(T) == CHOOSE x \in T : \A y \in T : x >= y

LEMMA HighestIsLast ==
    ASSUME NEW k \in Nat, NEW T \in SUBSET (1..k), k \in T
    PROVE  Highest(T) = k
<1>1. \A y \in T : y \in Nat /\ k >= y
  OBVIOUS
<1>2. Highest(T) \in T /\ \A y \in T : Highest(T) >= y
  BY <1>1, Zenon DEF Highest
<1>3. Highest(T) \in Nat /\ k >= Highest(T) /\ Highest(T) >= k
  BY <1>1, <1>2, Zenon
<1> QED
  BY <1>3

\* The table of sums that the fold defines, for the sets below k + 1.
Table(s, k, g) ==
    /\ g \in [SUBSET (1..k) -> Int]
    /\ \A T \in SUBSET (1..k) :
          g[T] = IF T = {} THEN 0 ELSE g[T \ {Highest(T)}] + s[Highest(T)]

LEMMA TableGrows ==
    ASSUME NEW s \in Seq(Int), NEW k \in 1..Len(s), NEW g, Table(s, k - 1, g)
    PROVE  \E h : Table(s, k, h)
<1> DEFINE h == [T \in SUBSET (1..k) |-> IF k \in T THEN g[T \ {k}] + s[k] ELSE g[T]]
<1>0. k \in Nat /\ s[k] \in Int /\ \A i \in 1..(k - 1) : i \in 1..k /\ i # k
  OBVIOUS
<1>1. \A T \in SUBSET (1..k) : T \ {k} \in SUBSET (1..(k - 1))
  BY <1>0
<1>2. \A T \in SUBSET (1..k) : k \notin T => T \in SUBSET (1..(k - 1))
  BY <1>1, Zenon
<1>3. h \in [SUBSET (1..k) -> Int]
  BY <1>0, <1>1, <1>2 DEF Table
<1>4. ASSUME NEW T \in SUBSET (1..k)
      PROVE  h[T] = IF T = {} THEN 0 ELSE h[T \ {Highest(T)}] + s[Highest(T)]
  <2>1. CASE k \in T
    <3>1. Highest(T) = k
      BY <1>0, <2>1, HighestIsLast
    <3>2. T \ {k} \in SUBSET (1..k) /\ k \notin T \ {k}
      OBVIOUS
    <3>3. h[T \ {k}] = g[T \ {k}] /\ h[T] = g[T \ {k}] + s[k]
      BY <2>1, <3>2
    <3> HIDE DEF h
    <3> QED
      BY <2>1, <3>1, <3>3, Zenon
  <2>2. CASE k \notin T
    <3> DEFINE U == T \ {Highest(T)}
    <3>1. U \in SUBSET (1..k) /\ k \notin U
      BY <2>2
    <3>2. h[T] = g[T] /\ h[U] = g[U]
      <4> HIDE DEF U
      <4> QED
        BY <2>2, <3>1
    <3>3. g[T] = IF T = {} THEN 0 ELSE g[U] + s[Highest(T)]
      BY <1>2, <2>2, Zenon DEF Table
    <3> HIDE DEF h, U
    <3>4. h[T] = IF T = {} THEN 0 ELSE h[U] + s[Highest(T)]
      BY <3>2, <3>3, Zenon
    <3> QED
      BY <3>4, Zenon DEF U
  <2> QED
    BY <2>1, <2>2
<1>5. Table(s, k, h)
  <2> HIDE DEF h
  <2> QED
    BY <1>3, <1>4, Zenon DEF Table
<1> HIDE DEF h
<1> QED
  BY <1>5

LEMMA TableExists ==
    ASSUME NEW s \in Seq(Int)
    PROVE  \E g : Table(s, Len(s), g)
<1> DEFINE good == {k \in 0..Len(s) : \E g : Table(s, k, g)}
<1>1. Len(s) \in Nat
  OBVIOUS
<1>2. 0 \in good
  <2> DEFINE g == [T \in SUBSET (1..0) |-> 0]
  <2>1. \A T \in SUBSET (1..0) : T = {}
    OBVIOUS
  <2>2. Table(s, 0, g)
    BY <2>1 DEF Table
  <2>3. \E h : Table(s, 0, h)
    <3> HIDE DEF g
    <3> QED
      BY <2>2
  <2> QED
    BY <1>1, <2>3
<1>3. ASSUME NEW k \in 1..Len(s), k - 1 \in good PROVE k \in good
  <2>1. PICK g : Table(s, k - 1, g)
    BY <1>3
  <2>2. \E h : Table(s, k, h)
    BY <2>1, TableGrows
  <2> QED
    BY <2>2
<1>4. \A k \in 0..Len(s) : k \in good
  <2> HIDE DEF good
  <2> QED
    BY <1>1, <1>2, <1>3, UpTo
<1> QED
  BY <1>1, <1>4

\* The sums of the prefixes of a sequence.
Partial(s, h) ==
    /\ h \in [0..Len(s) -> Int]
    /\ h[0] = 0
    /\ \A k \in 1..Len(s) : h[k] = h[k - 1] + s[k]

\* The fold adds a member at a time.
LEMMA SumIsPartial ==
    ASSUME NEW s \in Seq(Int)
    PROVE  \E h : Partial(s, h) /\ SumSeq(s) = h[Len(s)]
<1> DEFINE Sets == SUBSET (DOMAIN s)
           Rec(g) == [T \in Sets |->
                         IF T = {} THEN 0 ELSE g[T \ {Highest(T)}] + s[Highest(T)]]
           iter == CHOOSE g : g = Rec(g)
           h == [k \in 0..Len(s) |-> iter[1..k]]
<1>1. DOMAIN s = 1..Len(s) /\ Len(s) \in Nat /\ \A k \in 1..Len(s) : s[k] \in Int
  OBVIOUS
<1>2. PICK g : Table(s, Len(s), g)
  BY TableExists
<1>3. g = Rec(g)
  <2>1. g = [T \in Sets |-> g[T]]
    BY <1>1, <1>2 DEF Table
  <2>2. \A T \in Sets : g[T] = Rec(g)[T]
    BY <1>1, <1>2 DEF Table
  <2> QED
    BY <2>1, <2>2
<1>4. iter = Rec(iter)
  <2> HIDE DEF Rec
  <2> QED
    BY <1>3, Zenon
<1>5. SumSeq(s) = iter[DOMAIN s]
  BY Zenon DEF SumSeq, FoldLeft, MapThenFoldSet, Max, Highest
<1>6. \A T \in Sets : iter[T] = IF T = {} THEN 0
                                ELSE iter[T \ {Highest(T)}] + s[Highest(T)]
  <2> HIDE DEF iter
  <2> QED
    BY <1>4
<1> HIDE DEF iter
<1>7. iter[1..0] = 0
  <2>1. 1..0 = {} /\ {} \in Sets
    OBVIOUS
  <2> QED
    BY <1>6, <2>1, Zenon
<1>8. ASSUME NEW k \in 1..Len(s) PROVE iter[1..k] = iter[1..(k - 1)] + s[k]
  <2>1. k \in Nat /\ 1..k \in SUBSET (1..k) /\ k \in 1..k /\ 1..k # {}
    <3>1. k \in Nat /\ k >= 1
      BY <1>1
    <3>2. k \in 1..k /\ 1..k \in SUBSET (1..k)
      BY <3>1
    <3> QED
      BY <3>1, <3>2, Zenon
  <2>2. Highest(1..k) = k
    BY <2>1, HighestIsLast
  <2>3. (1..k) \ {k} = 1..(k - 1)
    BY <2>1
  <2>4. 1..k \in Sets
    BY <1>1
  <2>5. iter[1..k] = iter[(1..k) \ {Highest(1..k)}] + s[Highest(1..k)]
    BY <1>6, <2>1, <2>4, Zenon
  <2> QED
    BY <2>2, <2>3, <2>5
<1>9. \A k \in 0..Len(s) : iter[1..k] \in Int
  <2> DEFINE good == {k \in 0..Len(s) : iter[1..k] \in Int}
  <2>1. 0 \in good
    BY <1>1, <1>7
  <2>2. \A k \in 1..Len(s) : k - 1 \in good => k \in good
    BY <1>1, <1>8
  <2>3. \A k \in 0..Len(s) : k \in good
    <3> HIDE DEF good
    <3> QED
      BY <1>1, <2>1, <2>2, UpTo
  <2> QED
    BY <2>3
<1>10. Partial(s, h)
  <2>1. h \in [0..Len(s) -> Int] /\ h[0] = 0
    BY <1>1, <1>7, <1>9
  <2>2. \A k \in 1..Len(s) : h[k] = h[k - 1] + s[k]
    <3> SUFFICES ASSUME NEW k \in 1..Len(s) PROVE h[k] = h[k - 1] + s[k]
      OBVIOUS
    <3>1. k \in 0..Len(s) /\ k - 1 \in 0..Len(s)
      BY <1>1
    <3> QED
      BY <1>8, <3>1
  <2> HIDE DEF h
  <2> QED
    BY <2>1, <2>2 DEF Partial
<1>11. SumSeq(s) = h[Len(s)]
  BY <1>1, <1>5
<1> HIDE DEF h
<1> QED
  BY <1>10, <1>11

\* There is one way to add up a sequence, also when it is a part of another.
LEMMA PartialUnique ==
    ASSUME NEW s \in Seq(Int), NEW t \in Seq(Int), NEW d \in Nat, NEW g, NEW h,
           Partial(s, g), Partial(t, h), Len(s) + d <= Len(t),
           \A k \in 1..Len(s) : s[k] = t[k + d]
    PROVE  /\ h[Len(s) + d] = g[Len(s)] + h[d]
           /\ h[Len(s) + d] \in Int /\ g[Len(s)] \in Int /\ h[d] \in Int
<1> DEFINE n == Len(s)
           good == {k \in 0..n : h[k + d] = g[k] + h[d]}
<1>1. /\ n \in Nat /\ Len(t) \in Nat /\ d \in 0..Len(t) /\ n + d \in 0..Len(t)
      /\ n \in 0..n /\ \A k \in 1..n : s[k] \in Int
  OBVIOUS
<1>2. h[d] \in Int /\ h[n + d] \in Int /\ g[n] \in Int /\ g[0] = 0
  BY <1>1, Zenon DEF Partial
<1>3. 0 \in good
  BY <1>1, <1>2
<1>4. ASSUME NEW k \in 1..n, k - 1 \in good PROVE k \in good
  <2>1. k \in 1..Len(s) /\ k + d \in 1..Len(t) /\ k \in 0..n /\ k - 1 \in 0..Len(s)
    BY <1>1
  <2>2. g[k] = g[k - 1] + s[k] /\ g[k - 1] \in Int
    BY <2>1, Zenon DEF Partial
  <2>3. h[k + d] = h[(k + d) - 1] + t[k + d]
    BY <2>1, Zenon DEF Partial
  <2>4. h[(k - 1) + d] = g[k - 1] + h[d] /\ (k + d) - 1 = (k - 1) + d
    BY <1>4
  <2>5. h[k + d] = g[k] + h[d]
    <3>1. t[k + d] = s[k] /\ s[k] \in Int
      BY <2>1
    <3>2. h[k + d] = (g[k - 1] + h[d]) + s[k]
      BY <2>3, <2>4, <3>1, Zenon
    <3>3. (g[k - 1] + h[d]) + s[k] = (g[k - 1] + s[k]) + h[d]
      <4>1. g[k - 1] \in Int /\ h[d] \in Int /\ s[k] \in Int
        BY <1>2, <2>2, <3>1, Zenon
      <4>2. \A a, b, c \in Int : (a + b) + c = (a + c) + b
        OBVIOUS
      <4> QED
        BY <4>1, <4>2, Zenon
    <3> QED
      BY <2>2, <3>2, <3>3, Zenon
  <2> QED
    BY <2>1, <2>5
<1>5. \A k \in 0..n : k \in good
  <2> HIDE DEF good, n
  <2> QED
    BY <1>1, <1>3, <1>4, UpTo
<1> QED
  BY <1>1, <1>2, <1>5

-----------------------------------------------------------------------------
(* Sums of the sequences a queue goes through.                             *)

LEMMA SumEmpty == SumSeq(<<>>) = 0
<1>1. <<>> \in Seq(Int) /\ Len(<<>>) = 0
  OBVIOUS
<1>2. PICK h : Partial(<<>>, h) /\ SumSeq(<<>>) = h[Len(<<>>)]
  BY <1>1, SumIsPartial
<1> QED
  BY <1>1, <1>2 DEF Partial

LEMMA SumType ==
    ASSUME NEW s \in Seq(Int)
    PROVE  SumSeq(s) \in Int
<1>1. PICK h : Partial(s, h) /\ SumSeq(s) = h[Len(s)]
  BY SumIsPartial
<1>2. Len(s) \in 0..Len(s)
  OBVIOUS
<1> QED
  BY <1>1, <1>2 DEF Partial

LEMMA SumAppend ==
    ASSUME NEW s \in Seq(Int), NEW x \in Int
    PROVE  SumSeq(Append(s, x)) = SumSeq(s) + x
<1> DEFINE t == Append(s, x)
<1>1. /\ t \in Seq(Int) /\ Len(t) = Len(s) + 1 /\ Len(s) \in Nat /\ 0 \in Nat
      /\ t[Len(s) + 1] = x /\ \A k \in 1..Len(s) : s[k] = t[k + 0]
  OBVIOUS
<1> HIDE DEF t
<1>2. PICK g : Partial(s, g) /\ SumSeq(s) = g[Len(s)]
  BY SumIsPartial
<1>3. PICK h : Partial(t, h) /\ SumSeq(t) = h[Len(t)]
  BY <1>1, SumIsPartial
<1>4. h[Len(s) + 0] = g[Len(s)] + h[0] /\ g[Len(s)] \in Int
  <2>1. Len(s) + 0 <= Len(t)
    BY <1>1
  <2> QED
    BY <1>1, <1>2, <1>3, <2>1, PartialUnique
<1>5. h[0] = 0
  BY <1>3 DEF Partial
<1>6. h[Len(s) + 1] = h[Len(s)] + x
  <2>1. Len(s) + 1 \in 1..Len(t) /\ (Len(s) + 1) - 1 = Len(s)
    BY <1>1
  <2>2. h[Len(s) + 1] = h[(Len(s) + 1) - 1] + t[Len(s) + 1]
    BY <1>3, <2>1, Zenon DEF Partial
  <2> QED
    BY <1>1, <2>1, <2>2
<1>7. SumSeq(t) = SumSeq(s) + x
  BY <1>1, <1>2, <1>3, <1>4, <1>5, <1>6
<1> QED
  BY <1>7 DEF t

LEMMA SumTail ==
    ASSUME NEW s \in Seq(Int), s # <<>>
    PROVE  SumSeq(s) = Head(s) + SumSeq(Tail(s))
<1> DEFINE t == Tail(s)
<1>1. /\ t \in Seq(Int) /\ Len(t) + 1 = Len(s) /\ Len(t) \in Nat /\ 1 \in Nat
      /\ Head(s) = s[1] /\ s[1] \in Int /\ \A k \in 1..Len(t) : t[k] = s[k + 1]
  BY HeadTailProperties
<1> HIDE DEF t
<1>2. PICK g : Partial(t, g) /\ SumSeq(t) = g[Len(t)]
  BY <1>1, SumIsPartial
<1>3. PICK h : Partial(s, h) /\ SumSeq(s) = h[Len(s)]
  BY SumIsPartial
<1>4. h[1] = s[1]
  <2>1. 1 \in 1..Len(s) /\ 1 - 1 = 0
    BY <1>1
  <2>2. h[1] = h[1 - 1] + s[1] /\ h[0] = 0
    BY <1>3, <2>1, Zenon DEF Partial
  <2> QED
    BY <1>1, <2>1, <2>2
<1>5. h[Len(t) + 1] = g[Len(t)] + h[1] /\ g[Len(t)] \in Int
  <2>1. Len(t) + 1 <= Len(s)
    BY <1>1
  <2> QED
    BY <1>1, <1>2, <1>3, <2>1, PartialUnique
<1>6. SumSeq(s) = Head(s) + SumSeq(t)
  BY <1>1, <1>2, <1>3, <1>4, <1>5
<1> QED
  BY <1>6 DEF t

\* Numbers that are not negative add up to one.
LEMMA SumNat ==
    ASSUME NEW s \in Seq(Nat)
    PROVE  SumSeq(s) \in Nat
<1>1. s \in Seq(Int) /\ Len(s) \in Nat /\ \A k \in 1..Len(s) : s[k] \in Nat
  BY SeqMonotonic
<1>2. PICK h : Partial(s, h) /\ SumSeq(s) = h[Len(s)]
  BY <1>1, SumIsPartial
<1> DEFINE good == {k \in 0..Len(s) : h[k] \in Nat}
<1>3. 0 \in good
  BY <1>1, <1>2 DEF Partial
<1>4. \A k \in 1..Len(s) : k - 1 \in good => k \in good
  BY <1>1, <1>2 DEF Partial
<1>5. \A k \in 0..Len(s) : k \in good
  <2> HIDE DEF good
  <2> QED
    BY <1>1, <1>3, <1>4, UpTo
<1> QED
  BY <1>1, <1>2, <1>5
=============================================================================
