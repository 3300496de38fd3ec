---------------------------- MODULE FramingProofs ----------------------------
(***************************************************************************)
(* Proofs about module Framing, for any text of any number of peers and    *)
(* any way the network may cut it.                                         *)
(*                                                                         *)
(* The first part counts: the k-th stop of getline is there, and nothing   *)
(* lies between one stop and the next.  The second says what a piece, and  *)
(* then a command, is of the text it was cut from.  The third follows the  *)
(* text of a peer through the actions.                                     *)
(***************************************************************************)
EXTENDS Framing, WellFoundedInduction, FiniteSetTheorems, SequenceTheorems, TLAPS

-----------------------------------------------------------------------------
(* Counting. *)

Lower == {p \in Nat \X Nat : p[1] < p[2]}

\* A set of natural numbers that is not empty has a least one.
LEMMA LeastNatural ==
    ASSUME NEW S \in SUBSET Nat, S # {}
    PROVE  \E x \in S : \A y \in S : x <= y
<1>1. IsWellFoundedOn(Lower, Nat)
  BY NatLessThanWellFounded DEF OpToRel, Lower
<1>2. PICK x \in S : \A y \in S : ~ (<<y, x>> \in Lower)
  BY <1>1, WFMin
<1>3. ASSUME NEW y \in S PROVE x <= y
  <2>1. ~(y < x)
    BY <1>2 DEF Lower
  <2>2. x \in Nat /\ y \in Nat
    OBVIOUS
  <2> QED BY <2>1, <2>2
<1> QED BY <1>3

\* Min is that number.
LEMMA MinIsLeast ==
    ASSUME NEW S \in SUBSET Nat, S # {}
    PROVE  Min(S) \in S /\ \A y \in S : Min(S) <= y
BY LeastNatural DEF Min

\* How many of S are not above i.
Rank(S, i) == Cardinality({j \in S : j <= i})

\* Ranks are numbers, grow with the place, and every element raises them.
LEMMA RankGrows ==
    ASSUME NEW n \in Nat, NEW S, \A j \in S : j \in Nat /\ 1 <= j /\ j <= n
    PROVE  /\ IsFiniteSet(S) /\ Cardinality(S) \in Nat
           /\ \A i \in Nat : Rank(S, i) \in 0..Cardinality(S)
           /\ \A i, j \in Nat : i <= j => Rank(S, i) <= Rank(S, j)
           /\ \A i \in Nat, j \in S : i < j => Rank(S, i) < Rank(S, j)
<1>1. IsFiniteSet(S) /\ Cardinality(S) \in Nat
  <2>1. IsFiniteSet(1..n) /\ S \in SUBSET (1..n)
    BY FS_Interval
  <2> QED BY <2>1, FS_Subset, FS_CardinalityType
<1>2. ASSUME NEW i \in Nat PROVE IsFiniteSet({j \in S : j <= i}) /\ Rank(S, i) \in 0..Cardinality(S)
  <2>1. {j \in S : j <= i} \in SUBSET S
    OBVIOUS
  <2>2. IsFiniteSet({j \in S : j <= i}) /\ Cardinality({j \in S : j <= i}) <= Cardinality(S)
    BY <1>1, <2>1, FS_Subset
  <2> QED BY <1>1, <2>2, FS_CardinalityType DEF Rank
<1>3. ASSUME NEW i \in Nat, NEW j \in Nat, i <= j PROVE Rank(S, i) <= Rank(S, j)
  <2>1. {k \in S : k <= i} \in SUBSET {k \in S : k <= j}
    BY <1>3
  <2> QED BY <1>2, <2>1, FS_Subset DEF Rank
<1>4. ASSUME NEW i \in Nat, NEW j \in S, i < j PROVE Rank(S, i) < Rank(S, j)
  <2>1. {k \in S : k <= i} \in SUBSET {k \in S : k <= j} /\ j \in Nat
    BY <1>4
  <2>2. {k \in S : k <= i} # {k \in S : k <= j}
    <3>1. j \in {k \in S : k <= j} /\ j \notin {k \in S : k <= i}
      BY <1>4
    <3> QED BY <3>1
  <2>3. Rank(S, i) <= Rank(S, j) /\ Rank(S, i) # Rank(S, j)
    BY <1>2, <2>1, <2>2, FS_Subset DEF Rank
  <2>4. Rank(S, i) \in 0..Cardinality(S) /\ Rank(S, j) \in 0..Cardinality(S)
    BY <1>2, <2>1
  <2> QED BY <1>1, <2>3, <2>4
<1> QED BY <1>1, <1>2, <1>3, <1>4

\* For every k up to their number there is an element of that rank.
LEMMA EveryRank ==
    ASSUME NEW n \in Nat, NEW S, \A j \in S : j \in Nat /\ 1 <= j /\ j <= n, NEW k \in 1..Cardinality(S)
    PROVE  \E i \in S : Rank(S, i) = k
<1> DEFINE High == {i \in Nat : Rank(S, i) >= k}
<1>1. n \in High
  <2>1. {j \in S : j <= n} = S
    OBVIOUS
  <2> QED BY <2>1, RankGrows DEF Rank
<1>2. PICK i \in High : \A j \in High : i <= j
  BY <1>1, LeastNatural
<1>3. Rank(S, 0) = 0
  <2>1. {j \in S : j <= 0} = {}
    OBVIOUS
  <2> QED BY <2>1, FS_EmptySet DEF Rank
<1>4. i # 0 /\ i - 1 \in Nat
  BY <1>2, <1>3
<1>5. Rank(S, i - 1) < k
  <2>1. i - 1 \notin High
    BY <1>2, <1>4
  <2> QED BY <2>1, <1>4, RankGrows
<1>6. i \in S
  <2> SUFFICES ASSUME i \notin S PROVE FALSE
    OBVIOUS
  <2>1. {j \in S : j <= i} = {j \in S : j <= i - 1}
    BY <1>4
  <2> QED BY <1>2, <1>5, <2>1, <1>4, RankGrows DEF Rank
<1>7. Rank(S, i) = k
  <2> DEFINE L == {j \in S : j <= i - 1}
  <2>1. {j \in S : j <= i} = L \cup {i} /\ i \notin L
    <3>1. \A j \in S : j <= i <=> j <= i - 1 \/ j = i
      BY <1>4
    <3>2. i <= i /\ ~(i <= i - 1)
      BY <1>4
    <3> QED BY <1>6, <3>1, <3>2
  <2>2. IsFiniteSet(L)
    <3>1. L \in SUBSET S
      OBVIOUS
    <3> QED BY <3>1, RankGrows, FS_Subset
  <2>3. Cardinality(L \cup {i}) = Cardinality(L) + 1
    BY <2>1, <2>2, FS_AddElement
  <2>4. Rank(S, i) = Rank(S, i - 1) + 1
    BY <2>1, <2>3 DEF Rank
  <2>5. Rank(S, i - 1) \in Nat /\ Rank(S, i) >= k /\ k \in Nat
    BY <1>2, <1>4, RankGrows
  <2> QED BY <1>5, <2>4, <2>5
<1> QED BY <1>6, <1>7

\* The k-th element is one, they go up, each has a number and there is none
\* between the one and the next.
LEMMA NthProperties ==
    ASSUME NEW n \in Nat, NEW S, \A j \in S : j \in Nat /\ 1 <= j /\ j <= n
    PROVE  /\ \A k \in 1..Cardinality(S) : Nth(S, k) \in S /\ Rank(S, Nth(S, k)) = k
           /\ \A k, l \in 1..Cardinality(S) : k < l => Nth(S, k) < Nth(S, l)
           /\ \A i \in S : \E k \in 1..Cardinality(S) : Nth(S, k) = i
<1>1. ASSUME NEW k \in 1..Cardinality(S) PROVE Nth(S, k) \in S /\ Rank(S, Nth(S, k)) = k
  <2>1. \E i \in S : Rank(S, i) = k
    BY EveryRank
  <2>2. Nth(S, k) = CHOOSE i \in S : Rank(S, i) = k
    BY DEF Nth, Rank
  <2> QED BY <2>1, <2>2
<1>2. ASSUME NEW k \in 1..Cardinality(S), NEW l \in 1..Cardinality(S), k < l
      PROVE  Nth(S, k) < Nth(S, l)
  <2>1. Nth(S, k) \in Nat /\ Nth(S, l) \in Nat
    BY <1>1
  <2>2. Nth(S, l) <= Nth(S, k) => l <= k
    BY <1>1, <2>1, RankGrows
  <2> QED BY <1>2, <2>1, <2>2, RankGrows
<1>3. ASSUME NEW i \in S PROVE \E k \in 1..Cardinality(S) : Nth(S, k) = i
  <2>0. i \in Nat /\ 0 \in Nat /\ 0 < i
    OBVIOUS
  <2>1. Rank(S, i) \in 1..Cardinality(S)
    <3>1. Rank(S, 0) < Rank(S, i)
      BY <2>0, RankGrows
    <3>2. Rank(S, 0) \in 0..Cardinality(S) /\ Rank(S, i) \in 0..Cardinality(S)
      BY <2>0, RankGrows
    <3> QED BY <3>1, <3>2, RankGrows
  <2> DEFINE e == Nth(S, Rank(S, i))
  <2>2. e \in S /\ Rank(S, e) = Rank(S, i)
    BY <1>1, <2>1
  <2>3. e \in Nat
    BY <2>2
  <2>4. Rank(S, i) \in Nat
    BY <2>1
  <2>5. e < i => Rank(S, e) < Rank(S, i)
    BY <2>0, <2>3, RankGrows
  <2>6. i < e => Rank(S, i) < Rank(S, e)
    BY <2>0, <2>2, RankGrows
  <2> QED BY <2>0, <2>1, <2>2, <2>3, <2>4, <2>5, <2>6
<1> QED BY <1>1, <1>2, <1>3

-----------------------------------------------------------------------------
(* Pieces: what lies between the stops of getline. *)

\* The k-th piece of q is from the one place to the other.
From(q, k) == IF k = 1 THEN 1 ELSE Nth(Stops(q), k - 1) + 1
To(q, k) == Nth(Stops(q), k) - 1
Many(q) == Cardinality(Stops(q))

IsCr(q, i) == Sign(q[i]) = CR

\* A stop is a CR or the end of a text that goes on after its last CR.
LEMMA StopsAreCrs ==
    ASSUME NEW U, NEW q \in Seq(U), q # <<>>
    PROVE  /\ Len(q) \in Nat \ {0} /\ Len(q) + 1 \in Nat
           /\ \A i \in Stops(q) : i \in Nat /\ 1 <= i /\ i <= Len(q) + 1
           /\ \A i \in 1..Len(q) : i \in Stops(q) <=> IsCr(q, i)
           /\ Len(q) + 1 \in Stops(q) <=> ~IsCr(q, Len(q))
<1>1. Len(q) \in Nat \ {0}
  OBVIOUS
<1>2. \A i \in 1..(Len(q) + 1) :
        i \in Stops(q) <=> IF i > Len(q) THEN ~IsCr(q, Len(q)) ELSE IsCr(q, i)
  BY DEF Stops, IsCr, Last
<1>3. \A i \in Stops(q) : i \in 1..(Len(q) + 1)
  BY DEF Stops
<1> HIDE DEF Stops
<1> QED BY <1>1, <1>2, <1>3

\* There is a stop, and it is counted.
LEMMA StopsAreCounted ==
    ASSUME NEW U, NEW q \in Seq(U), q # <<>>
    PROVE  /\ Many(q) \in Nat \ {0}
           /\ \A k \in 1..Many(q) : Nth(Stops(q), k) \in Stops(q)
           /\ \A k, l \in 1..Many(q) : k < l => Nth(Stops(q), k) < Nth(Stops(q), l)
           /\ \A i \in Stops(q) : \E k \in 1..Many(q) : Nth(Stops(q), k) = i
<1>1. \A i \in Stops(q) : i \in Nat /\ 1 <= i /\ i <= Len(q) + 1
  BY StopsAreCrs
<1>2. Len(q) + 1 \in Nat
  BY StopsAreCrs
<1>3. Many(q) \in Nat
  BY <1>1, <1>2, RankGrows DEF Many
<1>4. /\ \A k \in 1..Many(q) : Nth(Stops(q), k) \in Stops(q)
      /\ \A k, l \in 1..Many(q) : k < l => Nth(Stops(q), k) < Nth(Stops(q), l)
      /\ \A i \in Stops(q) : \E k \in 1..Many(q) : Nth(Stops(q), k) = i
  BY <1>1, <1>2, NthProperties DEF Many
<1>5. Stops(q) # {}
  <2>1. Len(q) \in Stops(q) \/ Len(q) + 1 \in Stops(q)
    BY StopsAreCrs
  <2> QED BY <2>1
<1>6. Many(q) # 0
  BY <1>4, <1>5
<1> QED BY <1>3, <1>4, <1>6

\* A piece lies in the text, has no CR, and has one on each side, unless it is
\* the first or the last; no two overlap.
LEMMA PieceBounds ==
    ASSUME NEW U, NEW q \in Seq(U), q # <<>>
    PROVE  /\ \A k \in 1..Many(q) :
                /\ From(q, k) \in 1..(Len(q) + 1) /\ To(q, k) \in 0..Len(q)
                /\ From(q, k) <= To(q, k) + 1
                /\ From(q, k) = 1 \/ IsCr(q, From(q, k) - 1)
                /\ To(q, k) = Len(q) \/ IsCr(q, To(q, k) + 1)
           /\ \A k, l \in 1..Many(q) : k < l => To(q, k) < From(q, l)
<1> USE StopsAreCrs, StopsAreCounted
<1>1. ASSUME NEW k \in 1..Many(q)
      PROVE  To(q, k) \in 0..Len(q) /\ (To(q, k) = Len(q) \/ IsCr(q, To(q, k) + 1))
  <2>1. Nth(Stops(q), k) \in Stops(q) /\ Nth(Stops(q), k) \in 1..(Len(q) + 1)
    OBVIOUS
  <2> QED BY <2>1 DEF To
<1>2. ASSUME NEW k \in 1..Many(q)
      PROVE  /\ From(q, k) \in 1..(Len(q) + 1) /\ From(q, k) <= To(q, k) + 1
             /\ From(q, k) = 1 \/ IsCr(q, From(q, k) - 1)
  <2>1. CASE k = 1
    BY <1>1, <2>1 DEF From
  <2>2. CASE k # 1
    <3>1. k - 1 \in 1..Many(q) /\ k - 1 < k
      BY <2>2
    <3>2. Nth(Stops(q), k - 1) \in Stops(q) /\ Nth(Stops(q), k) \in Stops(q)
          /\ Nth(Stops(q), k - 1) < Nth(Stops(q), k)
      BY <3>1
    <3>3. Nth(Stops(q), k - 1) \in 1..Len(q) /\ Nth(Stops(q), k) \in 1..(Len(q) + 1)
      BY <3>2
    <3>4. IsCr(q, Nth(Stops(q), k - 1))
      BY <3>2, <3>3
    <3> QED BY <2>2, <3>2, <3>3, <3>4 DEF From, To
  <2> QED BY <2>1, <2>2
<1>3. ASSUME NEW k \in 1..Many(q), NEW l \in 1..Many(q), k < l PROVE To(q, k) < From(q, l)
  <2>1. l # 1 /\ l - 1 \in 1..Many(q) /\ (k = l - 1 \/ k < l - 1)
    BY <1>3
  <2>2. Nth(Stops(q), k) \in Nat /\ Nth(Stops(q), l - 1) \in Nat
    BY <2>1
  <2>3. Nth(Stops(q), k) <= Nth(Stops(q), l - 1)
    BY <2>1, <2>2
  <2> QED BY <2>1, <2>2, <2>3 DEF From, To
<1> QED BY <1>1, <1>2, <1>3

\* A piece has no CR, and what is no CR is in a piece.
LEMMA PiecesAreTheRest ==
    ASSUME NEW U, NEW q \in Seq(U), q # <<>>, NEW i \in 1..Len(q)
    PROVE  ~IsCr(q, i) <=> \E k \in 1..Many(q) : From(q, k) <= i /\ i <= To(q, k)
<1> USE StopsAreCrs, StopsAreCounted
<1>1. ASSUME NEW k \in 1..Many(q), From(q, k) <= i, i <= To(q, k), IsCr(q, i) PROVE FALSE
  <2>1. PICK l \in 1..Many(q) : Nth(Stops(q), l) = i
    BY <1>1
  <2>2. Nth(Stops(q), k) \in Nat /\ i < Nth(Stops(q), k)
    BY <1>1 DEF To
  <2>3. l < k
    <3>1. ~(k < l) /\ k # l
      BY <2>1, <2>2
    <3> QED BY <3>1
  <2>4. k # 1 /\ k - 1 \in 1..Many(q) /\ (l = k - 1 \/ l < k - 1)
    BY <2>3
  <2>5. i <= Nth(Stops(q), k - 1) /\ Nth(Stops(q), k - 1) \in Nat
    BY <2>1, <2>4
  <2> QED BY <1>1, <2>4, <2>5 DEF From
<1>2. ASSUME ~IsCr(q, i) PROVE \E k \in 1..Many(q) : From(q, k) <= i /\ i <= To(q, k)
  <2> DEFINE S == {e \in Stops(q) : i <= e}
  <2>1. S # {} /\ S \in SUBSET Nat
    <3>1. Len(q) \in S \/ Len(q) + 1 \in S
      OBVIOUS
    <3> QED BY <3>1
  <2>2. PICK e \in S : \A d \in S : e <= d
    BY <2>1, LeastNatural
  <2>3. e \in Stops(q) /\ e \in Nat /\ i < e
    BY <1>2, <2>2
  <2>4. PICK k \in 1..Many(q) : Nth(Stops(q), k) = e
    BY <2>3
  <2>5. i <= To(q, k)
    BY <2>3, <2>4 DEF To
  <2>6. From(q, k) <= i
    <3>1. CASE k = 1
      BY <3>1 DEF From
    <3>2. CASE k # 1
      <4>1. k - 1 \in 1..Many(q) /\ k - 1 < k
        BY <3>2
      <4>2. Nth(Stops(q), k - 1) \in Stops(q) /\ Nth(Stops(q), k - 1) < e
        BY <2>4, <4>1
      <4>3. Nth(Stops(q), k - 1) \in Nat
        BY <4>2
      <4>4. ~(i <= Nth(Stops(q), k - 1))
        BY <2>2, <2>3, <4>2, <4>3
      <4> QED BY <3>2, <4>3, <4>4 DEF From
    <3> QED BY <3>1, <3>2
  <2> QED BY <2>5, <2>6
<1> QED BY <1>1, <1>2

-----------------------------------------------------------------------------
(* Commands: pieces without their first LF. *)

\* A part of a text.
LEMMA PartIs ==
    ASSUME NEW U, NEW q \in Seq(U), NEW a \in 1..(Len(q) + 1), NEW b \in 0..Len(q), a <= b + 1
    PROVE  /\ SubSeq(q, a, b) \in Seq(U)
           /\ Len(SubSeq(q, a, b)) = b - a + 1
           /\ \A i \in 1..(b - a + 1) : SubSeq(q, a, b)[i] = q[a + i - 1]
<1>1. Len(q) \in Nat /\ \A i \in 1..Len(q) : q[i] \in U
  BY ElementOfSeq
<1>2. a \in Int /\ b \in Int /\ \A i \in a..b : q[i] \in U
  BY <1>1
<1> QED BY <1>1, <1>2, SubSeqProperties

\* A function on 1..n is a sequence.
LEMMA ListIs ==
    ASSUME NEW U, NEW n \in Nat, NEW f \in [1..n -> U]
    PROVE  f \in Seq(U) /\ Len(f) = n /\ DOMAIN f = 1..n
OBVIOUS

\* The pieces are the parts of q between its stops.
LEMMA PiecesAre ==
    ASSUME NEW U, NEW q \in Seq(U), q # <<>>
    PROVE  /\ Pieces(q) = [k \in 1..Many(q) |-> SubSeq(q, From(q, k), To(q, k))]
           /\ Pieces(q) \in Seq(Seq(U)) /\ Len(Pieces(q)) = Many(q)
           /\ \A k \in 1..Many(q) :
                /\ Pieces(q)[k] \in Seq(U)
                /\ Len(Pieces(q)[k]) = To(q, k) - From(q, k) + 1
                /\ \A i \in 1..Len(Pieces(q)[k]) : Pieces(q)[k][i] = q[From(q, k) + i - 1]
<1>1. Pieces(q) = [k \in 1..Many(q) |-> SubSeq(q, From(q, k), To(q, k))]
  BY DEF Pieces, From, To, Many
<1>2. ASSUME NEW k \in 1..Many(q)
      PROVE  /\ SubSeq(q, From(q, k), To(q, k)) \in Seq(U)
             /\ Len(SubSeq(q, From(q, k), To(q, k))) = To(q, k) - From(q, k) + 1
             /\ \A i \in 1..(To(q, k) - From(q, k) + 1) :
                   SubSeq(q, From(q, k), To(q, k))[i] = q[From(q, k) + i - 1]
  BY PieceBounds, PartIs
<1>3. Many(q) \in Nat
  BY StopsAreCounted
<1>4. Pieces(q) \in Seq(Seq(U)) /\ Len(Pieces(q)) = Many(q)
  <2>1. [k \in 1..Many(q) |-> SubSeq(q, From(q, k), To(q, k))] \in [1..Many(q) -> Seq(U)]
    BY <1>2
  <2> QED BY <1>1, <1>3, <2>1, ListIs
<1> QED BY <1>1, <1>2, <1>4

\* w is c without its unit at m, which is its first of that sign, or c when m
\* is behind its end.
Omits(c, w, sign, m) ==
    /\ m <= Len(c) => Sign(c[m]) = sign
    /\ \A i \in 1..(m - 1) : Sign(c[i]) # sign
    /\ Len(w) = IF m > Len(c) THEN Len(c) ELSE Len(c) - 1
    /\ \A i \in 1..Len(w) : w[i] = c[IF i < m THEN i ELSE i + 1]

\* What is left of a piece when its first LF is gone.
LEMMA WithoutFirstIs ==
    ASSUME NEW U, NEW c \in Seq(U), NEW sign
    PROVE  /\ WithoutFirst(c, sign) \in Seq(U)
           /\ \E m \in 1..(Len(c) + 1) : Omits(c, WithoutFirst(c, sign), sign, m)
<1>0. Len(c) \in Nat /\ DOMAIN c = 1..Len(c) /\ \A i \in 1..Len(c) : c[i] \in U
  BY ElementOfSeq, LenProperties
<1>1. CASE ~Has(c, sign)
  <2>1. WithoutFirst(c, sign) = c
    BY <1>1 DEF WithoutFirst
  <2>2. \A i \in 1..Len(c) : Sign(c[i]) # sign
    BY <1>0, <1>1 DEF Has
  <2>3. Len(c) + 1 \in 1..(Len(c) + 1) /\ (Len(c) + 1) - 1 = Len(c) /\ Len(c) + 1 > Len(c)
        /\ \A i \in 1..Len(c) : i < Len(c) + 1
    BY <1>0
  <2> HIDE DEF WithoutFirst, Sign
  <2>4. Omits(c, c, sign, Len(c) + 1)
    BY <1>0, <2>2, <2>3 DEF Omits
  <2> QED BY <2>1, <2>3, <2>4
<1>2. CASE Has(c, sign)
  <2> DEFINE S == {i \in DOMAIN c : Sign(c[i]) = sign}
             m == Min(S)
             w == SubSeq(c, 1, m - 1) \o SubSeq(c, m + 1, Len(c))
  <2>1. S # {} /\ S \in SUBSET Nat
    BY <1>0, <1>2 DEF Has
  <2>2. m \in S /\ \A i \in S : m <= i
    BY <2>1, MinIsLeast
  <2>3. m \in 1..Len(c) /\ Sign(c[m]) = sign /\ \A i \in 1..(m - 1) : Sign(c[i]) # sign
    <3>1. m \in 1..Len(c) /\ Sign(c[m]) = sign
      BY <1>0, <2>2
    <3>2. ASSUME NEW i \in 1..(m - 1), Sign(c[i]) = sign PROVE FALSE
      <4>1. i \in S /\ ~(m <= i)
        BY <1>0, <3>1, <3>2
      <4> QED BY <2>2, <4>1
    <3> QED BY <3>1, <3>2
  <2>4. WithoutFirst(c, sign) = w
    BY <1>2 DEF WithoutFirst, RemoveAt
  <2> HIDE DEF m, S, WithoutFirst
  <2> DEFINE v == SubSeq(c, 1, m - 1)
             z == SubSeq(c, m + 1, Len(c))
  <2>5. v \in Seq(U) /\ Len(v) = m - 1 /\ \A i \in 1..(m - 1) : v[i] = c[i]
    <3>1. 1 \in 1..(Len(c) + 1) /\ m - 1 \in 0..Len(c) /\ 1 <= (m - 1) + 1
          /\ (m - 1) - 1 + 1 = m - 1
      BY <1>0, <2>3
    <3>2. \A i \in 1..(m - 1) : 1 + i - 1 = i
      BY <2>3
    <3> QED BY <3>1, <3>2, PartIs
  <2>6. z \in Seq(U) /\ Len(z) = Len(c) - m /\ \A i \in 1..(Len(c) - m) : z[i] = c[m + i]
    <3>1. m + 1 \in 1..(Len(c) + 1) /\ Len(c) \in 0..Len(c) /\ m + 1 <= Len(c) + 1
          /\ Len(c) - (m + 1) + 1 = Len(c) - m
      BY <1>0, <2>3
    <3>2. \A i \in 1..(Len(c) - m) : (m + 1) + i - 1 = m + i
      BY <1>0, <2>3
    <3> QED BY <3>1, <3>2, PartIs
  <2>10. w = v \o z
    OBVIOUS
  <2> HIDE DEF v, z, w
  <2>7. w \in Seq(U) /\ Len(w) = Len(c) - 1
    <3>1. v \o z \in Seq(U) /\ Len(v \o z) = Len(v) + Len(z)
      BY <2>5, <2>6, ConcatProperties
    <3> QED BY <1>0, <2>3, <2>5, <2>6, <2>10, <3>1
  <2>8. ASSUME NEW i \in 1..(Len(c) - 1) PROVE w[i] = c[IF i < m THEN i ELSE i + 1]
    <3>1. i \in 1..(Len(v) + Len(z)) /\ Len(v) = m - 1
      BY <1>0, <2>3, <2>5, <2>6
    <3>2. (v \o z)[i] = IF i <= m - 1 THEN v[i] ELSE z[i - (m - 1)]
      BY <3>1, <2>5, <2>6, ConcatProperties
    <3>3. CASE i < m
      BY <1>0, <2>3, <2>5, <2>10, <3>2, <3>3
    <3>4. CASE ~(i < m)
      <4>1. i - (m - 1) \in 1..(Len(c) - m) /\ m + (i - (m - 1)) = i + 1
        BY <1>0, <2>3, <3>4
      <4>2. z[i - (m - 1)] = c[i + 1]
        BY <2>6, <4>1
      <4> QED BY <2>3, <2>10, <3>2, <3>4, <4>2
    <3> QED BY <3>3, <3>4
  <2>9. m \in 1..(Len(c) + 1) /\ m <= Len(c) /\ ~(m > Len(c))
    BY <1>0, <2>3
  <2>11. Omits(c, w, sign, m)
    BY <2>3, <2>7, <2>8, <2>9 DEF Omits
  <2> QED BY <2>4, <2>7, <2>9, <2>10, <2>11
<1> QED BY <1>1, <1>2

\* What becomes of the k-th piece of q.
Cut(q, k) == WithoutFirst(SubSeq(q, From(q, k), To(q, k)), LF)

IsLf(q, i) == Sign(q[i]) = LF

\* The units of the k-th command are those of the piece, in their order, but for
\* its first LF, which is at m.
CutAt(q, k, m) ==
    /\ m <= To(q, k) => IsLf(q, m)
    /\ \A i \in From(q, k)..(m - 1) : ~IsLf(q, i)
    /\ Len(Cut(q, k)) = To(q, k) - From(q, k) + (IF m > To(q, k) THEN 1 ELSE 0)
    /\ \A i \in 1..Len(Cut(q, k)) :
          Cut(q, k)[i] = q[From(q, k) + i - (IF From(q, k) + i - 1 < m THEN 1 ELSE 0)]

LEMMA CutIs ==
    ASSUME NEW U, NEW q \in Seq(U), q # <<>>, NEW k \in 1..Many(q)
    PROVE  Cut(q, k) \in Seq(U) /\ \E m \in From(q, k)..(To(q, k) + 1) : CutAt(q, k, m)
<1> DEFINE f == From(q, k)
           t == To(q, k)
           c == SubSeq(q, f, t)
<1>1. f \in 1..(Len(q) + 1) /\ t \in 0..Len(q) /\ f <= t + 1 /\ Len(q) \in Nat
  BY PieceBounds, StopsAreCrs
<1>2. c \in Seq(U) /\ Len(c) = t - f + 1 /\ \A i \in 1..(t - f + 1) : c[i] = q[f + i - 1]
  BY <1>1, PartIs
<1>3. Cut(q, k) = WithoutFirst(c, LF)
  BY DEF Cut
<1> HIDE DEF f, t, c
<1>4. PICK n \in 1..(Len(c) + 1) : Cut(q, k) \in Seq(U) /\ Omits(c, Cut(q, k), LF, n)
  BY <1>2, <1>3, WithoutFirstIs
<1> USE DEF Omits
<1> DEFINE m == f + n - 1
<1>5. m \in f..(t + 1) /\ m \in Nat
  BY <1>1, <1>2
<1>6. m <= t => IsLf(q, m)
  <2> SUFFICES ASSUME m <= t PROVE IsLf(q, m)
    OBVIOUS
  <2>1. n \in 1..(t - f + 1) /\ n <= Len(c) /\ f + n - 1 = m
    BY <1>1, <1>2
  <2> QED BY <1>2, <1>4, <2>1 DEF IsLf
<1>7. ASSUME NEW i \in f..(m - 1) PROVE ~IsLf(q, i)
  <2>1. i - f + 1 \in 1..(n - 1) /\ i - f + 1 \in 1..(t - f + 1) /\ f + (i - f + 1) - 1 = i
    BY <1>1, <1>2
  <2> QED BY <1>2, <1>4, <2>1 DEF IsLf
<1>8. Len(Cut(q, k)) = t - f + (IF m > t THEN 1 ELSE 0)
  BY <1>1, <1>2, <1>4
<1>9. ASSUME NEW i \in 1..Len(Cut(q, k))
      PROVE  Cut(q, k)[i] = q[f + i - (IF f + i - 1 < m THEN 1 ELSE 0)]
  <2>1. i \in Nat /\ i >= 1 /\ i <= t - f + (IF m > t THEN 1 ELSE 0)
    BY <1>1, <1>5, <1>8
  <2>2. CASE i < n
    <3>1. Cut(q, k)[i] = c[i] /\ i \in 1..(t - f + 1) /\ f + i - 1 < m
      BY <1>1, <1>2, <1>4, <2>1, <2>2
    <3> QED BY <1>2, <3>1
  <2>3. CASE ~(i < n)
    <3>1. Cut(q, k)[i] = c[i + 1]
      BY <1>4, <2>3
    <3>3. ~(f + i - 1 < m)
      BY <1>1, <2>1, <2>3
    <3>2. i + 1 \in 1..(t - f + 1) /\ f + (i + 1) - 1 = f + i - 0
      BY <1>1, <1>2, <2>1, <2>3
    <3> QED BY <1>2, <3>1, <3>2, <3>3
  <2> QED BY <2>2, <2>3
<1>10. CutAt(q, k, m)
  BY <1>6, <1>7, <1>8, <1>9 DEF CutAt, f, t
<1> QED BY <1>4, <1>5, <1>10 DEF f, t

\* The commands are the pieces without their first LF, but for a last piece that
\* is a LF alone.
LEMMA CommandsAre ==
    ASSUME NEW U, NEW q \in Seq(U), q # <<>>
    PROVE  /\ Commands(q) \in Seq(Seq(U))
           /\ \A k \in DOMAIN Commands(q) : k \in 1..Many(q) /\ Commands(q)[k] = Cut(q, k)
           /\ \A k \in 1..Many(q) : k \notin DOMAIN Commands(q) =>
                 From(q, k) = To(q, k) /\ IsLf(q, From(q, k))
<1> DEFINE ps == Pieces(q)
           n == Many(q)
           drop == Len(Last(ps)) = 1 /\ Has(Last(ps), LF)
           kept == IF drop THEN Front(ps) ELSE ps
<1>1. n \in Nat \ {0} /\ \A k \in 1..n : Cut(q, k) \in Seq(U)
  BY StopsAreCounted, CutIs
<1>2. ps \in Seq(Seq(U)) /\ Len(ps) = n /\ \A k \in 1..n : ps[k] = SubSeq(q, From(q, k), To(q, k))
  BY PiecesAre
<1>3. Commands(q) = [k \in DOMAIN kept |-> WithoutFirst(kept[k], LF)]
  BY DEF Commands
<1>4. drop => From(q, n) = To(q, n) /\ IsLf(q, From(q, n))
  <2> SUFFICES ASSUME drop PROVE From(q, n) = To(q, n) /\ IsLf(q, From(q, n))
    OBVIOUS
  <2>1. Last(ps) = ps[n] /\ n \in 1..n
    BY <1>1, <1>2 DEF Last
  <2>2. ps[n] \in Seq(U) /\ Len(ps[n]) = To(q, n) - From(q, n) + 1
        /\ \A i \in 1..Len(ps[n]) : ps[n][i] = q[From(q, n) + i - 1]
    BY <2>1, PiecesAre
  <2>3. From(q, n) \in Nat /\ To(q, n) \in Nat
    BY <2>1, PieceBounds, StopsAreCrs
  <2>4. PICK i \in DOMAIN ps[n] : Sign(ps[n][i]) = LF
    BY <2>1 DEF Has
  <2>5. i = 1
    BY <2>1, <2>2, <2>4
  <2>6. Len(ps[n]) = 1
    BY <2>1
  <2>7. From(q, n) = To(q, n) /\ From(q, n) + 1 - 1 = From(q, n)
    BY <2>2, <2>3, <2>6
  <2>8. ps[n][1] = q[From(q, n)]
    BY <2>2, <2>6, <2>7
  <2> QED BY <2>4, <2>5, <2>7, <2>8 DEF IsLf
<1>5. \E m \in {n, n - 1} : /\ Len(kept) = m /\ kept \in Seq(Seq(U)) /\ (m = n - 1 => drop)
                            /\ \A k \in 1..m : kept[k] = ps[k]
  <2> HIDE DEF ps
  <2>1. CASE drop
    <3>1. 1 \in 1..(Len(ps) + 1) /\ n - 1 \in 0..Len(ps) /\ 1 <= (n - 1) + 1
          /\ (n - 1) - 1 + 1 = n - 1 /\ \A k \in 1..(n - 1) : 1 + k - 1 = k
      BY <1>1, <1>2
    <3>2. Front(ps) \in Seq(Seq(U)) /\ Len(Front(ps)) = n - 1 /\ \A k \in 1..(n - 1) : Front(ps)[k] = ps[k]
      BY <1>2, <3>1, PartIs DEF Front
    <3>3. kept = Front(ps)
      BY <2>1
    <3> QED BY <2>1, <3>2, <3>3
  <2>2. CASE ~drop
    <3>1. kept = ps /\ n # n - 1
      BY <1>1, <2>2
    <3> QED BY <1>2, <3>1
  <2> QED BY <2>1, <2>2
<1> HIDE DEF kept, drop, ps
<1>6. PICK m \in {n, n - 1} : /\ Len(kept) = m /\ kept \in Seq(Seq(U)) /\ (m = n - 1 => drop)
                              /\ \A k \in 1..m : kept[k] = ps[k]
  BY <1>5
<1>7. DOMAIN kept = 1..m /\ m \in Nat /\ \A k \in 1..m : k \in 1..n
  BY <1>1, <1>6
<1>8. \A k \in 1..m : WithoutFirst(kept[k], LF) = Cut(q, k)
  BY <1>2, <1>6, <1>7 DEF Cut
<1>9. Commands(q) \in [1..m -> Seq(U)] /\ \A k \in 1..m : Commands(q)[k] = Cut(q, k)
  BY <1>1, <1>3, <1>7, <1>8
<1>10. Commands(q) \in Seq(Seq(U)) /\ DOMAIN Commands(q) = 1..m
  BY <1>7, <1>9, ListIs
<1>11. \A k \in 1..n : k \notin 1..m => k = n /\ drop
  BY <1>1, <1>6
<1> QED BY <1>4, <1>7, <1>9, <1>10, <1>11

-----------------------------------------------------------------------------
(* Where the units of a command stand in the text it was cut from. *)

Spot(q, k, m, i) == From(q, k) + i - (IF From(q, k) + i - 1 < m THEN 1 ELSE 0)

\* Every spot of the piece but the first LF is that of a unit of the command,
\* in order.
LEMMA SpotsOfCut ==
    ASSUME NEW U, NEW q \in Seq(U), q # <<>>, NEW k \in 1..Many(q),
           NEW m \in From(q, k)..(To(q, k) + 1), CutAt(q, k, m)
    PROVE  /\ Len(Cut(q, k)) \in Nat /\ DOMAIN Cut(q, k) = 1..Len(Cut(q, k))
           /\ \A i \in 1..Len(Cut(q, k)) :
                /\ Spot(q, k, m, i) \in 1..Len(q) /\ Cut(q, k)[i] = q[Spot(q, k, m, i)]
                /\ From(q, k) <= Spot(q, k, m, i) /\ Spot(q, k, m, i) <= To(q, k)
           /\ \A i, j \in 1..Len(Cut(q, k)) : i < j => Spot(q, k, m, i) < Spot(q, k, m, j)
           /\ \A x \in From(q, k)..To(q, k) :
                x # m => \E i \in 1..Len(Cut(q, k)) : Spot(q, k, m, i) = x
<1> DEFINE f == From(q, k)
           t == To(q, k)
           c == Cut(q, k)
<1>1. f \in 1..(Len(q) + 1) /\ t \in 0..Len(q) /\ f <= t + 1 /\ Len(q) \in Nat
  BY PieceBounds, StopsAreCrs
<1>2. Len(c) \in Nat /\ DOMAIN c = 1..Len(c)
  BY CutIs, LenProperties
<1>3. /\ Len(c) = t - f + (IF m > t THEN 1 ELSE 0)
      /\ \A i \in 1..Len(c) : c[i] = q[Spot(q, k, m, i)]
  BY DEF CutAt, Spot
<1>4. \A i \in 1..Len(c) : Spot(q, k, m, i) = f + i - (IF f + i - 1 < m THEN 1 ELSE 0)
  BY DEF Spot
<1>5. m \in f..(t + 1)
  OBVIOUS
<1> HIDE DEF f, t, c
<1>6. ASSUME NEW i \in 1..Len(c)
      PROVE  Spot(q, k, m, i) \in 1..Len(q) /\ f <= Spot(q, k, m, i) /\ Spot(q, k, m, i) <= t
  BY <1>1, <1>2, <1>3, <1>4, <1>5
<1>7. ASSUME NEW i \in 1..Len(c), NEW j \in 1..Len(c), i < j
      PROVE  Spot(q, k, m, i) < Spot(q, k, m, j)
  BY <1>1, <1>2, <1>4, <1>5, <1>7
<1>8. ASSUME NEW x \in f..t, x # m PROVE \E i \in 1..Len(c) : Spot(q, k, m, i) = x
  <2>1. CASE x < m
    <3>1. x - f + 1 \in 1..Len(c) /\ f + (x - f + 1) - 1 = x
      BY <1>1, <1>2, <1>3, <1>5, <1>8, <2>1
    <3> QED BY <1>1, <1>4, <1>5, <2>1, <3>1
  <2>2. CASE ~(x < m)
    <3>1. x - f \in 1..Len(c) /\ ~(f + (x - f) - 1 < m) /\ f + (x - f) - 0 = x
      BY <1>1, <1>2, <1>3, <1>5, <1>8, <2>2
    <3> QED BY <1>1, <1>4, <1>5, <2>2, <3>1
  <2> QED BY <2>1, <2>2
<1> QED BY <1>2, <1>3, <1>6, <1>7, <1>8 DEF f, t, c

\* Units of a text stand in the order in which they were sent.
Rising(q) == \A i, j \in DOMAIN q : i < j => Place(q[i]) < Place(q[j])

\* The commands of a text in order are in order.
LEMMA CommandsInOrder ==
    ASSUME NEW U, NEW q \in Seq(U), q # <<>>, Rising(q)
    PROVE  InOrder(Commands(q))
<1> SUFFICES ASSUME NEW k \in DOMAIN Commands(q), NEW l \in DOMAIN Commands(q),
                    NEW i \in DOMAIN Commands(q)[k], NEW j \in DOMAIN Commands(q)[l],
                    k < l \/ (k = l /\ i < j)
             PROVE  Place(Commands(q)[k][i]) < Place(Commands(q)[l][j])
  BY DEF InOrder
<1>1. k \in 1..Many(q) /\ l \in 1..Many(q) /\ Commands(q)[k] = Cut(q, k) /\ Commands(q)[l] = Cut(q, l)
  BY CommandsAre
<1>2. PICK m \in From(q, k)..(To(q, k) + 1) : CutAt(q, k, m)
  BY <1>1, CutIs
<1>3. PICK n \in From(q, l)..(To(q, l) + 1) : CutAt(q, l, n) /\ (k = l => n = m)
  BY <1>1, <1>2, CutIs
<1>4. /\ Spot(q, k, m, i) \in 1..Len(q) /\ Commands(q)[k][i] = q[Spot(q, k, m, i)]
      /\ Spot(q, k, m, i) <= To(q, k) /\ i \in 1..Len(Cut(q, k))
  BY <1>1, <1>2, SpotsOfCut
<1>5. /\ Spot(q, l, n, j) \in 1..Len(q) /\ Commands(q)[l][j] = q[Spot(q, l, n, j)]
      /\ From(q, l) <= Spot(q, l, n, j) /\ j \in 1..Len(Cut(q, l))
  BY <1>1, <1>3, SpotsOfCut
<1>6. Spot(q, k, m, i) < Spot(q, l, n, j)
  <2>1. CASE k < l
    <3>1. To(q, k) < From(q, l) /\ To(q, k) \in Nat /\ From(q, l) \in Nat
      BY <1>1, <2>1, PieceBounds, StopsAreCrs
    <3>2. Spot(q, k, m, i) \in Nat /\ Spot(q, l, n, j) \in Nat
      BY <1>4, <1>5
    <3> QED BY <1>4, <1>5, <3>1, <3>2
  <2>2. CASE k = l /\ i < j
    BY <1>1, <1>2, <1>3, <1>4, <1>5, <2>2, SpotsOfCut
  <2> QED BY <2>1, <2>2
<1>7. DOMAIN q = 1..Len(q)
  BY LenProperties
<1> QED BY <1>4, <1>5, <1>6, <1>7 DEF Rising

\* The commands of a text hold what it holds beside CR and LF.
LEMMA CommandsHoldText ==
    ASSUME NEW U, NEW q \in Seq(U), q # <<>>
    PROVE  TextIn(Commands(q)) = TextOf(q)
<1>1. Len(q) \in Nat /\ DOMAIN q = 1..Len(q)
  BY LenProperties
<1>2. ASSUME NEW k \in DOMAIN Commands(q), NEW u \in ToSet(Commands(q)[k]) PROVE u \in ToSet(q)
  <2>1. k \in 1..Many(q) /\ Commands(q)[k] = Cut(q, k)
    BY CommandsAre
  <2>2. PICK m \in From(q, k)..(To(q, k) + 1) : CutAt(q, k, m)
    BY <2>1, CutIs
  <2>3. PICK i \in DOMAIN Cut(q, k) : u = Cut(q, k)[i]
    BY <2>1 DEF ToSet
  <2>4. Spot(q, k, m, i) \in 1..Len(q) /\ Cut(q, k)[i] = q[Spot(q, k, m, i)]
    BY <2>1, <2>2, <2>3, SpotsOfCut
  <2> QED BY <1>1, <2>3, <2>4 DEF ToSet
<1>3. ASSUME NEW u \in ToSet(q), Sign(u) = TEXT
      PROVE  \E k \in DOMAIN Commands(q) : u \in ToSet(Commands(q)[k])
  <2>1. PICK x \in 1..Len(q) : u = q[x]
    BY <1>1 DEF ToSet
  <2>2. ~IsCr(q, x) /\ ~IsLf(q, x)
    BY <1>3, <2>1 DEF IsCr, IsLf, CR, LF, TEXT
  <2>3. PICK k \in 1..Many(q) : From(q, k) <= x /\ x <= To(q, k)
    BY <2>2, PiecesAreTheRest
  <2>4. From(q, k) \in Nat /\ To(q, k) \in Nat
    BY StopsAreCrs, PieceBounds
  <2>5. k \in DOMAIN Commands(q)
    <3> SUFFICES ASSUME k \notin DOMAIN Commands(q) PROVE FALSE
      OBVIOUS
    <3>1. From(q, k) = To(q, k) /\ IsLf(q, From(q, k))
      BY CommandsAre
    <3>2. x = From(q, k)
      BY <2>3, <2>4, <3>1
    <3> QED BY <2>2, <3>1, <3>2
  <2>6. Commands(q)[k] = Cut(q, k)
    BY <2>5, CommandsAre
  <2>7. PICK m \in From(q, k)..(To(q, k) + 1) : CutAt(q, k, m)
    BY CutIs
  <2>8. x # m /\ x \in From(q, k)..To(q, k)
    <3>1. m <= To(q, k) => IsLf(q, m)
      BY <2>7 DEF CutAt
    <3> QED BY <2>2, <2>3, <2>4, <3>1
  <2>9. PICK i \in 1..Len(Cut(q, k)) : Spot(q, k, m, i) = x
    BY <2>7, <2>8, SpotsOfCut
  <2>10. i \in DOMAIN Cut(q, k) /\ Cut(q, k)[i] = q[x]
    BY <2>7, <2>9, SpotsOfCut
  <2> QED BY <2>1, <2>5, <2>6, <2>10 DEF ToSet
<1> QED BY <1>2, <1>3 DEF TextIn, TextOf

\* The commands of lines that end with CR LF have no LF, and nothing is missing
\* between two of their units.
LEMMA CommandsOfLines ==
    ASSUME NEW U, NEW q \in Seq(U), q # <<>>,
           \A x \in 1..Len(q) : IsLf(q, x) => x = 1 \/ IsCr(q, x - 1),
           NEW k \in DOMAIN Commands(q)
    PROVE  \E a \in 1..(Len(q) + 1) : \A i \in 1..Len(Commands(q)[k]) :
              /\ a + i - 1 \in 1..Len(q) /\ Commands(q)[k][i] = q[a + i - 1]
              /\ ~IsLf(q, a + i - 1)
<1>1. k \in 1..Many(q) /\ Commands(q)[k] = Cut(q, k)
  BY CommandsAre
<1>2. PICK m \in From(q, k)..(To(q, k) + 1) : CutAt(q, k, m)
  BY <1>1, CutIs
<1> DEFINE f == From(q, k)
           t == To(q, k)
           c == Cut(q, k)
<1>3. f \in 1..(Len(q) + 1) /\ t \in 0..Len(q) /\ f <= t + 1 /\ Len(q) \in Nat
  BY <1>1, PieceBounds, StopsAreCrs
<1>4. \A x \in 1..Len(q) : f <= x /\ x <= t => ~IsCr(q, x)
  BY <1>1, PiecesAreTheRest
<1>5. /\ Len(c) \in Nat /\ Len(c) = t - f + (IF m > t THEN 1 ELSE 0)
      /\ m <= t => IsLf(q, m)
      /\ \A i \in f..(m - 1) : ~IsLf(q, i)
      /\ \A i \in 1..Len(c) : c[i] = q[f + i - (IF f + i - 1 < m THEN 1 ELSE 0)]
  BY <1>1, <1>2, SpotsOfCut DEF CutAt
<1>6. m \in f..(t + 1)
  OBVIOUS
<1> HIDE DEF f, t, c
<1>7. ASSUME NEW x \in 1..Len(q), f < x, x <= t PROVE ~IsLf(q, x)
  <2>1. x # 1 /\ x - 1 \in 1..Len(q) /\ f <= x - 1 /\ x - 1 <= t
    BY <1>3, <1>7
  <2> QED BY <1>4, <2>1
<1>8. CASE m <= t
  <2>1. m = f
    <3>1. m \in 1..Len(q)
      BY <1>3, <1>6, <1>8
    <3>2. ~(f < m)
      BY <1>5, <1>7, <1>8, <3>1
    <3> QED BY <1>3, <1>6, <3>2
  <2>2. Len(c) = t - f /\ f + 1 \in 1..(Len(q) + 1)
    BY <1>3, <1>5, <1>8, <2>1
  <2>3. ASSUME NEW i \in 1..Len(c)
        PROVE  /\ (f + 1) + i - 1 \in 1..Len(q) /\ c[i] = q[(f + 1) + i - 1]
               /\ ~IsLf(q, (f + 1) + i - 1)
    <3>1. f + i \in 1..Len(q) /\ f < f + i /\ f + i <= t /\ (f + 1) + i - 1 = f + i
          /\ ~(f + i - 1 < m) /\ f + i - 0 = f + i
      BY <1>3, <2>1, <2>2
    <3>2. c[i] = q[f + i] /\ ~IsLf(q, f + i)
      BY <1>5, <1>7, <3>1
    <3> QED BY <3>1, <3>2
  <2> QED BY <1>1, <2>2, <2>3 DEF c
<1>9. CASE ~(m <= t)
  <2>1. m = t + 1 /\ Len(c) = t - f + 1
    BY <1>3, <1>5, <1>6, <1>9
  <2>2. ASSUME NEW i \in 1..Len(c)
        PROVE  f + i - 1 \in 1..Len(q) /\ c[i] = q[f + i - 1] /\ ~IsLf(q, f + i - 1)
    <3>1. f + i - 1 \in 1..Len(q) /\ f + i - 1 \in f..(m - 1) /\ f + i - 1 < m
      BY <1>3, <2>1
    <3> QED BY <1>5, <3>1
  <2> QED BY <1>1, <1>3, <2>2 DEF c
<1> QED BY <1>8, <1>9

\* What lies between two CRs is a piece.
LEMMA GapIsPiece ==
    ASSUME NEW U, NEW q \in Seq(U), q # <<>>, NEW x \in 1..Len(q), NEW y \in 1..Len(q),
           x <= y, \A i \in x..y : ~IsCr(q, i),
           x = 1 \/ IsCr(q, x - 1), y = Len(q) \/ IsCr(q, y + 1)
    PROVE  \E k \in 1..Many(q) : From(q, k) = x /\ To(q, k) = y
<1>1. Len(q) \in Nat /\ x \in x..y
  BY StopsAreCrs
<1>2. PICK k \in 1..Many(q) : From(q, k) <= x /\ x <= To(q, k)
  BY <1>1, PiecesAreTheRest
<1> DEFINE f == From(q, k)
           t == To(q, k)
<1>3. /\ f \in 1..(Len(q) + 1) /\ t \in 0..Len(q)
      /\ t = Len(q) \/ IsCr(q, t + 1)
  BY PieceBounds
<1>4. \A i \in 1..Len(q) : f <= i /\ i <= t => ~IsCr(q, i)
  BY PiecesAreTheRest
<1>5. f <= x /\ x <= t
  BY <1>2
<1> HIDE DEF f, t
<1>6. f = x
  <2> SUFFICES ASSUME f # x PROVE FALSE
    OBVIOUS
  <2>1. x # 1 /\ x - 1 \in 1..Len(q) /\ f <= x - 1 /\ x - 1 <= t
    BY <1>1, <1>3, <1>5
  <2> QED BY <1>4, <2>1
<1>7. ~(t < y)
  <2> SUFFICES ASSUME t < y PROVE FALSE
    OBVIOUS
  <2>1. t # Len(q) /\ t + 1 \in x..y
    BY <1>1, <1>3, <1>5
  <2> QED BY <1>3, <2>1
<1>8. ~(y < t)
  <2> SUFFICES ASSUME y < t PROVE FALSE
    OBVIOUS
  <2>1. y # Len(q) /\ y + 1 \in 1..Len(q) /\ f <= y + 1 /\ y + 1 <= t
    BY <1>1, <1>3, <1>5
  <2> QED BY <1>4, <2>1
<1>9. t = y
  BY <1>1, <1>3, <1>7, <1>8
<1> QED BY <1>6, <1>9 DEF f, t

\* The units of q from e to y are a command.
IsCommand(q, e, y) ==
    \E k \in DOMAIN Commands(q) :
        /\ Len(Commands(q)[k]) = y - e + 1
        /\ \A i \in 1..(y - e + 1) : Commands(q)[k][i] = q[e + i - 1]

\* A piece is a command when it is text, after one LF that may stand before it.
LEMMA LineIsCommand ==
    ASSUME NEW U, NEW q \in Seq(U), q # <<>>, NEW x \in 1..Len(q), NEW y \in 1..Len(q),
           x <= y, \A i \in x..y : ~IsCr(q, i),
           x = 1 \/ IsCr(q, x - 1), y = Len(q) \/ IsCr(q, y + 1),
           NEW e \in {x, x + 1}, e <= y, e = x + 1 => IsLf(q, x),
           \A i \in e..y : ~IsLf(q, i)
    PROVE  IsCommand(q, e, y)
<1>1. Len(q) \in Nat
  BY StopsAreCrs
<1>2. PICK k \in 1..Many(q) : From(q, k) = x /\ To(q, k) = y
  BY GapIsPiece
<1>3. k \in DOMAIN Commands(q)
  <2> SUFFICES ASSUME k \notin DOMAIN Commands(q) PROVE FALSE
    OBVIOUS
  <2>1. x = y /\ IsLf(q, x)
    BY <1>2, CommandsAre
  <2>2. e = x /\ x \in e..y
    BY <2>1
  <2> QED BY <2>1, <2>2
<1>4. Commands(q)[k] = Cut(q, k)
  BY <1>3, CommandsAre
<1>5. PICK m \in From(q, k)..(To(q, k) + 1) : CutAt(q, k, m)
  BY CutIs
<1> DEFINE c == Cut(q, k)
<1>6. /\ Len(c) = y - x + (IF m > y THEN 1 ELSE 0) /\ m \in x..(y + 1)
      /\ m <= y => IsLf(q, m)
      /\ \A i \in x..(m - 1) : ~IsLf(q, i)
      /\ \A i \in 1..Len(c) : c[i] = q[x + i - (IF x + i - 1 < m THEN 1 ELSE 0)]
  BY <1>2, <1>5 DEF CutAt
<1> HIDE DEF c
<1>7. CASE e = x
  <2>1. ~(m <= y)
    <3>1. m <= y => m \in e..y
      BY <1>6, <1>7
    <3> QED BY <1>6, <3>1
  <2>2. Len(c) = y - e + 1 /\ m = y + 1
    BY <1>6, <1>7, <2>1
  <2>3. ASSUME NEW i \in 1..(y - e + 1) PROVE c[i] = q[e + i - 1]
    <3>1. x + i - 1 < m /\ i \in 1..Len(c)
      BY <1>7, <2>2
    <3> QED BY <1>6, <1>7, <3>1
  <2> QED BY <1>3, <1>4, <2>2, <2>3 DEF c, IsCommand
<1>8. CASE e = x + 1
  <2>1. m = x
    <3>1. x < m => x \in x..(m - 1)
      BY <1>6
    <3> QED BY <1>6, <1>8, <3>1
  <2>2. Len(c) = y - e + 1
    BY <1>6, <1>8, <2>1
  <2>3. ASSUME NEW i \in 1..(y - e + 1) PROVE c[i] = q[e + i - 1]
    <3>1. ~(x + i - 1 < m) /\ i \in 1..Len(c) /\ x + i - 0 = e + i - 1
      BY <1>8, <2>1, <2>2
    <3> QED BY <1>6, <3>1
  <2> QED BY <1>3, <1>4, <2>2, <2>3 DEF c, IsCommand
<1> QED BY <1>7, <1>8

-----------------------------------------------------------------------------
(* The invariant. *)

\* The variables speak of every socket.
Shapes ==
    /\ DOMAIN read = Socks /\ DOMAIN entry = Socks /\ DOMAIN form = Socks
    /\ DOMAIN buff = Socks /\ DOMAIN handled = Socks /\ DOMAIN reads = Socks

\* What is kept of a line has no LF, is kept in one of the two buffers only, and
\* there is nothing of it when commands of its peer wait.
KeptInv ==
    /\ \A s \in Socks : (entry[s] = "none" => buff[s] = <<>>) /\ ~Has(Kept(s), LF)
    /\ arr_msg # <<>> => Kept(serving) = <<>>

\* A command that is a piece of a line.
Tidy(c) == \A i \in DOMAIN c : Place(c[i]) = Place(c[1]) + i - 1 /\ Sign(c[i]) # LF

\* The text q of s is what came last before place m + 1.
Latest(s, q, m) == \A i \in DOMAIN q : q[i] = Unit(s, m - Len(q) + i)

\* When lines are proper, what is kept is what came last, and the commands are
\* pieces of lines.
LineInv ==
    \A s \in Socks : Proper(s) =>
        /\ Latest(s, Kept(s), read[s])
        /\ \A k \in DOMAIN handled[s] : Tidy(handled[s][k])
        /\ serving = s => \A k \in DOMAIN arr_msg : Tidy(arr_msg[k])

\* The line from a to b is a command, or what is kept begins with it.
Whole(s, a, b) ==
    \/ \E k \in DOMAIN handled[s] : handled[s][k] = Units(s, a, b)
    \/ serving = s /\ \E k \in DOMAIN arr_msg : arr_msg[k] = Units(s, a, b)
    \/ Kept(s) # <<>> /\ Kept(s)[1] = Unit(s, a)

\* So is every line that has begun to come and was cut fairly.
WholeInv ==
    \A s \in Socks : Proper(s) =>
        \A a \in 1..read[s], b \in 1..Len(Stream[s]) :
            IsLine(s, a, b) /\ CutFairly(s, a, b) => Whole(s, a, b)

\* The whole of it.
TypeInv == TypeOK /\ Shapes /\ KeptInv

-----------------------------------------------------------------------------
(* A recv. *)

\* The units of s up to place m.
UnitsOf(s, m) == {s} \X (1..m)

\* The text that recv of n units leaves to be cut.
NewText(s, n) == Kept(s) \o IF n > Longest THEN <<>> ELSE Units(s, read[s] + 1, read[s] + n)

LEMMA UnitsAre ==
    ASSUME NEW s, NEW a \in Nat \ {0}, NEW b \in Nat, a <= b + 1, NEW m \in Nat, b <= m
    PROVE  /\ Units(s, a, b) \in Seq(UnitsOf(s, m)) /\ Len(Units(s, a, b)) = b - a + 1
           /\ \A i \in 1..(b - a + 1) : Units(s, a, b)[i] = Unit(s, a + i - 1)
<1>1. b - a + 1 \in Nat /\ Units(s, a, b) = [i \in 1..(b - a + 1) |-> Unit(s, a + i - 1)]
  BY DEF Units
<1>2. \A i \in 1..(b - a + 1) : Unit(s, a + i - 1) \in UnitsOf(s, m)
  BY DEF Unit, UnitsOf
<1>3. Units(s, a, b) \in [1..(b - a + 1) -> UnitsOf(s, m)]
  BY <1>1, <1>2
<1> QED BY <1>1, <1>3, ListIs

\* The units of a line.
LEMMA LineUnits ==
    ASSUME NEW s, NEW a \in Nat, NEW b \in Nat, 1 <= a, a <= b
    PROVE  /\ Units(s, a, b) \in Seq({s} \X Nat) /\ Len(Units(s, a, b)) = b - a + 1
           /\ \A i \in 1..(b - a + 1) : Units(s, a, b)[i] = Unit(s, a + i - 1)
<1>1. /\ Units(s, a, b) \in Seq(UnitsOf(s, b)) /\ Len(Units(s, a, b)) = b - a + 1
      /\ \A i \in 1..(b - a + 1) : Units(s, a, b)[i] = Unit(s, a + i - 1)
  <2>1. a \in Nat \ {0} /\ a <= b + 1 /\ b <= b
    OBVIOUS
  <2> QED BY <2>1, UnitsAre
<1>2. UnitsOf(s, b) \subseteq {s} \X Nat
  BY DEF UnitsOf
<1> QED BY <1>1, <1>2, SeqMonotonic

\* A text of s is a text of s when more has been read.
LEMMA MoreUnits ==
    ASSUME NEW s, NEW m \in Nat, NEW n \in Nat, m <= n
    PROVE  /\ UnitsOf(s, m) \subseteq UnitsOf(s, n)
           /\ Seq(UnitsOf(s, m)) \subseteq Seq(UnitsOf(s, n))
           /\ Seq(Seq(UnitsOf(s, m))) \subseteq Seq(Seq(UnitsOf(s, n)))
<1>1. UnitsOf(s, m) \subseteq UnitsOf(s, n)
  BY DEF UnitsOf
<1>2. Seq(UnitsOf(s, m)) \subseteq Seq(UnitsOf(s, n))
  BY <1>1, SeqMonotonic
<1>3. Seq(Seq(UnitsOf(s, m))) \subseteq Seq(Seq(UnitsOf(s, n)))
  BY <1>2, SeqMonotonic
<1> QED BY <1>1, <1>2, <1>3

\* What TypeOK says, in the terms of the proofs.
LEMMA Types ==
    ASSUME TypeOK, NEW s \in Socks
    PROVE  /\ read[s] \in Nat /\ read[s] <= Len(Stream[s]) /\ Len(Stream[s]) \in Nat
           /\ entry[s] \in {"none", "half", "full"}
           /\ form[s] \in Seq(UnitsOf(s, read[s])) /\ buff[s] \in Seq(UnitsOf(s, read[s]))
           /\ Kept(s) \in Seq(UnitsOf(s, read[s]))
           /\ handled[s] \in Seq(Seq(UnitsOf(s, read[s])))
           /\ serving = s => arr_msg \in Seq(Seq(UnitsOf(s, read[s])))
           /\ reads[s] \subseteq (1..read[s]) \X (1..read[s])
<1>1. Len(Stream[s]) \in Nat
  BY StreamAssumption
<1>2. read[s] \in 0..Len(Stream[s]) /\ {form[s], buff[s]} \subseteq TextsOf(s)
  BY DEF TypeOK
<1>3. form[s] \in TextsOf(s) /\ buff[s] \in TextsOf(s)
  BY <1>2
<1>4. /\ entry[s] \in {"none", "half", "full"} /\ handled[s] \in Seq(TextsOf(s))
      /\ reads[s] \subseteq (1..read[s]) \X (1..read[s])
      /\ serving = s => arr_msg \in Seq(TextsOf(s))
  BY DEF TypeOK
<1>5. TextsOf(s) = Seq(UnitsOf(s, read[s]))
  BY DEF TextsOf, UnitsOf
<1>6. Kept(s) \in TextsOf(s)
  BY <1>3 DEF Kept
<1>7. read[s] \in Nat /\ read[s] <= Len(Stream[s])
  BY <1>1, <1>2
<1> QED BY <1>1, <1>3, <1>4, <1>5, <1>6, <1>7

\* The new text is what was kept and, behind it, what was received.
LEMMA NewTextIs ==
    ASSUME TypeOK, NEW s \in Socks, NEW n \in Nat \ {0}
    PROVE  /\ NewText(s, n) \in Seq(UnitsOf(s, read[s] + n))
           /\ Len(NewText(s, n)) = Len(Kept(s)) + (IF n > Longest THEN 0 ELSE n)
           /\ \A i \in 1..Len(Kept(s)) : NewText(s, n)[i] = Kept(s)[i]
           /\ n <= Longest =>
                \A i \in 1..n : NewText(s, n)[Len(Kept(s)) + i] = Unit(s, read[s] + i)
<1> DEFINE V == UnitsOf(s, read[s] + n)
           new == IF n > Longest THEN <<>> ELSE Units(s, read[s] + 1, read[s] + n)
<1>1. read[s] \in Nat /\ Longest \in Nat /\ read[s] + n \in Nat
  BY Types, SizeAssumption
<1>2. Kept(s) \in Seq(V) /\ Len(Kept(s)) \in Nat
  BY <1>1, Types, MoreUnits, LenProperties
<1>3. /\ new \in Seq(V) /\ Len(new) = IF n > Longest THEN 0 ELSE n
      /\ n <= Longest => \A i \in 1..n : new[i] = Unit(s, read[s] + i)
  <2>1. CASE n > Longest
    BY <1>1, <2>1, EmptySeq
  <2>2. CASE ~(n > Longest)
    <3>1. /\ read[s] + 1 \in Nat \ {0} /\ read[s] + 1 <= (read[s] + n) + 1
          /\ (read[s] + n) - (read[s] + 1) + 1 = n
          /\ \A i \in 1..n : (read[s] + 1) + i - 1 = read[s] + i
      BY <1>1
    <3>2. new = Units(s, read[s] + 1, read[s] + n)
      BY <2>2
    <3> HIDE DEF new
    <3> DEFINE a == read[s] + 1
               b == read[s] + n
    <3>3. a \in Nat \ {0} /\ b \in Nat /\ a <= b + 1 /\ b <= b /\ new = Units(s, a, b)
          /\ b - a + 1 = n /\ \A i \in 1..n : a + i - 1 = read[s] + i
      BY <1>1, <3>1, <3>2
    <3> HIDE DEF a
    <3>4. new \in Seq(V) /\ Len(new) = b - a + 1 /\ \A i \in 1..(b - a + 1) : new[i] = Unit(s, a + i - 1)
      <4> HIDE DEF b
      <4>1. /\ Units(s, a, b) \in Seq(UnitsOf(s, b)) /\ Len(Units(s, a, b)) = b - a + 1
            /\ \A i \in 1..(b - a + 1) : Units(s, a, b)[i] = Unit(s, a + i - 1)
        BY <3>3, UnitsAre
      <4> QED BY <3>3, <4>1 DEF b
    <3> QED BY <2>2, <3>3, <3>4
  <2> QED BY <2>1, <2>2
<1>4. NewText(s, n) = Kept(s) \o new
  BY DEF NewText
<1> HIDE DEF new, V
<1>5. /\ NewText(s, n) \in Seq(V) /\ Len(NewText(s, n)) = Len(Kept(s)) + Len(new)
      /\ \A i \in 1..(Len(Kept(s)) + Len(new)) :
            NewText(s, n)[i] = IF i <= Len(Kept(s)) THEN Kept(s)[i] ELSE new[i - Len(Kept(s))]
  BY <1>2, <1>3, <1>4, ConcatProperties
<1>6. Len(NewText(s, n)) = Len(Kept(s)) + (IF n > Longest THEN 0 ELSE n)
  BY <1>3, <1>5
<1>7. \A i \in 1..Len(Kept(s)) : NewText(s, n)[i] = Kept(s)[i]
  <2>1. Len(new) \in Nat
    BY <1>3, LenProperties
  <2>2. \A i \in 1..Len(Kept(s)) : i \in 1..(Len(Kept(s)) + Len(new)) /\ i <= Len(Kept(s))
    BY <1>2, <2>1
  <2> QED BY <1>5, <2>2
<1>8. ASSUME n <= Longest, NEW i \in 1..n
      PROVE  NewText(s, n)[Len(Kept(s)) + i] = Unit(s, read[s] + i)
  <2>1. /\ Len(new) = n /\ Len(Kept(s)) + i \in 1..(Len(Kept(s)) + Len(new))
        /\ ~(Len(Kept(s)) + i <= Len(Kept(s))) /\ (Len(Kept(s)) + i) - Len(Kept(s)) = i
    BY <1>1, <1>2, <1>3, <1>8
  <2> QED BY <1>3, <1>5, <1>8, <2>1
<1> QED BY <1>5, <1>6, <1>7, <1>8 DEF V

\* What a recv changes of its socket.
LEMMA RecvIs ==
    ASSUME TypeInv, NEW s \in Socks, NEW n \in 1..ReadSize, Recv(s, n)
    PROVE  /\ n \in Nat \ {0} /\ arr_msg = <<>> /\ read[s] + n <= Len(Stream[s])
           /\ read'[s] = read[s] + n /\ serving' = s /\ entry' = entry /\ handled' = handled
           /\ reads'[s] = reads[s] \cup {<<read[s] + 1, read[s] + n>>}
           /\ IF Has(NewText(s, n), LF)
              THEN arr_msg' = Commands(NewText(s, n)) /\ form'[s] = <<>> /\ buff'[s] = <<>>
              ELSE /\ arr_msg' = <<>>
                   /\ IF entry[s] = "none" THEN form'[s] = NewText(s, n) /\ buff'[s] = <<>>
                      ELSE form'[s] = <<>> /\ buff'[s] = NewText(s, n)
           /\ \A t \in Socks \ {s} : /\ read'[t] = read[t] /\ reads'[t] = reads[t]
                                     /\ form'[t] = form[t] /\ buff'[t] = buff[t]
<1>1. n \in Nat \ {0}
  BY SizeAssumption
<1>2. read[s] \in Nat /\ Len(Stream[s]) \in Nat
  BY Types DEF TypeInv
<1>3. IF entry[s] = "none" THEN buff[s] = <<>> ELSE form[s] = <<>>
  BY DEF TypeInv, TypeOK, KeptInv
<1>4. \A q : Keep(s, q) =>
        /\ IF entry[s] = "none" THEN form'[s] = q /\ buff'[s] = <<>>
           ELSE form'[s] = <<>> /\ buff'[s] = q
        /\ \A t \in Socks \ {s} : form'[t] = form[t] /\ buff'[t] = buff[t]
  BY <1>3 DEF Keep, TypeInv, Shapes
<1>5. IF Has(NewText(s, n), LF)
      THEN arr_msg' = Commands(NewText(s, n)) /\ Keep(s, <<>>)
      ELSE arr_msg' = <<>> /\ Keep(s, NewText(s, n))
  BY DEF Recv, Complete, NewText
<1>6. IF Has(NewText(s, n), LF)
      THEN arr_msg' = Commands(NewText(s, n)) /\ form'[s] = <<>> /\ buff'[s] = <<>>
      ELSE /\ arr_msg' = <<>>
           /\ IF entry[s] = "none" THEN form'[s] = NewText(s, n) /\ buff'[s] = <<>>
              ELSE form'[s] = <<>> /\ buff'[s] = NewText(s, n)
  BY <1>4, <1>5
<1>7. \A t \in Socks \ {s} : form'[t] = form[t] /\ buff'[t] = buff[t]
  BY <1>4, <1>5
<1>8. /\ arr_msg = <<>> /\ n <= Len(Stream[s]) - read[s] /\ serving' = s
      /\ entry' = entry /\ handled' = handled
      /\ read'[s] = read[s] + n /\ \A t \in Socks \ {s} : read'[t] = read[t]
      /\ reads'[s] = reads[s] \cup {<<read[s] + 1, read[s] + n>>}
      /\ \A t \in Socks \ {s} : reads'[t] = reads[t]
  BY DEF Recv, TypeInv, Shapes
<1> QED BY <1>1, <1>2, <1>6, <1>7, <1>8

\* What a command that is handled changes: it is one of its peer, of whom no text
\* is kept, so that none is lost when the buffer changes.
LEMMA HandleIs ==
    ASSUME TypeInv, Handle
    PROVE  /\ serving \in Socks /\ serving' = serving /\ read' = read /\ reads' = reads
           /\ arr_msg # <<>> /\ arr_msg' = Tail(arr_msg)
           /\ handled'[serving] = Append(handled[serving], Head(arr_msg))
           /\ form[serving] = <<>> /\ buff[serving] = <<>>
           /\ form'[serving] = <<>> /\ buff'[serving] = <<>>
           /\ entry'[serving] \in {"none", "half", "full"}
           /\ \A t \in Socks \ {serving} :
                /\ entry'[t] = entry[t] /\ handled'[t] = handled[t]
                /\ form'[t] = form[t] /\ buff'[t] = buff[t]
<1>1. serving \in Socks /\ entry[serving] \in {"none", "half", "full"}
  BY DEF TypeInv, TypeOK
<1>2. /\ serving' = serving /\ read' = read /\ reads' = reads
      /\ arr_msg # <<>> /\ arr_msg' = Tail(arr_msg)
      /\ handled'[serving] = Append(handled[serving], Head(arr_msg))
      /\ \A t \in Socks \ {serving} : handled'[t] = handled[t]
  BY <1>1 DEF Handle, TypeInv, Shapes
<1>3. form[serving] = <<>> /\ buff[serving] = <<>>
  BY <1>1, <1>2 DEF TypeInv, TypeOK, KeptInv, Kept
<1>4. /\ form'[serving] = <<>> /\ buff'[serving] = <<>>
      /\ entry'[serving] \in {"none", "half", "full"}
      /\ \A t \in Socks \ {serving} :
            entry'[t] = entry[t] /\ form'[t] = form[t] /\ buff'[t] = buff[t]
  <2>1. CASE UNCHANGED <<entry, form, buff>>
    BY <1>1, <1>3, <2>1
  <2>2. CASE /\ entry' = [entry EXCEPT ![serving] = "half"]
             /\ buff' = [buff EXCEPT ![serving] = <<>>] /\ UNCHANGED form
    BY <1>1, <1>3, <2>2 DEF TypeInv, Shapes
  <2>3. CASE /\ entry' = [entry EXCEPT ![serving] = "full"]
             /\ buff' = IF entry[serving] = "half" THEN buff ELSE [buff EXCEPT ![serving] = <<>>]
             /\ form' = [form EXCEPT ![serving] = <<>>]
    <3>1. buff'[serving] = <<>> /\ \A t \in Socks \ {serving} : buff'[t] = buff[t]
      BY <1>1, <1>3, <2>3 DEF TypeInv, Shapes
    <3> QED BY <1>1, <2>3, <3>1 DEF TypeInv, Shapes
  <2> QED BY <2>1, <2>2, <2>3 DEF Handle
<1> QED BY <1>1, <1>2, <1>3, <1>4

-----------------------------------------------------------------------------
(* Types. *)

LEMMA InitTypes == Init => TypeInv
<1> SUFFICES ASSUME Init PROVE TypeInv
  OBVIOUS
<1>1. Shapes
  BY DEF Init, Shapes
<1>2. ASSUME NEW s \in Socks
      PROVE  /\ read[s] = 0 /\ entry[s] = "none" /\ form[s] = <<>> /\ buff[s] = <<>>
             /\ handled[s] = <<>> /\ reads[s] = {}
  BY DEF Init
<1>3. serving \in Socks /\ arr_msg = <<>>
  BY DEF Init
<1>4. KeptInv
  BY <1>2, <1>3 DEF KeptInv, Has, Kept
<1>5. \A s \in Socks : Len(Stream[s]) \in Nat
  BY StreamAssumption
<1>6. \A s \in Socks : <<>> \in TextsOf(s) /\ <<>> \in Seq(TextsOf(s))
  BY DEF TextsOf
<1>7. ASSUME NEW s \in Socks
      PROVE  /\ read[s] \in 0..Len(Stream[s]) /\ entry[s] \in {"none", "half", "full"}
             /\ {form[s], buff[s]} \subseteq TextsOf(s) /\ handled[s] \in Seq(TextsOf(s))
             /\ entry[s] # "none" => form[s] = <<>>
             /\ reads[s] \subseteq (1..read[s]) \X (1..read[s])
  <2>1. 0 \in 0..Len(Stream[s])
    BY <1>5
  <2> QED BY <1>2, <1>6, <2>1
<1>8. arr_msg \in Seq(TextsOf(serving))
  BY <1>3, <1>6
<1>9. TypeOK
  BY <1>3, <1>7, <1>8 DEF TypeOK
<1> QED BY <1>1, <1>4, <1>9 DEF TypeInv

\* No action changes what the variables speak of.
LEMMA ShapesStep == ASSUME TypeInv, [Next]_vars PROVE Shapes'
<1>1. ASSUME NEW s \in Socks, NEW n \in 1..ReadSize, Recv(s, n) PROVE Shapes'
  BY <1>1 DEF Recv, Keep, TypeInv, Shapes
<1>2. ASSUME Handle PROVE Shapes'
  <2>1. DOMAIN buff' = Socks
    BY <1>2 DEF Handle, TypeInv, Shapes
  <2> QED BY <1>2, <2>1 DEF Handle, TypeInv, Shapes
<1>3. ASSUME UNCHANGED vars PROVE Shapes'
  BY <1>3 DEF vars, TypeInv, Shapes
<1> QED BY <1>1, <1>2, <1>3 DEF Next

LEMMA RecvTypes ==
    ASSUME TypeInv, NEW s \in Socks, NEW n \in 1..ReadSize, Recv(s, n) PROVE TypeOK' /\ KeptInv'
<1> DEFINE q == NewText(s, n)
           m == read[s] + n
<1>0. TypeOK
  BY DEF TypeInv
<1>1. /\ n \in Nat \ {0} /\ arr_msg = <<>> /\ m <= Len(Stream[s])
      /\ read'[s] = m /\ serving' = s /\ entry' = entry /\ handled' = handled
      /\ reads'[s] = reads[s] \cup {<<read[s] + 1, m>>}
      /\ IF Has(q, LF) THEN arr_msg' = Commands(q) /\ form'[s] = <<>> /\ buff'[s] = <<>>
         ELSE /\ arr_msg' = <<>>
              /\ IF entry[s] = "none" THEN form'[s] = q /\ buff'[s] = <<>>
                 ELSE form'[s] = <<>> /\ buff'[s] = q
      /\ \A t \in Socks \ {s} : /\ read'[t] = read[t] /\ reads'[t] = reads[t]
                                /\ form'[t] = form[t] /\ buff'[t] = buff[t]
  BY RecvIs
<1>2. q \in Seq(UnitsOf(s, m))
  BY <1>0, <1>1, NewTextIs
<1>3. read[s] \in Nat /\ m \in Nat /\ read[s] <= m /\ 1 <= read[s] + 1 /\ read[s] + 1 <= m
  BY <1>0, <1>1, Types
<1> HIDE DEF q, m
<1>4. Has(q, LF) => Commands(q) \in Seq(Seq(UnitsOf(s, m)))
  <2>1. q = <<>> => ~Has(q, LF)
    BY DEF Has
  <2> QED BY <1>2, <2>1, CommandsAre
<1>5. TextsOf(s)' = Seq(UnitsOf(s, m)) /\ \A t \in Socks \ {s} : TextsOf(t)' = TextsOf(t)
  BY <1>1 DEF TextsOf, UnitsOf
<1>6. <<>> \in Seq(UnitsOf(s, m)) /\ <<>> \in Seq(Seq(UnitsOf(s, m)))
  OBVIOUS
<1>7. ASSUME NEW t \in Socks
      PROVE  /\ read'[t] \in 0..Len(Stream[t]) /\ entry'[t] \in {"none", "half", "full"}
             /\ form'[t] \in TextsOf(t)' /\ buff'[t] \in TextsOf(t)'
             /\ entry'[t] # "none" => form'[t] = <<>>
             /\ entry'[t] = "none" => buff'[t] = <<>>
             /\ handled'[t] \in Seq(TextsOf(t)')
             /\ reads'[t] \subseteq (1..read'[t]) \X (1..read'[t])
             /\ ~Has(IF entry'[t] = "none" THEN form'[t] ELSE buff'[t], LF)
  <2>0. \A e : e = <<>> => ~Has(e, LF)
    BY DEF Has
  <2>1. CASE t # s
    BY <1>0, <1>1, <1>5, <2>1 DEF TypeOK, TypeInv, KeptInv, Kept
  <2>2. CASE t = s
    <3>1. read'[s] \in 0..Len(Stream[s]) /\ entry'[s] \in {"none", "half", "full"}
      <4>1. Len(Stream[s]) \in Nat
        BY <1>0, Types
      <4> QED BY <1>0, <1>1, <1>3, <4>1 DEF TypeOK
    <3>2. form'[s] \in TextsOf(s)' /\ buff'[s] \in TextsOf(s)'
      BY <1>1, <1>2, <1>5, <1>6
    <3>3. /\ entry'[s] # "none" => form'[s] = <<>>
          /\ entry'[s] = "none" => buff'[s] = <<>>
      BY <1>1
    <3>4. handled'[s] \in Seq(TextsOf(s)')
      <4>1. handled[s] \in Seq(Seq(UnitsOf(s, read[s])))
        BY <1>0, Types
      <4> QED BY <1>1, <1>3, <1>5, <4>1, MoreUnits
    <3>5. reads'[s] \subseteq (1..read'[s]) \X (1..read'[s])
      <4>1. reads[s] \subseteq (1..read[s]) \X (1..read[s])
        BY <1>0, Types
      <4>2. 1..read[s] \subseteq 1..m /\ read[s] + 1 \in 1..m /\ m \in 1..m
        BY <1>3
      <4> QED BY <1>1, <4>1, <4>2
    <3>6. ~Has(IF entry'[s] = "none" THEN form'[s] ELSE buff'[s], LF)
      BY <1>1, <2>0
    <3> QED BY <2>2, <3>1, <3>2, <3>3, <3>4, <3>5, <3>6
  <2> QED BY <2>1, <2>2
<1>8. arr_msg' \in Seq(TextsOf(s)')
  BY <1>1, <1>4, <1>5, <1>6
<1>9. TypeOK'
  BY <1>1, <1>7, <1>8 DEF TypeOK
<1>10. arr_msg' # <<>> => form'[s] = <<>> /\ buff'[s] = <<>>
  BY <1>1
<1>11. KeptInv'
  BY <1>1, <1>7, <1>10 DEF KeptInv, Kept
<1> QED BY <1>9, <1>11

LEMMA HandleTypes == ASSUME TypeInv, Handle PROVE TypeOK' /\ KeptInv'
<1> DEFINE s == serving
<1>0. TypeOK
  BY DEF TypeInv
<1>1. /\ s \in Socks /\ serving' = s /\ read' = read /\ reads' = reads
      /\ arr_msg # <<>> /\ arr_msg' = Tail(arr_msg)
      /\ handled'[s] = Append(handled[s], Head(arr_msg))
      /\ form[s] = <<>> /\ buff[s] = <<>> /\ form'[s] = <<>> /\ buff'[s] = <<>>
      /\ entry'[s] \in {"none", "half", "full"}
      /\ \A t \in Socks \ {s} : /\ entry'[t] = entry[t] /\ handled'[t] = handled[t]
                                /\ form'[t] = form[t] /\ buff'[t] = buff[t]
  BY HandleIs
<1> HIDE DEF s
<1>2. \A t : TextsOf(t)' = TextsOf(t)
  BY <1>1 DEF TextsOf
<1>3. arr_msg \in Seq(TextsOf(s)) /\ handled[s] \in Seq(TextsOf(s))
  BY <1>0, <1>1 DEF TypeOK, s
<1>4. Tail(arr_msg) \in Seq(TextsOf(s)) /\ Append(handled[s], Head(arr_msg)) \in Seq(TextsOf(s))
  BY <1>1, <1>3
<1>5. \A e : e = <<>> => ~Has(e, LF) /\ \A t : e \in TextsOf(t)
  BY DEF Has, TextsOf
<1>6. ASSUME NEW t \in Socks
      PROVE  /\ read'[t] \in 0..Len(Stream[t]) /\ entry'[t] \in {"none", "half", "full"}
             /\ form'[t] \in TextsOf(t) /\ buff'[t] \in TextsOf(t)
             /\ entry'[t] # "none" => form'[t] = <<>>
             /\ entry'[t] = "none" => buff'[t] = <<>>
             /\ handled'[t] \in Seq(TextsOf(t))
             /\ reads'[t] \subseteq (1..read'[t]) \X (1..read'[t])
             /\ ~Has(IF entry'[t] = "none" THEN form'[t] ELSE buff'[t], LF)
  <2>1. CASE t # s
    BY <1>0, <1>1, <2>1 DEF TypeOK, TypeInv, KeptInv, Kept
  <2>2. CASE t = s
    BY <1>0, <1>1, <1>4, <1>5, <2>2 DEF TypeOK
  <2> QED BY <2>1, <2>2
<1>7. TypeOK'
  BY <1>1, <1>2, <1>4, <1>6 DEF TypeOK
<1>8. KeptInv'
  BY <1>1, <1>6 DEF KeptInv, Kept
<1> QED BY <1>7, <1>8

LEMMA StutterTypes == ASSUME TypeInv, UNCHANGED vars PROVE TypeInv'
BY DEF vars, TypeInv, TypeOK, Shapes, KeptInv, Kept, TextsOf

\* The types and what is kept of lines are invariant.
LEMMA TypeInvariant == Spec => []TypeInv
<1>1. TypeInv /\ [Next]_vars => TypeInv'
  <2> SUFFICES ASSUME TypeInv, [Next]_vars PROVE TypeInv'
    OBVIOUS
  <2>1. ASSUME NEW s \in Socks, NEW n \in 1..ReadSize, Recv(s, n) PROVE TypeInv'
    BY <2>1, RecvTypes, ShapesStep DEF TypeInv
  <2>2. CASE Handle
    BY <2>2, HandleTypes, ShapesStep DEF TypeInv
  <2>3. CASE UNCHANGED vars
    BY <2>3, StutterTypes
  <2> QED BY <2>1, <2>2, <2>3 DEF Next
<1> QED BY <1>1, InitTypes, PTL DEF Spec

\* Every variable has the shape the code gives it, whatever is sent and however
\* it is cut; what waits is text of the peer that is served.
THEOREM TypeCorrect == Spec => []TypeOK
<1>1. TypeInv => TypeOK
  BY DEF TypeInv
<1> QED BY <1>1, TypeInvariant, PTL

-----------------------------------------------------------------------------
(* Lists of texts in order. *)

\* Every unit of A comes before every unit of B.
Precede(A, B) ==
    \A k \in DOMAIN A, l \in DOMAIN B : \A i \in DOMAIN A[k], j \in DOMAIN B[l] :
        Place(A[k][i]) < Place(B[l][j])

\* Every unit of A comes before every unit of the text q.
Before(A, q) == \A k \in DOMAIN A : \A i \in DOMAIN A[k], j \in DOMAIN q : Place(A[k][i]) < Place(q[j])

\* Two lists in order are in order when one precedes the other, and only then.
LEMMA InOrderJoin ==
    ASSUME NEW U, NEW A \in Seq(U), NEW B \in Seq(U)
    PROVE  /\ A \o B \in Seq(U)
           /\ InOrder(A \o B) <=> InOrder(A) /\ InOrder(B) /\ Precede(A, B)
           /\ TextIn(A \o B) = TextIn(A) \cup TextIn(B)
<1> DEFINE C == A \o B
           a == Len(A)
           b == Len(B)
<1>1. a \in Nat /\ b \in Nat /\ DOMAIN A = 1..a /\ DOMAIN B = 1..b
  BY LenProperties
<1>2. C \in Seq(U) /\ DOMAIN C = 1..(a + b)
      /\ \A k \in 1..(a + b) : C[k] = IF k <= a THEN A[k] ELSE B[k - a]
  BY ConcatProperties, LenProperties
<1> HIDE DEF C, a, b
<1>3. \A k \in 1..a : k \in 1..(a + b) /\ C[k] = A[k]
  BY <1>1, <1>2
<1>4. \A k \in 1..b : k + a \in 1..(a + b) /\ C[k + a] = B[k]
  <2> TAKE k \in 1..b
  <2>1. k + a \in 1..(a + b) /\ ~(k + a <= a) /\ (k + a) - a = k
    BY <1>1
  <2> QED BY <1>2, <2>1
<1>5. \A k \in 1..(a + b) : k \in 1..a \/ \E l \in 1..b : k = l + a
  <2> TAKE k \in 1..(a + b)
  <2>1. CASE k <= a
    BY <1>1, <2>1
  <2>2. CASE ~(k <= a)
    <3>1. k - a \in 1..b /\ k = (k - a) + a
      BY <1>1, <2>2
    <3> QED BY <3>1
  <2> QED BY <2>1, <2>2
<1>6. ASSUME InOrder(C) PROVE InOrder(A) /\ InOrder(B) /\ Precede(A, B)
  <2>1. InOrder(A)
    BY <1>1, <1>2, <1>3, <1>6 DEF InOrder
  <2>2. InOrder(B)
    <3> SUFFICES ASSUME NEW k \in 1..b, NEW l \in 1..b, NEW i \in DOMAIN B[k], NEW j \in DOMAIN B[l],
                        k < l \/ (k = l /\ i < j)
                 PROVE  Place(B[k][i]) < Place(B[l][j])
      BY <1>1 DEF InOrder
    <3>1. k + a < l + a \/ (k + a = l + a /\ i < j)
      BY <1>1
    <3> QED BY <1>2, <1>4, <1>6, <3>1 DEF InOrder
  <2>3. Precede(A, B)
    <3> SUFFICES ASSUME NEW k \in 1..a, NEW l \in 1..b, NEW i \in DOMAIN A[k], NEW j \in DOMAIN B[l]
                 PROVE  Place(A[k][i]) < Place(B[l][j])
      BY <1>1 DEF Precede
    <3>1. k < l + a
      BY <1>1
    <3> QED BY <1>2, <1>3, <1>4, <1>6, <3>1 DEF InOrder
  <2> QED BY <2>1, <2>2, <2>3
<1>7. ASSUME InOrder(A), InOrder(B), Precede(A, B) PROVE InOrder(C)
  <2> SUFFICES ASSUME NEW k \in 1..(a + b), NEW l \in 1..(a + b),
                      NEW i \in DOMAIN C[k], NEW j \in DOMAIN C[l], k < l \/ (k = l /\ i < j)
               PROVE  Place(C[k][i]) < Place(C[l][j])
    BY <1>2 DEF InOrder
  <2>1. CASE l \in 1..a
    <3>1. k \in 1..a
      BY <1>1, <2>1
    <3> QED BY <1>1, <1>3, <1>7, <2>1, <3>1 DEF InOrder
  <2>2. CASE l \notin 1..a
    <3>1. PICK m \in 1..b : l = m + a
      BY <1>5, <2>2
    <3>2. CASE k \in 1..a
      BY <1>1, <1>3, <1>4, <1>7, <3>1, <3>2 DEF Precede
    <3>3. CASE k \notin 1..a
      <4>1. PICK n \in 1..b : k = n + a
        BY <1>5, <3>3
      <4>2. n < m \/ (n = m /\ i < j)
        BY <1>1, <3>1, <4>1
      <4> QED BY <1>1, <1>4, <1>7, <3>1, <4>1, <4>2 DEF InOrder
    <3> QED BY <3>2, <3>3
  <2> QED BY <2>1, <2>2
<1>8. TextIn(C) = TextIn(A) \cup TextIn(B)
  <2>1. UNION {TextOf(C[k]) : k \in DOMAIN C}
          = (UNION {TextOf(A[k]) : k \in DOMAIN A}) \cup (UNION {TextOf(B[k]) : k \in DOMAIN B})
    <3>1. ASSUME NEW k \in 1..(a + b)
          PROVE  (\E l \in 1..a : C[k] = A[l]) \/ (\E l \in 1..b : C[k] = B[l])
      BY <1>3, <1>4, <1>5
    <3>2. \A k \in 1..a : \E l \in 1..(a + b) : C[l] = A[k]
      BY <1>3
    <3>3. \A k \in 1..b : \E l \in 1..(a + b) : C[l] = B[k]
      BY <1>4
    <3> QED BY <1>1, <1>2, <3>1, <3>2, <3>3
  <2> QED BY <2>1 DEF TextIn
<1>9. A \o B = C
  BY DEF C
<1> QED BY <1>2, <1>6, <1>7, <1>8, <1>9

\* A list whose texts are empty but for one, which is q.
AsOne(f, g, q) ==
    /\ InOrder(<<f, g>>) <=> Rising(q)
    /\ TextIn(<<f, g>>) = TextOf(q)
    /\ \A A : Precede(A, <<f, g>>) <=> Before(A, q)

LEMMA InOrderPair ==
    ASSUME NEW f, NEW g, f = <<>> \/ g = <<>>, NEW q, q = IF f = <<>> THEN g ELSE f
    PROVE  AsOne(f, g, q)
<1> DEFINE P == <<f, g>>
<1>1. DOMAIN P = {1, 2} /\ P[1] = f /\ P[2] = g
  OBVIOUS
<1>2. \A e : e = <<>> => DOMAIN e = {} /\ TextOf(e) = {}
  BY DEF TextOf, ToSet
<1> HIDE DEF P
<1>3. PICK x \in {1, 2} : P[x] = q /\ \A y \in {1, 2} : y # x => P[y] = <<>>
  <2>1. CASE f = <<>>
    BY <1>1, <2>1
  <2>2. CASE f # <<>>
    BY <1>1, <2>2
  <2> QED BY <2>1, <2>2
<1>4. ASSUME InOrder(P) PROVE Rising(q)
  BY <1>1, <1>3, <1>4 DEF InOrder, Rising
<1>5. ASSUME Rising(q) PROVE InOrder(P)
  <2> SUFFICES ASSUME NEW k \in {1, 2}, NEW l \in {1, 2}, NEW i \in DOMAIN P[k], NEW j \in DOMAIN P[l],
                      k < l \/ (k = l /\ i < j)
               PROVE  Place(P[k][i]) < Place(P[l][j])
    BY <1>1 DEF InOrder
  <2>1. k = x /\ l = x
    BY <1>2, <1>3
  <2>2. i < j
    BY <2>1
  <2> QED BY <1>3, <1>5, <2>1, <2>2 DEF Rising
<1>6. TextIn(P) = TextOf(q)
  <2>1. \A k \in DOMAIN P : TextOf(P[k]) = TextOf(q) \/ TextOf(P[k]) = {}
    BY <1>1, <1>2, <1>3
  <2>2. x \in DOMAIN P /\ TextOf(P[x]) = TextOf(q)
    BY <1>1, <1>3
  <2> QED BY <2>1, <2>2 DEF TextIn
<1>7. ASSUME NEW A
      PROVE  Precede(A, P) <=> Before(A, q)
  BY <1>1, <1>2, <1>3 DEF Precede, Before
<1> QED BY <1>4, <1>5, <1>6, <1>7 DEF P, AsOne

\* Nothing is in the empty list.
LEMMA InOrderEmpty ==
    /\ InOrder(<<>>) /\ TextIn(<<>>) = {} /\ \A A : Precede(A, <<>>) /\ Precede(<<>>, A)
<1>1. \A e : e = <<>> => DOMAIN e = {}
  OBVIOUS
<1> QED BY <1>1 DEF InOrder, TextIn, Precede

\* Three lists.
LEMMA InOrderThree ==
    ASSUME NEW U, NEW H \in Seq(U), NEW X \in Seq(U), NEW P \in Seq(U)
    PROVE  /\ InOrder(H \o X \o P) <=> /\ InOrder(H) /\ InOrder(X) /\ InOrder(P)
                                       /\ Precede(H, X) /\ Precede(H, P) /\ Precede(X, P)
           /\ TextIn(H \o X \o P) = TextIn(H) \cup TextIn(X) \cup TextIn(P)
<1>1. /\ H \o X \in Seq(U)
      /\ InOrder(H \o X) <=> InOrder(H) /\ InOrder(X) /\ Precede(H, X)
      /\ TextIn(H \o X) = TextIn(H) \cup TextIn(X)
  BY InOrderJoin
<1>2. /\ InOrder((H \o X) \o P) <=> InOrder(H \o X) /\ InOrder(P) /\ Precede(H \o X, P)
      /\ TextIn((H \o X) \o P) = TextIn(H \o X) \cup TextIn(P)
  <2> DEFINE C == H \o X
  <2>1. C \in Seq(U)
    BY <1>1
  <2> HIDE DEF C
  <2>2. /\ InOrder(C \o P) <=> InOrder(C) /\ InOrder(P) /\ Precede(C, P)
        /\ TextIn(C \o P) = TextIn(C) \cup TextIn(P)
    BY <2>1, InOrderJoin
  <2> QED BY <2>2 DEF C
<1>3. Precede(H \o X, P) <=> Precede(H, P) /\ Precede(X, P)
  <2> DEFINE C == H \o X
  <2>1. /\ Len(H) \in Nat /\ Len(X) \in Nat /\ DOMAIN H = 1..Len(H) /\ DOMAIN X = 1..Len(X)
        /\ DOMAIN C = 1..(Len(H) + Len(X))
        /\ \A k \in 1..(Len(H) + Len(X)) : C[k] = IF k <= Len(H) THEN H[k] ELSE X[k - Len(H)]
    BY <1>1, ConcatProperties, LenProperties
  <2> HIDE DEF C
  <2>2. \A k \in DOMAIN H : k \in DOMAIN C /\ C[k] = H[k]
    BY <2>1
  <2>3. \A k \in DOMAIN X : \E l \in DOMAIN C : C[l] = X[k]
    <3> TAKE k \in DOMAIN X
    <3>1. k + Len(H) \in DOMAIN C /\ ~(k + Len(H) <= Len(H)) /\ (k + Len(H)) - Len(H) = k
      BY <2>1
    <3> QED BY <2>1, <3>1
  <2>4. \A k \in DOMAIN C : (\E l \in DOMAIN H : C[k] = H[l]) \/ \E l \in DOMAIN X : C[k] = X[l]
    <3> TAKE k \in DOMAIN C
    <3>1. CASE k <= Len(H)
      BY <2>1, <3>1
    <3>2. CASE ~(k <= Len(H))
      <4>1. k - Len(H) \in DOMAIN X
        BY <2>1, <3>2
      <4> QED BY <2>1, <3>2, <4>1
    <3> QED BY <3>1, <3>2
  <2>5. Precede(C, P) => Precede(H, P) /\ Precede(X, P)
    <3>1. Precede(C, P) => Precede(H, P)
      BY <2>2 DEF Precede
    <3>2. ASSUME Precede(C, P), NEW k \in DOMAIN X, NEW l \in DOMAIN P,
                 NEW i \in DOMAIN X[k], NEW j \in DOMAIN P[l]
          PROVE  Place(X[k][i]) < Place(P[l][j])
      <4>1. PICK d \in DOMAIN C : C[d] = X[k]
        BY <2>3
      <4>2. i \in DOMAIN C[d]
        BY <4>1
      <4> QED BY <3>2, <4>1, <4>2 DEF Precede
    <3> QED BY <3>1, <3>2 DEF Precede
  <2>6. ASSUME Precede(H, P), Precede(X, P), NEW k \in DOMAIN C, NEW l \in DOMAIN P,
               NEW i \in DOMAIN C[k], NEW j \in DOMAIN P[l]
        PROVE  Place(C[k][i]) < Place(P[l][j])
    <3>1. CASE \E d \in DOMAIN H : C[k] = H[d]
      BY <2>6, <3>1 DEF Precede
    <3>2. CASE \E d \in DOMAIN X : C[k] = X[d]
      BY <2>6, <3>2 DEF Precede
    <3> QED BY <2>4, <3>1, <3>2
  <2>7. Precede(H, P) /\ Precede(X, P) => Precede(C, P)
    BY <2>6 DEF Precede
  <2> QED BY <2>5, <2>7 DEF C
<1> QED BY <1>1, <1>2, <1>3

\* A text that is cut has no unit of another.
LEMMA CommandsAreOfText ==
    ASSUME NEW U, NEW q \in Seq(U), q # <<>>, NEW k \in DOMAIN Commands(q),
           NEW i \in DOMAIN Commands(q)[k]
    PROVE  \E x \in DOMAIN q : Commands(q)[k][i] = q[x]
<1>1. k \in 1..Many(q) /\ Commands(q)[k] = Cut(q, k)
  BY CommandsAre
<1>2. PICK m \in From(q, k)..(To(q, k) + 1) : CutAt(q, k, m)
  BY <1>1, CutIs
<1>3. Spot(q, k, m, i) \in 1..Len(q) /\ Cut(q, k)[i] = q[Spot(q, k, m, i)]
  BY <1>1, <1>2, SpotsOfCut
<1> QED BY <1>1, <1>3, LenProperties

-----------------------------------------------------------------------------
(* Nothing is lost, doubled or out of order. *)

\* The new text is in order and behind all that was handled when the trail is.
LEMMA NewTextRises ==
    ASSUME TypeOK, NEW s \in Socks, NEW n \in Nat \ {0}, Rising(Kept(s))
    PROVE  /\ Rising(NewText(s, n))
           /\ \A i \in DOMAIN NewText(s, n) :
                 \/ i \in DOMAIN Kept(s) /\ NewText(s, n)[i] = Kept(s)[i]
                 \/ Place(NewText(s, n)[i]) > read[s]
           /\ TextOf(NewText(s, n)) =
                 TextOf(Kept(s)) \cup
                 {u \in {Unit(s, read[s] + i) : i \in 1..n} : n <= Longest /\ Sign(u) = TEXT}
<1> DEFINE q == NewText(s, n)
           d == Len(Kept(s))
           m == read[s]
<1>1. Kept(s) \in Seq(UnitsOf(s, m)) /\ d \in Nat /\ m \in Nat /\ DOMAIN Kept(s) = 1..d
  BY Types, LenProperties
<1>2. \A i \in 1..d : Place(Kept(s)[i]) \in 1..m
  <2> TAKE i \in 1..d
  <2>1. Kept(s)[i] \in UnitsOf(s, m)
    BY <1>1, ElementOfSeq
  <2> QED BY <2>1 DEF UnitsOf, Place
<1>3. /\ q \in Seq(UnitsOf(s, m + n)) /\ Len(q) = d + (IF n > Longest THEN 0 ELSE n)
      /\ \A i \in 1..d : q[i] = Kept(s)[i]
      /\ n <= Longest => \A i \in 1..n : q[d + i] = Unit(s, m + i)
  BY NewTextIs
<1>4. DOMAIN q = 1..Len(q) /\ Longest \in Nat
  BY <1>3, LenProperties, SizeAssumption
<1>5. \A i \in Nat : Place(Unit(s, i)) = i
  BY DEF Place, Unit
<1> HIDE DEF q, d, m
<1>6. ASSUME NEW i \in DOMAIN q
      PROVE  \/ i \in 1..d
             \/ n <= Longest /\ i - d \in 1..n /\ i = d + (i - d)
  BY <1>1, <1>3, <1>4
<1>7. ASSUME NEW i \in DOMAIN q, i \notin 1..d
      PROVE  /\ i - d \in 1..n /\ n <= Longest /\ q[i] = Unit(s, m + (i - d))
             /\ Place(q[i]) = m + (i - d)
  <2>1. n <= Longest /\ i - d \in 1..n /\ i = d + (i - d)
    BY <1>6, <1>7
  <2>2. q[i] = Unit(s, m + (i - d))
    BY <1>3, <2>1
  <2>3. m + (i - d) \in Nat
    BY <1>1, <2>1
  <2> QED BY <1>5, <2>1, <2>2, <2>3
<1>8. Rising(q)
  <2> SUFFICES ASSUME NEW i \in DOMAIN q, NEW j \in DOMAIN q, i < j
               PROVE  Place(q[i]) < Place(q[j])
    BY DEF Rising
  <2>0. i \in Nat /\ j \in Nat
    BY <1>4
  <2>1. CASE j \in 1..d
    <3>1. i \in 1..d
      BY <1>1, <1>4, <2>1
    <3> QED BY <1>1, <1>3, <2>1, <3>1 DEF Rising
  <2>2. CASE j \notin 1..d /\ i \in 1..d
    <3>1. Place(q[i]) \in 1..m
      BY <1>2, <1>3, <2>2
    <3> QED BY <1>1, <1>7, <2>2, <3>1
  <2>3. CASE j \notin 1..d /\ i \notin 1..d
    <3>1. Place(q[i]) = m + (i - d) /\ Place(q[j]) = m + (j - d)
      BY <1>7, <2>3
    <3> QED BY <1>1, <2>0, <3>1
  <2> QED BY <2>1, <2>2, <2>3
<1>9. ASSUME NEW i \in DOMAIN q
      PROVE  (i \in DOMAIN Kept(s) /\ q[i] = Kept(s)[i]) \/ Place(q[i]) > m
  <2>1. CASE i \in 1..d
    BY <1>1, <1>3, <2>1
  <2>2. CASE i \notin 1..d
    BY <1>1, <1>7, <2>2
  <2> QED BY <2>1, <2>2
<1>10. ASSUME NEW u
       PROVE  u \in ToSet(q) <=> u \in ToSet(Kept(s)) \/ (n <= Longest /\ \E i \in 1..n : u = Unit(s, m + i))
  <2>1. ASSUME u \in ToSet(q)
        PROVE  u \in ToSet(Kept(s)) \/ (n <= Longest /\ \E i \in 1..n : u = Unit(s, m + i))
    <3>1. PICK i \in DOMAIN q : u = q[i]
      BY <2>1 DEF ToSet
    <3>2. CASE i \in 1..d
      BY <1>1, <1>3, <3>1, <3>2 DEF ToSet
    <3>3. CASE i \notin 1..d
      BY <1>7, <3>1, <3>3
    <3> QED BY <3>2, <3>3
  <2>2. ASSUME u \in ToSet(Kept(s)) PROVE u \in ToSet(q)
    <3>1. PICK i \in 1..d : u = Kept(s)[i]
      BY <1>1, <2>2 DEF ToSet
    <3>2. i \in DOMAIN q
      BY <1>1, <1>3, <1>4
    <3> QED BY <1>3, <3>1, <3>2 DEF ToSet
  <2>3. ASSUME n <= Longest, NEW i \in 1..n, u = Unit(s, m + i) PROVE u \in ToSet(q)
    <3>1. d + i \in DOMAIN q
      BY <1>1, <1>3, <1>4, <2>3
    <3> QED BY <1>3, <2>3, <3>1 DEF ToSet
  <2> QED BY <2>1, <2>2, <2>3
<1> QED BY <1>8, <1>9, <1>10 DEF q, m, TextOf

\* What Trail says, part by part: q is what is kept.
InParts(H, X, f, g, q) ==
    /\ InOrder(H \o X \o <<f, g>>) <=>
          /\ InOrder(H) /\ InOrder(X) /\ Precede(H, X) /\ Rising(q)
          /\ Before(H, q) /\ Before(X, q)
    /\ TextIn(H \o X \o <<f, g>>) = TextIn(H) \cup TextIn(X) \cup TextOf(q)

LEMMA TrailIs ==
    ASSUME NEW U, NEW H \in Seq(Seq(U)), NEW X \in Seq(Seq(U)), NEW f \in Seq(U), NEW g \in Seq(U),
           f = <<>> \/ g = <<>>, NEW q, q = IF f = <<>> THEN g ELSE f
    PROVE  InParts(H, X, f, g, q)
<1> DEFINE P == <<f, g>>
<1>1. P \in Seq(Seq(U))
  OBVIOUS
<1>2. AsOne(f, g, q)
  BY InOrderPair
<1>3. /\ InOrder(P) <=> Rising(q)
      /\ TextIn(P) = TextOf(q)
      /\ \A A : Precede(A, P) <=> Before(A, q)
  BY <1>2 DEF AsOne
<1> HIDE DEF P
<1>4. /\ InOrder(H \o X \o P) <=> /\ InOrder(H) /\ InOrder(X) /\ InOrder(P)
                                  /\ Precede(H, X) /\ Precede(H, P) /\ Precede(X, P)
      /\ TextIn(H \o X \o P) = TextIn(H) \cup TextIn(X) \cup TextIn(P)
  BY <1>1, InOrderThree
<1> QED BY <1>3, <1>4 DEF P, InParts

\* What is accepted by a recv.
LEMMA AcceptedIs ==
    ASSUME TypeInv, NEW s \in Socks, NEW n \in 1..ReadSize, Recv(s, n)
    PROVE  /\ Accepted(s)' = Accepted(s) \cup
                 {u \in {Unit(s, read[s] + i) : i \in 1..n} : n <= Longest /\ Sign(u) = TEXT}
           /\ \A t \in Socks \ {s} : Accepted(t)' = Accepted(t)
<1> DEFINE m == read[s]
           N == <<m + 1, m + n>>
<1>0. m \in Nat /\ reads[s] \subseteq (1..m) \X (1..m) /\ Longest \in Nat
  BY Types, SizeAssumption DEF TypeInv
<1>1. /\ n \in Nat \ {0} /\ read'[s] = m + n /\ reads'[s] = reads[s] \cup {N}
      /\ \A t \in Socks \ {s} : read'[t] = read[t] /\ reads'[t] = reads[t]
  BY RecvIs
<1>2. \A t \in Socks \ {s} : Accepted(t)' = Accepted(t)
  BY <1>1 DEF Accepted
<1> DEFINE Taken(p, R) == \E r \in R : p \in r[1]..r[2] /\ ~TooLong(r)
<1>3. N[1] = m + 1 /\ N[2] = m + n
  OBVIOUS
<1> HIDE DEF m, N
<1>4. TooLong(N) <=> n > Longest
  BY <1>0, <1>1, <1>3 DEF TooLong
<1>5. \A p \in 1..m : Taken(p, reads[s] \cup {N}) <=> Taken(p, reads[s])
  <2> TAKE p \in 1..m
  <2>1. p \notin N[1]..N[2]
    BY <1>0, <1>1, <1>3
  <2> QED BY <2>1
<1>6. \A p \in (m + 1)..(m + n) : Taken(p, reads[s] \cup {N}) <=> n <= Longest
  <2> TAKE p \in (m + 1)..(m + n)
  <2>1. p \in N[1]..N[2]
    BY <1>3
  <2>2. \A r \in reads[s] : p \notin r[1]..r[2]
    <3> TAKE r \in reads[s]
    <3>1. r[1] \in 1..m /\ r[2] \in 1..m
      BY <1>0
    <3> QED BY <1>0, <3>1
  <2> QED BY <1>0, <1>1, <1>4, <2>1, <2>2
<1> HIDE DEF Taken
<1>7. Accepted(s) = {u \in UnitsOf(s, m) : Sign(u) = TEXT /\ Taken(Place(u), reads[s])}
  BY DEF Accepted, UnitsOf, Taken, m
<1>8. Accepted(s)' = {u \in UnitsOf(s, m + n) : Sign(u) = TEXT /\ Taken(Place(u), reads[s] \cup {N})}
  BY <1>1 DEF Accepted, UnitsOf, Taken, Sign, Place, TooLong
<1>9. ASSUME NEW u
      PROVE  u \in Accepted(s)' <=>
                \/ u \in Accepted(s)
                \/ u \in {Unit(s, m + i) : i \in 1..n} /\ n <= Longest /\ Sign(u) = TEXT
  <2>1. CASE u \notin UnitsOf(s, m + n)
    <3>1. u \notin UnitsOf(s, m)
      BY <1>0, <1>1, <2>1, MoreUnits
    <3>2. u \notin {Unit(s, m + i) : i \in 1..n}
      BY <1>0, <1>1, <2>1 DEF UnitsOf, Unit
    <3> QED BY <1>7, <1>8, <2>1, <3>1, <3>2
  <2>2. CASE u \in UnitsOf(s, m)
    <3>1. Place(u) \in 1..m /\ u = Unit(s, Place(u)) /\ u \in UnitsOf(s, m + n)
      BY <1>0, <1>1, <2>2 DEF UnitsOf, Unit, Place
    <3>2. u \notin {Unit(s, m + i) : i \in 1..n}
      BY <1>0, <1>1, <3>1 DEF Unit, Place
    <3> QED BY <1>5, <1>7, <1>8, <2>2, <3>1, <3>2
  <2>3. CASE u \in UnitsOf(s, m + n) /\ u \notin UnitsOf(s, m)
    <3>1. Place(u) \in (m + 1)..(m + n) /\ u = Unit(s, Place(u))
      BY <1>0, <1>1, <2>3 DEF UnitsOf, Unit, Place
    <3>2. u \in {Unit(s, m + i) : i \in 1..n}
      <4>1. Place(u) - m \in 1..n /\ m + (Place(u) - m) = Place(u)
        BY <1>0, <1>1, <3>1
      <4> QED BY <3>1, <4>1
    <3> QED BY <1>6, <1>7, <1>8, <2>3, <3>1, <3>2
  <2> QED BY <2>1, <2>2, <2>3
<1> QED BY <1>2, <1>9 DEF m

\* What is kept is the one of the two buffers that is not empty.
LEMMA KeptIs ==
    ASSUME TypeInv, NEW s \in Socks
    PROVE  /\ form[s] = <<>> \/ buff[s] = <<>>
           /\ Kept(s) = IF form[s] = <<>> THEN buff[s] ELSE form[s]
BY DEF TypeInv, TypeOK, KeptInv, Kept

\* TextInOrder for one socket, part by part.
LEMMA OrderIs ==
    ASSUME TypeInv, NEW s \in Socks,
           NEW X, X = IF serving = s THEN arr_msg ELSE <<>>
    PROVE  /\ InOrder(Trail(s)) <=>
                 /\ InOrder(handled[s]) /\ InOrder(X) /\ Precede(handled[s], X) /\ Rising(Kept(s))
                 /\ Before(handled[s], Kept(s)) /\ Before(X, Kept(s))
           /\ TextIn(Trail(s)) = TextIn(handled[s]) \cup TextIn(X) \cup TextOf(Kept(s))
<1> DEFINE U == UnitsOf(s, read[s])
           H == handled[s]
           f == form[s]
           g == buff[s]
           q == Kept(s)
<1>1. H \in Seq(Seq(U)) /\ f \in Seq(U) /\ g \in Seq(U) /\ X \in Seq(Seq(U))
  <2>1. H \in Seq(Seq(U)) /\ f \in Seq(U) /\ g \in Seq(U)
    BY Types DEF TypeInv
  <2>2. serving = s => arr_msg \in Seq(Seq(U))
    BY Types DEF TypeInv
  <2>3. <<>> \in Seq(Seq(U))
    OBVIOUS
  <2> QED BY <2>1, <2>2, <2>3
<1>2. (f = <<>> \/ g = <<>>) /\ q = IF f = <<>> THEN g ELSE f
  BY KeptIs
<1>3. Trail(s) = H \o X \o <<f, g>>
  BY DEF Trail
<1> HIDE DEF U, H, f, g, q
<1>4. InParts(H, X, f, g, q)
  BY <1>1, <1>2, TrailIs
<1> QED BY <1>3, <1>4 DEF H, q, InParts

\* All that was handled was received.
LEMMA HandledWasRead ==
    ASSUME TypeInv, NEW s \in Socks, NEW k \in DOMAIN handled[s], NEW i \in DOMAIN handled[s][k]
    PROVE  Place(handled[s][k][i]) \in Nat /\ Place(handled[s][k][i]) <= read[s]
<1>1. handled[s] \in Seq(Seq(UnitsOf(s, read[s]))) /\ read[s] \in Nat
  BY Types DEF TypeInv
<1>2. handled[s][k] \in Seq(UnitsOf(s, read[s]))
  BY <1>1, ElementOfSeq, LenProperties
<1>3. handled[s][k][i] \in UnitsOf(s, read[s])
  BY <1>2, ElementOfSeq, LenProperties
<1>4. handled[s][k][i][2] \in 1..read[s]
  BY <1>3 DEF UnitsOf
<1> QED BY <1>1, <1>4 DEF Place

LEMMA RecvOrder ==
    ASSUME TypeInv, TextInOrder, NEW s \in Socks, NEW n \in 1..ReadSize, Recv(s, n), TypeInv'
    PROVE  TextInOrder'
<1> DEFINE q == NewText(s, n)
           H == handled[s]
           K == Kept(s)
           X == arr_msg'
           N == {u \in {Unit(s, read[s] + i) : i \in 1..n} : n <= Longest /\ Sign(u) = TEXT}
<1>0. TypeOK /\ TypeInv
  BY DEF TypeInv
<1>1. /\ n \in Nat \ {0} /\ arr_msg = <<>> /\ serving' = s /\ entry' = entry /\ handled' = handled
      /\ IF Has(q, LF) THEN X = Commands(q) /\ form'[s] = <<>> /\ buff'[s] = <<>>
         ELSE /\ X = <<>>
              /\ IF entry[s] = "none" THEN form'[s] = q /\ buff'[s] = <<>>
                 ELSE form'[s] = <<>> /\ buff'[s] = q
      /\ \A t \in Socks \ {s} : form'[t] = form[t] /\ buff'[t] = buff[t]
  BY RecvIs
<1>2. ASSUME NEW t \in Socks, t # s PROVE (InOrder(Trail(t)) /\ TextIn(Trail(t)) = Accepted(t))'
  <2>1. Trail(t)' = Trail(t)
    BY <1>1, <1>2 DEF Trail
  <2>2. Accepted(t)' = Accepted(t)
    BY <1>2, AcceptedIs
  <2>3. InOrder(Trail(t)) /\ TextIn(Trail(t)) = Accepted(t)
    BY DEF TextInOrder
  <2>4. \A T : InOrder(T)' = InOrder(T) /\ TextIn(T)' = TextIn(T)
    BY DEF InOrder, TextIn, TextOf, Sign
  <2> QED BY <2>1, <2>2, <2>3, <2>4
<1>3. /\ InOrder(H) /\ Rising(K) /\ Before(H, K)
      /\ TextIn(H) \cup TextOf(K) = Accepted(s)
  <2> DEFINE Y == IF serving = s THEN arr_msg ELSE <<>>
  <2>1. Y = <<>>
    BY <1>1
  <2> HIDE DEF Y
  <2>2. /\ InOrder(Trail(s)) <=> /\ InOrder(H) /\ InOrder(Y) /\ Precede(H, Y) /\ Rising(K)
                                 /\ Before(H, K) /\ Before(Y, K)
        /\ TextIn(Trail(s)) = TextIn(H) \cup TextIn(Y) \cup TextOf(K)
    BY <1>0, OrderIs DEF Y
  <2>3. TextIn(Y) = {}
    BY <2>1, InOrderEmpty
  <2> QED BY <2>2, <2>3 DEF TextInOrder
<1>4. /\ Rising(q)
      /\ \A i \in DOMAIN q : (i \in DOMAIN K /\ q[i] = K[i]) \/ Place(q[i]) > read[s]
      /\ TextOf(q) = TextOf(K) \cup N
  BY <1>0, <1>1, <1>3, NewTextRises
<1>5. Before(H, q)
  <2> SUFFICES ASSUME NEW k \in DOMAIN H, NEW i \in DOMAIN H[k], NEW j \in DOMAIN q
               PROVE  Place(H[k][i]) < Place(q[j])
    BY DEF Before
  <2>1. CASE j \in DOMAIN K /\ q[j] = K[j]
    <3> HIDE DEF H, K, q
    <3> QED BY <1>3, <2>1 DEF Before
  <2>2. CASE Place(q[j]) > read[s] /\ ~(j \in DOMAIN K /\ q[j] = K[j])
    <3>1. Place(H[k][i]) \in Nat /\ Place(H[k][i]) <= read[s]
      BY <1>0, HandledWasRead
    <3>2. Place(q[j]) \in Nat /\ read[s] \in Nat
      <4>1. q \in Seq(UnitsOf(s, read[s] + n)) /\ read[s] \in Nat
        BY <1>0, <1>1, NewTextIs, Types
      <4>2. q[j] \in UnitsOf(s, read[s] + n)
        BY <4>1, ElementOfSeq, LenProperties
      <4> QED BY <1>1, <4>1, <4>2 DEF UnitsOf, Place
    <3> HIDE DEF H, q
    <3> QED BY <2>2, <3>1, <3>2
  <2> QED BY <1>4, <2>1, <2>2
<1>6. q \in Seq(UnitsOf(s, read[s] + n))
  BY <1>0, <1>1, NewTextIs
<1>7. Accepted(s)' = Accepted(s) \cup N
  BY AcceptedIs
<1>8. s \in Socks /\ (InOrder(Trail(s)) /\ TextIn(Trail(s)) = Accepted(s))'
  <2> DEFINE K2 == IF Has(q, LF) THEN <<>> ELSE q
             F == form'[s]
             G == buff'[s]
             U == UnitsOf(s, read[s] + n)
  <2>1. (F = <<>> \/ G = <<>>) /\ K2 = IF F = <<>> THEN G ELSE F
    BY <1>1
  <2>2. H \in Seq(Seq(U)) /\ F \in Seq(U) /\ G \in Seq(U) /\ X \in Seq(Seq(U))
    <3>1. TextsOf(s)' = Seq(U)
      BY RecvIs DEF TextsOf, UnitsOf
    <3> QED BY <1>1, <3>1 DEF TypeInv, TypeOK
  <2>3. Trail(s)' = H \o X \o <<F, G>>
    BY <1>1 DEF Trail
  <2>4. (q = <<>> => ~Has(q, LF)) /\ DOMAIN <<>> = {}
    BY DEF Has
  <2> HIDE DEF U, H, X, F, G, K, N, q
  <2>5. /\ InOrder(H) /\ InOrder(X) /\ Precede(H, X) /\ Rising(K2)
        /\ Before(H, K2) /\ Before(X, K2)
        /\ TextIn(X) \cup TextOf(K2) = TextOf(K) \cup N
    <3>1. CASE Has(q, LF)
      <4>1. X = Commands(q) /\ q # <<>>
        BY <1>1, <2>4, <3>1 DEF X
      <4>2. InOrder(X) /\ TextIn(X) = TextOf(q)
        BY <1>4, <1>6, <4>1, CommandsInOrder, CommandsHoldText
      <4>3. Precede(H, X)
        <5> SUFFICES ASSUME NEW k \in DOMAIN H, NEW l \in DOMAIN X, NEW i \in DOMAIN H[k], NEW j \in DOMAIN X[l]
                     PROVE  Place(H[k][i]) < Place(X[l][j])
          BY DEF Precede
        <5>1. PICK x \in DOMAIN q : X[l][j] = q[x]
          BY <1>6, <4>1, CommandsAreOfText
        <5> QED BY <1>5, <5>1 DEF Before
      <4>4. K2 = <<>> /\ TextOf(K2) = {}
        BY <3>1 DEF TextOf, ToSet
      <4> HIDE DEF K2
      <4>5. DOMAIN K2 = {}
        BY <2>4, <4>4
      <4>6. Rising(K2) /\ Before(H, K2) /\ Before(X, K2)
        BY <4>5 DEF Rising, Before
      <4> QED BY <1>3, <1>4, <4>2, <4>3, <4>4, <4>6
    <3>2. CASE ~Has(q, LF)
      <4>1. X = <<>> /\ K2 = q
        BY <1>1, <3>2 DEF X
      <4> HIDE DEF K2
      <4>2. Before(X, K2)
        BY <2>4, <4>1 DEF Before
      <4> QED BY <1>3, <1>4, <1>5, <4>1, <4>2, InOrderEmpty
    <3> QED BY <3>1, <3>2
  <2> HIDE DEF K2
  <2>6. InParts(H, X, F, G, K2)
    BY <2>1, <2>2, TrailIs
  <2>7. InOrder(Trail(s))' /\ TextIn(Trail(s))' = Accepted(s)'
    BY <1>3, <1>7, <2>3, <2>5, <2>6 DEF InParts
  <2> QED BY <2>7
<1> QED BY <1>2, <1>8 DEF TextInOrder

\* The first of a list may be put behind the list before it.
LEMMA HeadMoves ==
    ASSUME NEW U, NEW A \in Seq(U), NEW B \in Seq(U), B # <<>>
    PROVE  Append(A, Head(B)) \o Tail(B) = A \o B
<1> DEFINE C == Append(A, Head(B))
           D == Tail(B)
           a == Len(A)
           b == Len(B)
<1>1. /\ a \in Nat /\ b \in Nat \ {0} /\ C \in Seq(U) /\ Len(C) = a + 1
      /\ \A i \in 1..a : C[i] = A[i]
      /\ C[a + 1] = B[1]
  BY LenProperties, EmptySeq
<1>2. D \in Seq(U) /\ Len(D) = b - 1 /\ \A i \in 1..(b - 1) : D[i] = B[i + 1]
  BY HeadTailProperties
<1> HIDE DEF C, D, a, b
<1>3. /\ C \o D \in Seq(U) /\ Len(C \o D) = Len(C) + Len(D)
      /\ \A i \in 1..(Len(C) + Len(D)) :
            (C \o D)[i] = IF i <= Len(C) THEN C[i] ELSE D[i - Len(C)]
  BY <1>1, <1>2, ConcatProperties
<1>4. /\ A \o B \in Seq(U) /\ Len(A \o B) = a + b
      /\ \A i \in 1..(a + b) : (A \o B)[i] = IF i <= a THEN A[i] ELSE B[i - a]
  BY ConcatProperties DEF a, b
<1>5. Len(C) + Len(D) = a + b
  BY <1>1, <1>2
<1>6. ASSUME NEW i \in 1..(a + b) PROVE (C \o D)[i] = (A \o B)[i]
  <2>1. CASE i <= a
    BY <1>1, <1>3, <1>4, <1>5, <2>1
  <2>2. CASE i = a + 1
    <3>1. i - a = 1 /\ i <= Len(C) /\ ~(i <= a)
      BY <1>1, <2>2
    <3> QED BY <1>1, <1>3, <1>4, <1>5, <2>2, <3>1
  <2>3. CASE i > a + 1
    <3>1. /\ ~(i <= Len(C)) /\ ~(i <= a) /\ i - Len(C) \in 1..(b - 1)
          /\ (i - Len(C)) + 1 = i - a
      BY <1>1, <2>3
    <3> QED BY <1>2, <1>3, <1>4, <1>5, <3>1
  <2>4. i \in Int /\ a \in Int
    BY <1>1
  <2>5. i <= a \/ i = a + 1 \/ i > a + 1
    BY <2>4
  <2> QED BY <2>1, <2>2, <2>3, <2>5
<1>7. C \o D = A \o B
  BY <1>3, <1>4, <1>5, <1>6, SeqEqual
<1> QED BY <1>7 DEF C, D

\* A command that is handled stays where it is: it is first of those that wait,
\* then last of those that were handled.
LEMMA HandleOrder ==
    ASSUME TypeInv, TextInOrder, Handle PROVE TextInOrder'
<1> DEFINE s == serving
           H == handled[s]
           a == arr_msg
           U == UnitsOf(s, read[s])
<1>1. /\ s \in Socks /\ serving' = s /\ read' = read /\ reads' = reads
      /\ a # <<>> /\ arr_msg' = Tail(a)
      /\ handled'[s] = Append(H, Head(a))
      /\ form[s] = <<>> /\ buff[s] = <<>> /\ form'[s] = <<>> /\ buff'[s] = <<>>
      /\ \A t \in Socks \ {s} : /\ handled'[t] = handled[t]
                                /\ form'[t] = form[t] /\ buff'[t] = buff[t]
  BY HandleIs
<1>2. H \in Seq(Seq(U)) /\ a \in Seq(Seq(U))
  BY <1>1, Types DEF TypeInv
<1> HIDE DEF s, U
<1>3. ASSUME NEW t \in Socks PROVE Trail(t)' = Trail(t)
  <2>1. CASE t # s
    BY <1>1, <2>1 DEF Trail, s
  <2>2. CASE t = s
    <3>1. Append(H, Head(a)) \o Tail(a) = H \o a
      <4> HIDE DEF H, a
      <4> QED BY <1>1, <1>2, HeadMoves
    <3>2. serving = t /\ serving' = t
      BY <1>1, <2>2 DEF s
    <3>3. Trail(t)' = Append(H, Head(a)) \o Tail(a) \o <<<<>>, <<>>>>
      BY <1>1, <2>2, <3>2 DEF Trail
    <3>4. Trail(t) = H \o a \o <<<<>>, <<>>>>
      BY <1>1, <2>2, <3>2 DEF Trail
    <3> QED BY <3>1, <3>3, <3>4
  <2> QED BY <2>1, <2>2
<1>4. ASSUME NEW t \in Socks PROVE Accepted(t)' = Accepted(t)
  BY <1>1 DEF Accepted
<1> QED BY <1>3, <1>4 DEF TextInOrder

\* The commands of a peer, those that wait and what is kept of a line are its
\* text, in order, nothing lost or doubled, whatever is sent and however it is
\* cut, and whenever the buffer of the form gives way to that of the connection.
THEOREM TextStaysInOrder == Spec => []TextInOrder
<1>1. Init => TextInOrder
  <2> SUFFICES ASSUME Init, NEW s \in Socks
               PROVE  InOrder(Trail(s)) /\ TextIn(Trail(s)) = Accepted(s)
    BY DEF TextInOrder
  <2>1. TypeInv
    BY InitTypes
  <2>2. handled[s] = <<>> /\ Kept(s) = <<>> /\ arr_msg = <<>> /\ reads[s] = {}
    BY DEF Init, Kept
  <2> DEFINE X == IF serving = s THEN arr_msg ELSE <<>>
             H == handled[s]
             K == Kept(s)
  <2>3. X = <<>> /\ H = <<>> /\ K = <<>>
    BY <2>2
  <2> HIDE DEF X
  <2>4. /\ InOrder(Trail(s)) <=> /\ InOrder(H) /\ InOrder(X) /\ Precede(H, X) /\ Rising(K)
                                 /\ Before(H, K) /\ Before(X, K)
        /\ TextIn(Trail(s)) = TextIn(H) \cup TextIn(X) \cup TextOf(K)
    BY <2>1, OrderIs DEF X
  <2> HIDE DEF H, K
  <2>5. DOMAIN K = {} /\ TextOf(K) = {}
    BY <2>3 DEF TextOf, ToSet
  <2>6. Rising(K) /\ Before(H, K) /\ Before(X, K)
    BY <2>5 DEF Rising, Before
  <2>7. Accepted(s) = {}
    BY <2>2 DEF Accepted
  <2> QED BY <2>3, <2>4, <2>5, <2>6, <2>7, InOrderEmpty
<1>2. TypeInv /\ TypeInv' /\ TextInOrder /\ [Next]_vars => TextInOrder'
  <2> SUFFICES ASSUME TypeInv, TypeInv', TextInOrder, [Next]_vars PROVE TextInOrder'
    OBVIOUS
  <2>1. ASSUME NEW s \in Socks, NEW n \in 1..ReadSize, Recv(s, n) PROVE TextInOrder'
    BY <2>1, RecvOrder
  <2>2. CASE Handle
    BY <2>2, HandleOrder
  <2>3. CASE UNCHANGED vars
    BY <2>3 DEF vars, TextInOrder, Trail, Accepted
  <2> QED BY <2>1, <2>2, <2>3 DEF Next
<1> QED BY <1>1, <1>2, TypeInvariant, PTL DEF Spec

-----------------------------------------------------------------------------
(* Lines stay apart. *)

\* Behind what came last comes what is received.
LEMMA NewTextIsLatest ==
    ASSUME TypeOK, NEW s \in Socks, NEW n \in Nat \ {0}, n <= Longest, Latest(s, Kept(s), read[s])
    PROVE  Latest(s, NewText(s, n), read[s] + n)
<1> DEFINE q == NewText(s, n)
           K == Kept(s)
           d == Len(K)
           m == read[s]
<1>1. K \in Seq(UnitsOf(s, m)) /\ d \in Nat /\ m \in Nat /\ DOMAIN K = 1..d
  BY Types, LenProperties
<1>2. /\ q \in Seq(UnitsOf(s, m + n)) /\ Len(q) = d + n
      /\ \A i \in 1..d : q[i] = K[i]
      /\ \A i \in 1..n : q[d + i] = Unit(s, m + i)
  <2>1. ~(n > Longest)
    BY SizeAssumption
  <2> QED BY <2>1, NewTextIs
<1>3. \A i \in 1..d : K[i] = Unit(s, m - d + i)
  BY <1>1 DEF Latest
<1>4. DOMAIN q = 1..(d + n)
  BY <1>2, LenProperties
<1> HIDE DEF q, K, d, m
<1>5. ASSUME NEW i \in 1..(d + n) PROVE q[i] = Unit(s, (m + n) - (d + n) + i)
  <2>1. (m + n) - (d + n) + i = m - d + i
    BY <1>1
  <2>2. CASE i <= d
    <3>1. i \in 1..d
      BY <1>1, <2>2
    <3> QED BY <1>2, <1>3, <2>1, <3>1
  <2>3. CASE ~(i <= d)
    <3>1. i - d \in 1..n /\ d + (i - d) = i /\ m + (i - d) = m - d + i
      BY <1>1, <2>3
    <3>2. q[d + (i - d)] = Unit(s, m + (i - d))
      BY <1>2, <3>1
    <3> QED BY <2>1, <3>1, <3>2
  <2> QED BY <2>2, <2>3
<1> QED BY <1>2, <1>4, <1>5 DEF Latest, q, m

\* The text q is what s sends behind place d.
Stretch(s, q, d) == d + Len(q) <= Len(Stream[s]) /\ \A i \in 1..Len(q) : q[i] = Unit(s, d + i)

\* What s sends has a CR before every LF.
CrLf(s) == \A p \in DOMAIN Stream[s] : Stream[s][p] = LF => p > 1 /\ Stream[s][p - 1] = CR

\* Every LF but the first unit of q follows a CR of q.
LEMMA LfFollowsCr ==
    ASSUME NEW s \in Socks, NEW U, NEW q \in Seq(U), NEW d \in Nat,
           Stretch(s, q, d), CrLf(s),
           NEW x \in 1..Len(q), IsLf(q, x)
    PROVE  x = 1 \/ IsCr(q, x - 1)
<1>1. Len(q) \in Nat /\ Len(Stream[s]) \in Nat /\ DOMAIN Stream[s] = 1..Len(Stream[s])
  BY LenProperties, StreamAssumption
<1>2. \A i \in 1..Len(q) : Sign(q[i]) = Stream[s][d + i]
  BY DEF Stretch, Sign, Unit
<1>3. d + x \in DOMAIN Stream[s] /\ Stream[s][d + x] = LF
  <2>1. Stream[s][d + x] = LF
    BY <1>2 DEF IsLf
  <2>2. d + Len(q) <= Len(Stream[s])
    BY DEF Stretch
  <2> QED BY <1>1, <2>1, <2>2
<1>4. Stream[s][(d + x) - 1] = CR
  BY <1>3 DEF CrLf
<1>5. CASE x # 1
  <2>1. x - 1 \in 1..Len(q) /\ d + (x - 1) = (d + x) - 1
    BY <1>1, <1>5
  <2> QED BY <1>2, <1>4, <2>1 DEF IsCr
<1> QED BY <1>5

\* A text that came last and is within lines of CR LF gives pieces of lines.
LEMMA CommandsAreTidy ==
    ASSUME NEW s \in Socks, NEW q \in Seq({s} \X Nat), q # <<>>, NEW d \in Nat,
           Stretch(s, q, d), CrLf(s),
           NEW k \in DOMAIN Commands(q)
    PROVE  Tidy(Commands(q)[k])
<1> DEFINE c == Commands(q)[k]
<1>1. Len(q) \in Nat
  BY LenProperties
<1>2. \A x \in 1..Len(q) : IsLf(q, x) => x = 1 \/ IsCr(q, x - 1)
  BY LfFollowsCr
<1>3. PICK a \in 1..(Len(q) + 1) : \A i \in 1..Len(c) :
        a + i - 1 \in 1..Len(q) /\ c[i] = q[a + i - 1] /\ ~IsLf(q, a + i - 1)
  BY <1>2, CommandsOfLines
<1>4. Len(c) \in Nat /\ DOMAIN c = 1..Len(c)
  <2>1. k \in 1..Many(q) /\ c = Cut(q, k)
    BY CommandsAre
  <2>2. PICK m \in From(q, k)..(To(q, k) + 1) : CutAt(q, k, m)
    BY <2>1, CutIs
  <2> QED BY <2>1, <2>2, SpotsOfCut
<1> HIDE DEF c
<1>5. ASSUME NEW i \in 1..Len(c) PROVE Place(c[i]) = d + (a + i - 1) /\ Sign(c[i]) # LF
  <2>1. a + i - 1 \in 1..Len(q) /\ c[i] = q[a + i - 1] /\ ~IsLf(q, a + i - 1)
    BY <1>3
  <2>2. q[a + i - 1] = Unit(s, d + (a + i - 1))
    BY <2>1 DEF Stretch
  <2>3. c[i] = Unit(s, d + (a + i - 1))
    BY <2>1, <2>2
  <2> QED BY <2>1, <2>3 DEF Place, Unit, IsLf
<1>6. ASSUME NEW i \in 1..Len(c) PROVE Place(c[i]) = Place(c[1]) + i - 1
  <2>1. 1 \in 1..Len(c)
    BY <1>4
  <2>2. Place(c[1]) = d + (a + 1 - 1) /\ Place(c[i]) = d + (a + i - 1)
    BY <1>5, <2>1
  <2> QED BY <1>1, <2>2
<1> QED BY <1>4, <1>5, <1>6 DEF Tidy, c

\* The text that a recv of a peer of proper lines leaves to be cut.
LEMMA ProperText ==
    ASSUME TypeInv, LineInv, NEW s \in Socks, NEW n \in 1..ReadSize, Recv(s, n), Proper(s)'
    PROVE  /\ Proper(s) /\ n <= Longest /\ Latest(s, NewText(s, n), read[s] + n)
           /\ NewText(s, n) \in Seq(UnitsOf(s, read[s] + n)) /\ NewText(s, n) # <<>>
           /\ NewText(s, n) \in Seq({s} \X Nat)
           /\ read[s] - Len(Kept(s)) \in Nat
           /\ (read[s] - Len(Kept(s))) + Len(NewText(s, n)) = read[s] + n
           /\ \A i \in 1..Len(NewText(s, n)) :
                 NewText(s, n)[i] = Unit(s, (read[s] - Len(Kept(s))) + i)
<1> DEFINE q == NewText(s, n)
           m == read[s]
           K == Kept(s)
           N == <<m + 1, m + n>>
<1>0. TypeOK /\ m \in Nat /\ Longest \in Nat /\ K \in Seq(UnitsOf(s, m)) /\ Len(K) \in Nat /\ DOMAIN K = 1..Len(K)
  BY Types, SizeAssumption, LenProperties DEF TypeInv
<1>1. n \in Nat \ {0} /\ reads'[s] = reads[s] \cup {N}
  BY RecvIs
<1>2. \A r \in reads[s] \cup {N} : ~TooLong(r)
  BY <1>1 DEF Proper, TooLong
<1>3. Proper(s)
  BY <1>2 DEF Proper
<1>4. n <= Longest
  <2>1. ~TooLong(N) /\ N[1] = m + 1 /\ N[2] = m + n
    BY <1>2
  <2> HIDE DEF N
  <2> QED BY <1>0, <1>1, <2>1 DEF TooLong
<1>5. Latest(s, K, m)
  BY <1>3 DEF LineInv
<1>6. Latest(s, q, m + n)
  BY <1>0, <1>1, <1>4, <1>5, NewTextIsLatest
<1>7. q \in Seq(UnitsOf(s, m + n)) /\ Len(q) = Len(K) + n
  <2>1. ~(n > Longest)
    BY <1>0, <1>1, <1>4
  <2> QED BY <1>0, <1>1, <2>1, NewTextIs
<1>8. DOMAIN q = 1..Len(q)
  BY <1>7, LenProperties
<1> HIDE DEF q, K, m
<1>9. q # <<>>
  BY <1>0, <1>1, <1>7, EmptySeq
<1>10. q \in Seq({s} \X Nat)
  <2>1. UnitsOf(s, m + n) \subseteq {s} \X Nat
    BY <1>0, <1>1 DEF UnitsOf
  <2> QED BY <1>7, <2>1, SeqMonotonic
<1>11. m - Len(K) \in Nat
  <2>1. CASE Len(K) = 0
    BY <1>0, <2>1
  <2>2. CASE Len(K) # 0
    <3>1. 1 \in 1..Len(K)
      BY <1>0, <2>2
    <3>2. K[1] = Unit(s, m - Len(K) + 1) /\ K[1] \in UnitsOf(s, m)
      BY <1>0, <1>5, <3>1, ElementOfSeq DEF Latest
    <3>3. m - Len(K) + 1 \in 1..m
      BY <3>2 DEF Unit, UnitsOf
    <3> QED BY <1>0, <3>3
  <2> QED BY <2>1, <2>2
<1>12. (m - Len(K)) + Len(q) = m + n
  BY <1>0, <1>1, <1>7, <1>11
<1>13. \A i \in 1..Len(q) : q[i] = Unit(s, (m - Len(K)) + i)
  <2> TAKE i \in 1..Len(q)
  <2>1. q[i] = Unit(s, (m + n) - Len(q) + i)
    BY <1>6, <1>8 DEF Latest
  <2>2. (m + n) - Len(q) = m - Len(K)
    BY <1>0, <1>1, <1>7
  <2> QED BY <2>1, <2>2
<1> QED BY <1>3, <1>4, <1>6, <1>7, <1>9, <1>10, <1>11, <1>12, <1>13 DEF q, K, m

LEMMA RecvLines ==
    ASSUME TypeInv, LineInv, NEW s \in Socks, NEW n \in 1..ReadSize, Recv(s, n) PROVE LineInv'
<1> DEFINE q == NewText(s, n)
           d == read[s] - Len(Kept(s))
<1>1. /\ n \in Nat \ {0} /\ serving' = s /\ entry' = entry /\ handled' = handled
      /\ read[s] + n <= Len(Stream[s]) /\ read'[s] = read[s] + n
      /\ IF Has(q, LF) THEN arr_msg' = Commands(q) /\ form'[s] = <<>> /\ buff'[s] = <<>>
         ELSE /\ arr_msg' = <<>>
              /\ IF entry[s] = "none" THEN form'[s] = q /\ buff'[s] = <<>>
                 ELSE form'[s] = <<>> /\ buff'[s] = q
      /\ \A t \in Socks \ {s} : /\ read'[t] = read[t] /\ reads'[t] = reads[t]
                                /\ form'[t] = form[t] /\ buff'[t] = buff[t]
  BY RecvIs
<1>2. ASSUME NEW t \in Socks, t # s, Proper(t)'
      PROVE  /\ Latest(t, Kept(t)', read'[t])
             /\ \A k \in DOMAIN handled'[t] : Tidy(handled'[t][k])
             /\ serving' = t => \A k \in DOMAIN arr_msg' : Tidy(arr_msg'[k])
  <2>1. Proper(t)
    BY <1>1, <1>2 DEF Proper, TooLong
  <2>2. Kept(t)' = Kept(t)
    BY <1>1, <1>2 DEF Kept
  <2> QED BY <1>1, <1>2, <2>1, <2>2 DEF LineInv
<1>3. ASSUME Proper(s)'
      PROVE  /\ Latest(s, Kept(s)', read'[s])
             /\ \A k \in DOMAIN handled'[s] : Tidy(handled'[s][k])
             /\ serving' = s => \A k \in DOMAIN arr_msg' : Tidy(arr_msg'[k])
  <2>1. /\ Proper(s) /\ Latest(s, q, read[s] + n)
        /\ q # <<>> /\ q \in Seq({s} \X Nat) /\ d \in Nat /\ d + Len(q) = read[s] + n
        /\ \A i \in 1..Len(q) : q[i] = Unit(s, d + i)
    BY <1>3, ProperText
  <2>2. \A k \in DOMAIN handled'[s] : Tidy(handled'[s][k])
    BY <1>1, <2>1 DEF LineInv
  <2>3. CrLf(s)
    BY <2>1 DEF Proper, CrLf
  <2>4. Stretch(s, q, d)
    BY <1>1, <2>1 DEF Stretch
  <2> HIDE DEF d, q
  <2>5. \A k \in DOMAIN Commands(q) : Tidy(Commands(q)[k])
    BY <2>1, <2>3, <2>4, CommandsAreTidy
  <2>6. \A e : e = <<>> => DOMAIN e = {}
    OBVIOUS
  <2>7. CASE Has(q, LF)
    <3>1. arr_msg' = Commands(q) /\ Kept(s)' = <<>>
      BY <1>1, <2>7 DEF Kept, q
    <3> QED BY <2>2, <2>5, <2>6, <3>1 DEF Latest
  <2>8. CASE ~Has(q, LF)
    <3>1. arr_msg' = <<>> /\ Kept(s)' = q
      BY <1>1, <2>8 DEF Kept, q
    <3> QED BY <1>1, <2>1, <2>2, <2>6, <3>1
  <2> QED BY <2>7, <2>8
<1>4. ASSUME NEW t \in Socks, Proper(t)'
      PROVE  /\ Latest(t, Kept(t)', read'[t])
             /\ \A k \in DOMAIN handled'[t] : Tidy(handled'[t][k])
             /\ serving' = t => \A k \in DOMAIN arr_msg' : Tidy(arr_msg'[k])
  BY <1>2, <1>3, <1>4
<1> QED BY <1>4 DEF LineInv

\* What is in a list to which something was appended, and in one whose head is gone.
LEMMA HeadAppended ==
    ASSUME NEW U, NEW A \in Seq(U), NEW B \in Seq(U), B # <<>>
    PROVE  /\ \A k \in DOMAIN A : k \in DOMAIN Append(A, Head(B)) /\ Append(A, Head(B))[k] = A[k]
           /\ Len(A) + 1 \in DOMAIN Append(A, Head(B)) /\ Append(A, Head(B))[Len(A) + 1] = B[1]
           /\ \A k \in DOMAIN Append(A, Head(B)) : k \in DOMAIN A \/ k = Len(A) + 1
           /\ \A k \in DOMAIN Tail(B) : k + 1 \in DOMAIN B /\ Tail(B)[k] = B[k + 1]
           /\ \A k \in DOMAIN B : k # 1 => k - 1 \in DOMAIN Tail(B) /\ Tail(B)[k - 1] = B[k]
           /\ 1 \in DOMAIN B
<1> DEFINE C == Append(A, Head(B))
           D == Tail(B)
           a == Len(A)
           b == Len(B)
<1>1. /\ a \in Nat /\ b \in Nat \ {0} /\ C \in Seq(U) /\ Len(C) = a + 1
      /\ \A i \in 1..a : C[i] = A[i]
      /\ C[a + 1] = B[1] /\ DOMAIN A = 1..a /\ DOMAIN B = 1..b
  BY LenProperties, EmptySeq
<1>2. D \in Seq(U) /\ Len(D) = b - 1 /\ \A i \in 1..(b - 1) : D[i] = B[i + 1]
  BY HeadTailProperties
<1>3. DOMAIN C = 1..(a + 1) /\ DOMAIN D = 1..(b - 1)
  BY <1>1, <1>2, LenProperties
<1> HIDE DEF C, D, a, b
<1>4. \A k \in DOMAIN B : k # 1 => k - 1 \in 1..(b - 1) /\ (k - 1) + 1 = k
  BY <1>1
<1>5. \A k \in DOMAIN B : k # 1 => k - 1 \in DOMAIN D /\ D[k - 1] = B[k]
  BY <1>2, <1>3, <1>4
<1>6. \A k \in DOMAIN D : k + 1 \in DOMAIN B /\ D[k] = B[k + 1]
  BY <1>1, <1>2, <1>3
<1>7. /\ \A k \in DOMAIN A : k \in DOMAIN C /\ C[k] = A[k]
      /\ a + 1 \in DOMAIN C /\ \A k \in DOMAIN C : k \in DOMAIN A \/ k = a + 1
      /\ 1 \in DOMAIN B
  BY <1>1, <1>3
<1> QED BY <1>1, <1>5, <1>6, <1>7 DEF C, D, a

LEMMA HandleLines == ASSUME TypeInv, LineInv, Handle PROVE LineInv'
<1>1. /\ serving \in Socks /\ serving' = serving /\ read' = read /\ reads' = reads
      /\ arr_msg # <<>> /\ arr_msg' = Tail(arr_msg)
      /\ handled'[serving] = Append(handled[serving], Head(arr_msg))
      /\ form[serving] = <<>> /\ buff[serving] = <<>> /\ form'[serving] = <<>> /\ buff'[serving] = <<>>
      /\ \A t \in Socks \ {serving} : /\ entry'[t] = entry[t] /\ handled'[t] = handled[t]
                                      /\ form'[t] = form[t] /\ buff'[t] = buff[t]
  BY HandleIs
<1>2. ASSUME NEW t \in Socks, Proper(t)'
      PROVE  /\ Latest(t, Kept(t)', read'[t])
             /\ \A k \in DOMAIN handled'[t] : Tidy(handled'[t][k])
             /\ serving' = t => \A k \in DOMAIN arr_msg' : Tidy(arr_msg'[k])
  <2>1. Proper(t)
    BY <1>1, <1>2 DEF Proper
  <2>2. /\ Latest(t, Kept(t), read[t])
        /\ \A k \in DOMAIN handled[t] : Tidy(handled[t][k])
        /\ serving = t => \A k \in DOMAIN arr_msg : Tidy(arr_msg[k])
    BY <2>1 DEF LineInv
  <2>3. Kept(t)' = Kept(t)
    BY <1>1 DEF Kept
  <2>4. CASE t # serving
    BY <1>1, <2>2, <2>3, <2>4
  <2>5. CASE t = serving
    <3> DEFINE A == handled[t]
               B == arr_msg
               U == Seq(UnitsOf(t, read[t]))
    <3>1. A \in Seq(U) /\ B \in Seq(U) /\ B # <<>>
      BY <1>1, <2>5, Types DEF TypeInv
    <3>2. handled'[t] = Append(A, Head(B)) /\ arr_msg' = Tail(B)
      BY <1>1, <2>5
    <3>3. \A k \in DOMAIN A : Tidy(A[k])
      BY <2>2
    <3>4. \A k \in DOMAIN B : Tidy(B[k])
      BY <2>2, <2>5
    <3> HIDE DEF A, B, U
    <3>5. /\ \A k \in DOMAIN A : k \in DOMAIN Append(A, Head(B)) /\ Append(A, Head(B))[k] = A[k]
          /\ Append(A, Head(B))[Len(A) + 1] = B[1] /\ 1 \in DOMAIN B
          /\ \A k \in DOMAIN Append(A, Head(B)) : k \in DOMAIN A \/ k = Len(A) + 1
          /\ \A k \in DOMAIN Tail(B) : k + 1 \in DOMAIN B /\ Tail(B)[k] = B[k + 1]
      BY <3>1, HeadAppended
    <3>6. \A k \in DOMAIN handled'[t] : Tidy(handled'[t][k])
      BY <3>2, <3>3, <3>4, <3>5
    <3>7. \A k \in DOMAIN arr_msg' : Tidy(arr_msg'[k])
      BY <3>2, <3>4, <3>5
    <3> QED BY <1>1, <2>2, <2>3, <3>6, <3>7
  <2> QED BY <2>4, <2>5
<1> QED BY <1>2 DEF LineInv

LEMMA LineInvariant == Spec => []LineInv
<1>1. Init => LineInv
  <2> SUFFICES ASSUME Init PROVE LineInv
    OBVIOUS
  <2>1. \A e : e = <<>> => DOMAIN e = {}
    OBVIOUS
  <2>2. arr_msg = <<>> /\ \A s \in Socks : Kept(s) = <<>> /\ handled[s] = <<>>
    BY DEF Init, Kept
  <2> QED BY <2>1, <2>2 DEF LineInv, Latest
<1>2. TypeInv /\ LineInv /\ [Next]_vars => LineInv'
  <2> SUFFICES ASSUME TypeInv, LineInv, [Next]_vars PROVE LineInv'
    OBVIOUS
  <2>1. ASSUME NEW s \in Socks, NEW n \in 1..ReadSize, Recv(s, n) PROVE LineInv'
    BY <2>1, RecvLines
  <2>2. CASE Handle
    BY <2>2, HandleLines
  <2>3. CASE UNCHANGED vars
    BY <2>3 DEF vars, LineInv, Proper, Kept
  <2> QED BY <2>1, <2>2, <2>3 DEF Next
<1> QED BY <1>1, <1>2, TypeInvariant, PTL DEF Spec

\* The text of two lines is never taken for one command when lines end with CR
\* LF and none is too long, however they are cut.
THEOREM LinesStayApart == Spec => []LinesApart
<1>1. TypeInv /\ LineInv => LinesApart
  <2> SUFFICES ASSUME TypeInv, LineInv, NEW s \in Socks, Proper(s), NEW k \in DOMAIN handled[s],
                      NEW u \in ToSet(handled[s][k]), NEW v \in ToSet(handled[s][k]),
                      NEW p \in Place(u)..Place(v)
               PROVE  Stream[s][p] # LF
    BY DEF LinesApart
  <2> DEFINE c == handled[s][k]
             f == Place(c[1])
  <2>1. c \in Seq(UnitsOf(s, read[s])) /\ read[s] \in Nat
    <3>1. handled[s] \in Seq(Seq(UnitsOf(s, read[s]))) /\ read[s] \in Nat
      BY Types DEF TypeInv
    <3> QED BY <3>1, ElementOfSeq, LenProperties
  <2>2. Len(c) \in Nat /\ DOMAIN c = 1..Len(c)
    BY <2>1, LenProperties
  <2>3. \A i \in 1..Len(c) : Place(c[i]) = f + i - 1 /\ Sign(c[i]) # LF
    BY <2>2 DEF LineInv, Tidy
  <2>4. PICK i \in 1..Len(c), j \in 1..Len(c) : u = c[i] /\ v = c[j]
    BY <2>2 DEF ToSet
  <2>5. ASSUME NEW x \in 1..Len(c) PROVE c[x] = Unit(s, Place(c[x])) /\ Place(c[x]) \in Nat
    <3>1. c[x] \in UnitsOf(s, read[s])
      BY <2>1, ElementOfSeq
    <3>2. PICK r \in 1..read[s] : c[x] = <<s, r>>
      BY <3>1 DEF UnitsOf
    <3> QED BY <2>1, <3>2 DEF Unit, Place
  <2> HIDE DEF c
  <2>6. f \in Nat
    <3>1. 1 \in 1..Len(c)
      BY <2>2
    <3> QED BY <2>5, <3>1
  <2> HIDE DEF f
  <2>7. p - f + 1 \in 1..Len(c) /\ f + (p - f + 1) - 1 = p
    <3>1. Place(u) = f + i - 1 /\ Place(v) = f + j - 1
      BY <2>3, <2>4
    <3> QED BY <2>2, <2>6, <3>1
  <2>8. Place(c[p - f + 1]) = p /\ Sign(c[p - f + 1]) # LF
    BY <2>3, <2>7
  <2>9. c[p - f + 1] = Unit(s, p)
    BY <2>5, <2>7, <2>8
  <2> QED BY <2>8, <2>9 DEF Sign, Unit
<1> QED BY <1>1, TypeInvariant, LineInvariant, PTL

-----------------------------------------------------------------------------
(* Lines are whole. *)

\* Where a line from place a to place b is in a text behind place d, and where the
\* piece is that has it: the LF before the line is of the piece, unless the text
\* begins with the line.
Spans(d, L, a, b, x, y, e) ==
    /\ x <= y /\ e <= y /\ d + y = b /\ d + e = a /\ y - e + 1 = b - a + 1
    /\ y # L => y + 1 \in 1..L /\ d + (y + 1) = b + 1
    /\ (e = x /\ x = 1) \/ (e = x + 1 /\ d + x = a - 1 /\ a # 1)

LEMMA SpanOf ==
    ASSUME NEW d \in Nat, NEW L \in Nat, NEW a \in Nat, NEW b \in Nat, d < a, a <= b, b <= d + L
    PROVE  \E x, y, e \in 1..L : Spans(d, L, a, b, x, y, e)
<1> DEFINE y == b - d
           e == a - d
<1>1. /\ y \in 1..L /\ e \in 1..L /\ e <= y /\ d + y = b /\ d + e = a /\ y - e + 1 = b - a + 1
      /\ y # L => y + 1 \in 1..L /\ d + (y + 1) = b + 1
  OBVIOUS
<1> HIDE DEF y, e
<1>2. CASE e = 1
  BY <1>1, <1>2 DEF Spans
<1>3. CASE e # 1
  <2>1. e - 1 \in 1..L /\ e - 1 <= y /\ e = (e - 1) + 1 /\ d + (e - 1) = a - 1 /\ a # 1
    BY <1>1, <1>3
  <2> QED BY <1>1, <2>1 DEF Spans
<1> QED BY <1>2, <1>3

\* A line that begins a text, or comes later in it, and is in it to its end is
\* one of its commands.
LEMMA LineIsCut ==
    ASSUME NEW s \in Socks, NEW q \in Seq({s} \X Nat), q # <<>>, NEW d \in Nat,
           Stretch(s, q, d), CrLf(s),
           NEW a \in Nat, NEW b \in Nat, IsLine(s, a, b), d < a, b <= d + Len(q)
    PROVE  \E k \in DOMAIN Commands(q) : Commands(q)[k] = Units(s, a, b)
<1> DEFINE L == Len(q)
<1>1. L \in Nat /\ Len(Stream[s]) \in Nat /\ DOMAIN Stream[s] = 1..Len(Stream[s]) /\ DOMAIN q = 1..L
  BY LenProperties, StreamAssumption
<1>2. \A i \in 1..L : Sign(q[i]) = Stream[s][d + i]
  BY DEF Stretch, Sign, Unit
<1>3. \A x \in 1..L : IsLf(q, x) => x = 1 \/ IsCr(q, x - 1)
  BY LfFollowsCr
<1>4. /\ 1 <= a /\ a <= b /\ b + 2 <= Len(Stream[s])
      /\ \A p \in a..b : Stream[s][p] = TEXT
      /\ a = 1 \/ Stream[s][a - 1] = LF
      /\ Stream[s][b + 1] = CR
  BY DEF IsLine
<1> HIDE DEF L
<1>5. PICK x \in 1..L, y \in 1..L, e \in 1..L : Spans(d, L, a, b, x, y, e)
  <2>1. b <= d + L
    BY DEF L
  <2> QED BY <1>1, <1>4, <2>1, SpanOf
<1>6. /\ x \in Nat /\ y \in Nat /\ e \in Nat
      /\ x <= y /\ e <= y /\ d + y = b /\ d + e = a /\ y - e + 1 = b - a + 1
      /\ y # L => y + 1 \in 1..L /\ d + (y + 1) = b + 1
      /\ (e = x /\ x = 1) \/ (e = x + 1 /\ d + x = a - 1 /\ a # 1)
  BY <1>1, <1>5 DEF Spans
<1>7. \A i \in e..y : ~IsCr(q, i) /\ ~IsLf(q, i)
  <2> TAKE i \in e..y
  <2>1. i \in 1..L /\ d + i \in a..b
    BY <1>1, <1>6
  <2>2. Sign(q[i]) = TEXT
    BY <1>2, <1>4, <2>1
  <2> QED BY <2>2 DEF IsCr, IsLf, CR, LF, TEXT
<1>8. e = x + 1 => IsLf(q, x)
  <2> HAVE e = x + 1
  <2>1. d + x = a - 1 /\ a # 1
    BY <1>6
  <2> QED BY <1>2, <1>4, <2>1 DEF IsLf
<1>9. x = 1 \/ IsCr(q, x - 1)
  BY <1>3, <1>6, <1>8
<1>10. \A i \in x..y : ~IsCr(q, i)
  <2> TAKE i \in x..y
  <2>1. i \in e..y \/ (i = x /\ e = x + 1)
    BY <1>6
  <2>2. IsLf(q, x) => ~IsCr(q, x)
    BY DEF IsCr, IsLf, CR, LF
  <2> QED BY <1>7, <1>8, <2>1, <2>2
<1>11. y = L \/ IsCr(q, y + 1)
  <2>1. CASE y # L
    <3>1. y + 1 \in 1..L /\ d + (y + 1) = b + 1
      BY <1>6, <2>1
    <3> QED BY <1>2, <1>4, <3>1 DEF IsCr
  <2> QED BY <2>1
<1>12. PICK k \in DOMAIN Commands(q) :
        /\ Len(Commands(q)[k]) = y - e + 1
        /\ \A i \in 1..(y - e + 1) : Commands(q)[k][i] = q[e + i - 1]
  <2>1. IsCommand(q, e, y)
    BY <1>6, <1>7, <1>8, <1>9, <1>10, <1>11, LineIsCommand DEF L
  <2> QED BY <2>1 DEF IsCommand
<1> DEFINE c == Commands(q)[k]
<1>13. c \in Seq({s} \X Nat)
  <2>1. k \in 1..Many(q) /\ c = Cut(q, k)
    BY CommandsAre
  <2> QED BY <2>1, CutIs
<1>14. /\ Units(s, a, b) \in Seq({s} \X Nat) /\ Len(Units(s, a, b)) = b - a + 1
       /\ \A i \in 1..(b - a + 1) : Units(s, a, b)[i] = Unit(s, a + i - 1)
  BY <1>4, LineUnits
<1> HIDE DEF c
<1>15. Len(c) = b - a + 1
  BY <1>6, <1>12 DEF c
<1>16. ASSUME NEW i \in 1..(b - a + 1) PROVE c[i] = Units(s, a, b)[i]
  <2>1. c[i] = q[e + i - 1]
    BY <1>6, <1>12 DEF c
  <2>2. e + i - 1 \in 1..L /\ d + (e + i - 1) = a + i - 1
    BY <1>1, <1>6
  <2>3. q[e + i - 1] = Unit(s, d + (e + i - 1))
    BY <2>2 DEF Stretch, L
  <2> QED BY <1>14, <2>1, <2>2, <2>3
<1>17. c = Units(s, a, b)
  BY <1>13, <1>14, <1>15, <1>16, SeqEqual
<1> QED BY <1>17 DEF c

\* A recv from a peer of proper lines: a line that the new text begins with is
\* kept or cut as one command; a line that begins later in it has come to its
\* end, for the recv began before it.
LEMMA RecvWholeLine ==
    ASSUME TypeInv, LineInv, WholeInv, NEW s \in Socks, NEW n \in 1..ReadSize, Recv(s, n),
           Proper(s)', NEW a \in 1..read'[s], NEW b \in 1..Len(Stream[s]), IsLine(s, a, b),
           CutFairly(s, a, b)'
    PROVE  Whole(s, a, b)'
<1> DEFINE q == NewText(s, n)
           d == read[s] - Len(Kept(s))
           m == read[s]
           K == Kept(s)
           L == Len(q)
<1>1. /\ n \in Nat \ {0} /\ arr_msg = <<>> /\ serving' = s /\ entry' = entry /\ handled' = handled
      /\ m + n <= Len(Stream[s]) /\ read'[s] = m + n
      /\ reads'[s] = reads[s] \cup {<<m + 1, m + n>>}
      /\ IF Has(q, LF) THEN arr_msg' = Commands(q) /\ form'[s] = <<>> /\ buff'[s] = <<>>
         ELSE /\ arr_msg' = <<>>
              /\ IF entry[s] = "none" THEN form'[s] = q /\ buff'[s] = <<>>
                 ELSE form'[s] = <<>> /\ buff'[s] = q
  BY RecvIs
<1>2. /\ Proper(s) /\ Latest(s, q, m + n) /\ q # <<>> /\ q \in Seq({s} \X Nat)
      /\ d \in Nat /\ d + L = m + n
      /\ \A i \in 1..L : q[i] = Unit(s, d + i)
  BY ProperText
<1>3. /\ m \in Nat /\ K \in Seq(UnitsOf(s, m)) /\ Len(K) \in Nat /\ DOMAIN K = 1..Len(K)
      /\ Len(Stream[s]) \in Nat /\ DOMAIN Stream[s] = 1..Len(Stream[s])
      /\ L \in Nat /\ DOMAIN q = 1..L
  BY <1>2, Types, StreamAssumption, LenProperties DEF TypeInv
<1>4. CrLf(s)
  BY <1>2 DEF Proper, CrLf
<1>5. /\ a <= b /\ b + 2 <= Len(Stream[s])
      /\ \A p \in a..b : Stream[s][p] = TEXT
      /\ a = 1 \/ Stream[s][a - 1] = LF
      /\ Stream[s][b + 1] = CR
  BY DEF IsLine
<1>6. a \in 1..(m + n) /\ a \in Nat /\ b \in Nat
  BY <1>1
<1>7. CutFairly(s, a, b) /\ (m + n \in a..(b - 1) => m + 1 >= a)
  <2>1. \A r \in reads[s] \cup {<<m + 1, m + n>>} : r[2] \in a..(b - 1) => r[1] >= a
    BY <1>1 DEF CutFairly
  <2> DEFINE N == <<m + 1, m + n>>
  <2>2. N[1] = m + 1 /\ N[2] = m + n /\ N \in reads[s] \cup {N}
    OBVIOUS
  <2> HIDE DEF N
  <2>3. N[2] \in a..(b - 1) => N[1] >= a
    BY <2>1, <2>2 DEF N
  <2> QED BY <2>1, <2>2, <2>3 DEF CutFairly
<1>8. \A i \in 1..Len(K) : K[i] = Unit(s, d + i)
  BY <1>2, <1>3 DEF LineInv, Latest
<1>9. ~Has(K, LF)
  BY DEF TypeInv, KeptInv
<1>10. Has(q, LF) => arr_msg' = Commands(q)
  BY <1>1
<1>11. ~Has(q, LF) => Kept(s)' = q
  BY <1>1 DEF Kept
<1>12. m = d + Len(K)
  BY <1>3
<1>13. Stretch(s, q, d)
  BY <1>1, <1>2 DEF Stretch
<1> HIDE DEF q, d, m, K, L
<1>14. ASSUME Has(q, LF), d < a, b <= d + L PROVE Whole(s, a, b)'
  <2>1. \E k \in DOMAIN Commands(q) : Commands(q)[k] = Units(s, a, b)
    BY <1>2, <1>4, <1>6, <1>13, <1>14, LineIsCut DEF L
  <2>2. Units(s, a, b)' = Units(s, a, b)
    BY DEF Units, Unit
  <2> QED BY <1>1, <1>10, <1>14, <2>1, <2>2 DEF Whole
<1>15. CASE a = d + 1
  <2>1. q[1] = Unit(s, a)
    <3>1. 1 \in 1..L
      BY <1>1, <1>2, <1>3, <1>12
    <3> QED BY <1>2, <1>15, <3>1
  <2>2. CASE ~Has(q, LF)
    BY <1>2, <1>11, <2>1, <2>2 DEF Whole, Unit
  <2>3. CASE Has(q, LF)
    <3>1. PICK i \in 1..L : Sign(q[i]) = LF
      BY <1>3, <2>3 DEF Has
    <3>2. Stream[s][d + i] = LF /\ d + i >= a
      <4>1. Stream[s][d + i] = LF
        BY <1>2, <3>1 DEF Sign, Unit
      <4> QED BY <1>2, <1>3, <1>15, <4>1
    <3>3. ~(d + i \in a..b)
      BY <1>5, <3>2 DEF LF, TEXT
    <3>4. b <= d + L
      BY <1>2, <1>3, <1>6, <3>2, <3>3
    <3>5. d < a
      BY <1>2, <1>15
    <3> QED BY <1>14, <2>3, <3>4, <3>5
  <2> QED BY <2>2, <2>3
<1>16. CASE a # d + 1 /\ d < a
  <2>1. a > d + 1 /\ a - 1 \in 1..(m + n) /\ a # 1 /\ (a - 1) - d \in 1..L
    BY <1>1, <1>2, <1>3, <1>6, <1>16
  <2>2. Stream[s][a - 1] = LF
    BY <1>5, <2>1
  <2>3. d + ((a - 1) - d) = a - 1
    BY <1>2, <1>6
  <2>4. Has(q, LF)
    <3>1. q[(a - 1) - d] = Unit(s, a - 1)
      BY <1>2, <2>1, <2>3
    <3> QED BY <1>3, <2>1, <2>2, <3>1 DEF Has, Sign, Unit
  <2>5. a - 1 > m
    <3> SUFFICES ASSUME ~(a - 1 > m) PROVE FALSE
      OBVIOUS
    <3>1. (a - 1) - d \in 1..Len(K)
      BY <1>2, <1>3, <1>6, <1>12, <2>1
    <3>2. K[(a - 1) - d] = Unit(s, a - 1)
      BY <1>8, <2>3, <3>1
    <3> QED BY <1>3, <1>9, <2>2, <3>1, <3>2 DEF Has, Sign, Unit
  <2>6. b <= d + L
    BY <1>1, <1>2, <1>3, <1>6, <1>7, <2>5
  <2> QED BY <1>14, <1>16, <2>4, <2>6
<1>17. CASE ~(d < a)
  <2>1. a \in 1..m
    BY <1>2, <1>3, <1>6, <1>12, <1>17
  <2>2. Whole(s, a, b)
    BY <1>2, <1>7, <2>1 DEF WholeInv, Whole, m
  <2>3. CASE \E k \in DOMAIN handled[s] : handled[s][k] = Units(s, a, b)
    <3>1. Units(s, a, b)' = Units(s, a, b)
      BY DEF Units, Unit
    <3> QED BY <1>1, <2>3, <3>1 DEF Whole
  <2>4. CASE K # <<>> /\ K[1] = Unit(s, a)
    <3>1. 1 \in 1..Len(K)
      BY <1>3, <2>4, EmptySeq
    <3>2. Unit(s, d + 1) = Unit(s, a)
      BY <1>8, <2>4, <3>1
    <3> QED BY <1>2, <1>6, <1>17, <3>2 DEF Unit
  <2>5. ~(\E k \in DOMAIN arr_msg : arr_msg[k] = Units(s, a, b))
    BY <1>1
  <2> QED BY <2>2, <2>3, <2>4, <2>5 DEF Whole, K
<1> QED BY <1>15, <1>16, <1>17

LEMMA RecvWhole ==
    ASSUME TypeInv, LineInv, WholeInv, NEW s \in Socks, NEW n \in 1..ReadSize, Recv(s, n)
    PROVE  WholeInv'
<1> SUFFICES ASSUME NEW t \in Socks, Proper(t)', NEW a \in 1..read'[t], NEW b \in 1..Len(Stream[t]),
                    IsLine(t, a, b), CutFairly(t, a, b)'
             PROVE  Whole(t, a, b)'
  BY DEF WholeInv, IsLine
<1>1. CASE t = s
  BY <1>1, RecvWholeLine
<1>2. CASE t # s
  <2>1. /\ arr_msg = <<>> /\ serving' = s /\ entry' = entry /\ handled' = handled
        /\ read'[t] = read[t] /\ reads'[t] = reads[t]
        /\ form'[t] = form[t] /\ buff'[t] = buff[t]
    BY <1>2, RecvIs
  <2>2. Proper(t) /\ CutFairly(t, a, b) /\ a \in 1..read[t]
    BY <2>1 DEF Proper, CutFairly, TooLong
  <2>3. Whole(t, a, b)
    BY <2>2 DEF WholeInv
  <2>4. Kept(t)' = Kept(t)
    BY <2>1 DEF Kept
  <2>5. ~(\E k \in DOMAIN arr_msg : arr_msg[k] = Units(t, a, b))
    BY <2>1
  <2> QED BY <2>1, <2>3, <2>4, <2>5 DEF Whole, Units, Unit
<1> QED BY <1>1, <1>2

\* A line that is a command stays one when it is handled.
LEMMA HandleWhole == ASSUME TypeInv, WholeInv, Handle PROVE WholeInv'
<1> SUFFICES ASSUME NEW t \in Socks, Proper(t)', NEW a \in 1..read'[t], NEW b \in 1..Len(Stream[t]),
                    IsLine(t, a, b), CutFairly(t, a, b)'
             PROVE  Whole(t, a, b)'
  BY DEF WholeInv, IsLine
<1>1. /\ serving \in Socks /\ serving' = serving /\ read' = read /\ reads' = reads
      /\ arr_msg # <<>> /\ arr_msg' = Tail(arr_msg)
      /\ handled'[serving] = Append(handled[serving], Head(arr_msg))
      /\ form[serving] = <<>> /\ buff[serving] = <<>> /\ form'[serving] = <<>> /\ buff'[serving] = <<>>
      /\ \A x \in Socks \ {serving} : /\ entry'[x] = entry[x] /\ handled'[x] = handled[x]
                                      /\ form'[x] = form[x] /\ buff'[x] = buff[x]
  BY HandleIs
<1>2. Proper(t) /\ CutFairly(t, a, b) /\ a \in 1..read[t]
  BY <1>1 DEF Proper, CutFairly
<1>3. Whole(t, a, b)
  BY <1>2 DEF WholeInv
<1>4. Kept(t)' = Kept(t)
  BY <1>1 DEF Kept
<1> DEFINE line == Units(t, a, b)
<1>5. line' = line /\ Unit(t, a)' = Unit(t, a)
  BY DEF Units, Unit
<1> HIDE DEF line
<1>6. CASE t # serving
  BY <1>1, <1>3, <1>4, <1>5, <1>6 DEF Whole, line
<1>7. CASE t = serving
  <2> DEFINE A == handled[t]
             B == arr_msg
             U == Seq(UnitsOf(t, read[t]))
  <2>1. A \in Seq(U) /\ B \in Seq(U) /\ B # <<>>
    BY <1>1, <1>7, Types DEF TypeInv
  <2>2. handled'[t] = Append(A, Head(B)) /\ arr_msg' = Tail(B) /\ serving' = t
    BY <1>1, <1>7
  <2>3. (\E k \in DOMAIN A : A[k] = line) \/ \E k \in DOMAIN B : B[k] = line
    <3>1. Kept(t) = <<>>
      BY <1>1, <1>7 DEF Kept
    <3> QED BY <1>3, <3>1 DEF Whole, line
  <2> HIDE DEF A, B, U
  <2>4. /\ \A k \in DOMAIN A : k \in DOMAIN Append(A, Head(B)) /\ Append(A, Head(B))[k] = A[k]
        /\ Len(A) + 1 \in DOMAIN Append(A, Head(B)) /\ Append(A, Head(B))[Len(A) + 1] = B[1]
        /\ \A k \in DOMAIN B : k # 1 => k - 1 \in DOMAIN Tail(B) /\ Tail(B)[k - 1] = B[k]
    BY <2>1, HeadAppended
  <2>5. \/ \E k \in DOMAIN Append(A, Head(B)) : Append(A, Head(B))[k] = line
        \/ \E k \in DOMAIN Tail(B) : Tail(B)[k] = line
    BY <2>3, <2>4
  <2>6. \/ \E k \in DOMAIN handled'[t] : handled'[t][k] = line
        \/ \E k \in DOMAIN arr_msg' : arr_msg'[k] = line
    BY <2>2, <2>5
  <2> QED BY <1>5, <2>2, <2>6 DEF Whole, line
<1> QED BY <1>6, <1>7

LEMMA WholeInvariant == Spec => []WholeInv
<1>1. Init => WholeInv
  <2> SUFFICES ASSUME Init, NEW s \in Socks, NEW a \in 1..read[s] PROVE FALSE
    BY DEF WholeInv
  <2> QED BY DEF Init
<1>2. TypeInv /\ LineInv /\ WholeInv /\ [Next]_vars => WholeInv'
  <2> SUFFICES ASSUME TypeInv, LineInv, WholeInv, [Next]_vars PROVE WholeInv'
    OBVIOUS
  <2>1. ASSUME NEW s \in Socks, NEW n \in 1..ReadSize, Recv(s, n) PROVE WholeInv'
    BY <2>1, RecvWhole
  <2>2. CASE Handle
    BY <2>2, HandleWhole
  <2>3. CASE UNCHANGED vars
    <3> SUFFICES ASSUME NEW t \in Socks, Proper(t)', NEW a \in 1..read'[t], NEW b \in 1..Len(Stream[t]),
                        IsLine(t, a, b), CutFairly(t, a, b)'
                 PROVE  Whole(t, a, b)'
      BY DEF WholeInv, IsLine
    <3>1. Proper(t) /\ CutFairly(t, a, b) /\ a \in 1..read[t]
      BY <2>3 DEF vars, Proper, CutFairly
    <3>2. Whole(t, a, b)
      BY <3>1 DEF WholeInv
    <3> QED BY <2>3, <3>2 DEF vars, Whole, Kept, Units, Unit
  <2> QED BY <2>1, <2>2, <2>3 DEF Next
<1> QED BY <1>1, <1>2, TypeInvariant, LineInvariant, PTL DEF Spec

\* A line that has come may have been cut by any number of recvs and is one
\* command, as long as none of those that end in the line began before it.
THEOREM UncutLinesStayWhole == Spec => []UncutLinesAreWhole
<1>1. TypeInv /\ LineInv /\ WholeInv => UncutLinesAreWhole
  <2> SUFFICES ASSUME TypeInv, LineInv, WholeInv, NEW s \in Socks, Proper(s), arr_msg = <<>>,
                      NEW a \in 1..read[s], NEW b \in 1..read[s],
                      IsLine(s, a, b), CutFairly(s, a, b), b + 2 <= read[s]
               PROVE  \E k \in DOMAIN handled[s] : handled[s][k] = Units(s, a, b)
    BY DEF UncutLinesAreWhole
  <2> DEFINE K == Kept(s)
             m == read[s]
             d == m - Len(K)
  <2>1. /\ m \in Nat /\ K \in Seq(UnitsOf(s, m)) /\ Len(K) \in Nat /\ DOMAIN K = 1..Len(K)
        /\ m <= Len(Stream[s]) /\ Len(Stream[s]) \in Nat
    BY Types, LenProperties DEF TypeInv
  <2>2. \A i \in 1..Len(K) : K[i] = Unit(s, d + i)
    BY <2>1 DEF LineInv, Latest
  <2>3. Whole(s, a, b)
    BY <2>1 DEF WholeInv
  <2>4. ~(K # <<>> /\ K[1] = Unit(s, a))
    <3> SUFFICES ASSUME K # <<>>, K[1] = Unit(s, a) PROVE FALSE
      OBVIOUS
    <3>1. 1 \in 1..Len(K)
      BY <2>1, EmptySeq
    <3> DEFINE i == (b + 2) - d
    <3>2. d + 1 = a
      BY <2>2, <3>1 DEF Unit
    <3>3. i \in 1..Len(K) /\ d + i = b + 2
      <4>1. a <= b
        BY DEF IsLine
      <4> HIDE DEF K
      <4> QED BY <2>1, <3>2, <4>1
    <3> HIDE DEF i, d, K
    <3>4. K[i] = Unit(s, b + 2)
      BY <2>2, <3>3
    <3>5. Sign(K[i]) = LF
      BY <3>4 DEF Sign, Unit, IsLine
    <3>6. Has(K, LF)
      BY <2>1, <3>3, <3>5 DEF Has
    <3> QED BY <3>6 DEF TypeInv, KeptInv, K
  <2>5. ~(\E k \in DOMAIN arr_msg : arr_msg[k] = Units(s, a, b))
    OBVIOUS
  <2> QED BY <2>3, <2>4, <2>5 DEF Whole
<1> QED BY <1>1, TypeInvariant, LineInvariant, WholeInvariant, PTL
=============================================================================
