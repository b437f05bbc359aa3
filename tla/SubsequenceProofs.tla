------------------------- MODULE SubsequenceProofs -------------------------
(***************************************************************************)
(* What a part of a sequence contains, and what joining and cutting         *)
(* sequences does to the set of their elements.                             *)
(***************************************************************************)
EXTENDS Subsequences, FiniteSetTheorems, WellFoundedInduction, TLAPS

\* A set of positions is finite.
LEMMA Positions ==
  ASSUME NEW n \in Nat, NEW D \in SUBSET (1..n)
  PROVE  IsFiniteSet(D) /\ Cardinality(D) \in 0..n
<1>1. IsFiniteSet(1..n) /\ Cardinality(1..n) = n
  BY FS_Interval
<1>2. IsFiniteSet(D) /\ Cardinality(D) <= Cardinality(1..n)
  BY <1>1, FS_Subset
<1>3. Cardinality(D) \in Nat
  BY <1>2, FS_CardinalityType
<1> QED
  BY <1>1, <1>2, <1>3

\* The rank of a position is a number from one to the number of positions.
LEMMA RankType ==
  ASSUME NEW n \in Nat, NEW D \in SUBSET (1..n), NEW i \in D
  PROVE  Rank(D, i) \in 1..Cardinality(D)
<1> DEFINE R == {j \in D : j <= i}
<1>1. IsFiniteSet(D) /\ Cardinality(D) \in Nat
  BY Positions
<1>2. R \in SUBSET D /\ i \in R
  OBVIOUS
<1>3. IsFiniteSet(R) /\ Cardinality(R) <= Cardinality(D) /\ Cardinality(R) \in Nat
  BY <1>1, <1>2, FS_Subset, FS_CardinalityType
<1>4. Cardinality(R) # 0
  BY <1>2, <1>3, FS_EmptySet
<1> QED
  BY <1>1, <1>3, <1>4 DEF Rank

\* It grows with the position.
LEMMA RankGrows ==
  ASSUME NEW n \in Nat, NEW D \in SUBSET (1..n), NEW i \in D, NEW j \in D, i < j
  PROVE  Rank(D, i) < Rank(D, j)
<1> DEFINE R == {k \in D : k <= i}
           S == {k \in D : k <= j}
<1>1. S \in SUBSET (1..n) /\ R \in SUBSET (1..n)
  OBVIOUS
<1>2. R \in SUBSET S /\ j \in S /\ j \notin R
  <2>1. \A k \in D : k \in Int
    OBVIOUS
  <2>2. i \in Int /\ j \in Int /\ ~(j <= i) /\ j <= j
    BY <2>1
  <2>3. \A k \in D : k <= i => k <= j
    BY <2>1, <2>2
  <2> QED
    BY <2>2, <2>3, Zenon
<1>3. IsFiniteSet(S) /\ IsFiniteSet(R) /\ Cardinality(S) \in Nat /\ Cardinality(R) \in Nat
  BY <1>1, Positions
<1>4. Cardinality(R) <= Cardinality(S) /\ (Cardinality(S) = Cardinality(R) => S = R)
  BY <1>2, <1>3, FS_Subset
<1> QED
  BY <1>2, <1>3, <1>4 DEF Rank

\* A later position has a higher rank, so ranks tell positions apart.
LEMMA RankInjective ==
  ASSUME NEW n \in Nat, NEW D \in SUBSET (1..n), NEW i \in D, NEW j \in D,
         Rank(D, i) = Rank(D, j)
  PROVE  i = j
<1>1. Rank(D, i) \in Int /\ Rank(D, j) \in Int
  <2>1. Rank(D, i) \in 1..Cardinality(D) /\ Rank(D, j) \in 1..Cardinality(D)
    BY RankType
  <2> QED
    BY <2>1
<1>2. i < j => Rank(D, i) < Rank(D, j)
  BY RankGrows
<1>3. j < i => Rank(D, j) < Rank(D, i)
  BY RankGrows
<1>4. i \in Int /\ j \in Int
  OBVIOUS
<1> QED
  BY <1>1, <1>2, <1>3, <1>4

\* The k-th position exists, for every k up to the number of positions.
LEMMA NthType ==
  ASSUME NEW n \in Nat, NEW D \in SUBSET (1..n), NEW k \in 1..Cardinality(D)
  PROVE  Nth(D, k) \in D /\ Rank(D, Nth(D, k)) = k
<1> DEFINE f == [i \in D |-> Rank(D, i)]
           T == 1..Cardinality(D)
<1>1. IsFiniteSet(D) /\ Cardinality(D) \in Nat
  BY Positions
<1>2. IsFiniteSet(T) /\ Cardinality(T) = Cardinality(D)
  BY <1>1, FS_Interval
<1>3. f \in [D -> T]
  BY RankType
<1>4. \A i, j \in D : Rank(D, i) = Rank(D, j) => i = j
  BY RankInjective
<1>5. f \in Injection(D, T)
  BY <1>3, <1>4 DEF Injection, IsInjective
<1>6. f \in Surjection(D, T)
  BY <1>2, <1>5, FS_Injection
<1>7. \E i \in D : Rank(D, i) = k
  BY <1>6 DEF Surjection
<1> QED
  BY <1>7 DEF Nth

\* What Pick keeps: the elements at the positions, as many as there are.
LEMMA PickProperties ==
  ASSUME NEW S, NEW seq \in Seq(S), NEW D \in SUBSET (1..Len(seq))
  PROVE  /\ Pick(seq, D) \in Seq({seq[i] : i \in D})
         /\ Pick(seq, D) \in Seq(S)
         /\ Len(Pick(seq, D)) = Cardinality(D)
         /\ Cardinality(D) \in 0..Len(seq)
         /\ Range(Pick(seq, D)) = {seq[i] : i \in D}
<1>1. Len(seq) \in Nat /\ seq \in [1..Len(seq) -> S]
  OBVIOUS
<1>2. IsFiniteSet(D) /\ Cardinality(D) \in Nat /\ Cardinality(D) <= Len(seq)
  BY <1>1, Positions
<1> DEFINE m == Cardinality(D)
           p == Pick(seq, D)
<1>3. \A k \in 1..m : Nth(D, k) \in D /\ p[k] = seq[Nth(D, k)]
  BY <1>1, NthType DEF Pick
<1>4. p \in [1..m -> {seq[i] : i \in D}]
  BY <1>3 DEF Pick
<1>5. p \in Seq({seq[i] : i \in D}) /\ Len(p) = m /\ DOMAIN p = 1..m
  BY <1>2, <1>4, SMTT(30) DEF Pick
<1>6. p \in Seq(S)
  <2>1. \A i \in D : seq[i] \in S
    BY <1>1
  <2>2. p \in [1..m -> S]
    BY <1>4, <2>1
  <2> QED
    BY <1>2, <2>2
<1>7. \A i \in D : \E k \in 1..m : p[k] = seq[i]
  <2> SUFFICES ASSUME NEW i \in D PROVE \E k \in 1..m : p[k] = seq[i]
    OBVIOUS
  <2>1. Rank(D, i) \in 1..m
    BY <1>1, RankType
  <2>2. Nth(D, Rank(D, i)) \in D /\ Rank(D, Nth(D, Rank(D, i))) = Rank(D, i)
    BY <1>1, <2>1, NthType
  <2>3. Nth(D, Rank(D, i)) = i
    BY <1>1, <2>2, RankInjective
  <2> QED
    BY <1>3, <2>1, <2>3
<1>8. Range(p) = {seq[i] : i \in D}
  BY <1>4, <1>5, <1>7 DEF Range
<1> QED
  BY <1>2, <1>5, <1>6, <1>8

\* Every place of the part has a place of its own in the whole.
LEMMA PickPlaces ==
  ASSUME NEW S, NEW seq \in Seq(S), NEW D \in SUBSET (1..Len(seq))
  PROVE  \A k, l \in 1..Cardinality(D) :
            /\ Nth(D, k) \in D /\ Nth(D, l) \in D
            /\ Pick(seq, D)[k] = seq[Nth(D, k)] /\ Pick(seq, D)[l] = seq[Nth(D, l)]
            /\ Nth(D, k) = Nth(D, l) => k = l
<1>1. PICK n \in Nat : n = Len(seq)
  OBVIOUS
<1>2. \A k \in 1..Cardinality(D) : Nth(D, k) \in D /\ Rank(D, Nth(D, k)) = k
  <2>1. D \in SUBSET (1..n)
    BY <1>1
  <2> QED
    BY <2>1, NthType, Zenon
<1> QED
  BY <1>2, Zenon DEF Pick

---------------------------------------------------------------------------
\* Joining two sequences joins their elements.
LEMMA JoinProperties ==
  ASSUME NEW S, NEW s \in Seq(S), NEW t \in Seq(S)
  PROVE  s \o t \in Seq(S) /\ Range(s \o t) = Range(s) \cup Range(t)
<1> DEFINE j == s \o t
<1>1. /\ j \in Seq(S) /\ Len(j) = Len(s) + Len(t) /\ Len(s) \in Nat /\ Len(t) \in Nat
      /\ DOMAIN j = 1..(Len(s) + Len(t)) /\ DOMAIN s = 1..Len(s) /\ DOMAIN t = 1..Len(t)
      /\ \A i \in 1..(Len(s) + Len(t)) : j[i] = IF i <= Len(s) THEN s[i] ELSE t[i - Len(s)]
  OBVIOUS
<1> HIDE DEF j
<1>2. ASSUME NEW i \in 1..(Len(s) + Len(t))
      PROVE  j[i] \in Range(s) \cup Range(t)
  <2>1. CASE i <= Len(s)
    BY <1>1, <2>1, SMTT(30) DEF Range
  <2>2. CASE ~(i <= Len(s))
    <3>1. i - Len(s) \in DOMAIN t /\ j[i] = t[i - Len(s)]
      BY <1>1, <2>2
    <3> QED
      BY <3>1 DEF Range
  <2> QED
    BY <2>1, <2>2
<1>3. Range(s) \subseteq Range(j)
  BY <1>1 DEF Range
<1>4. ASSUME NEW i \in 1..Len(t)
      PROVE  t[i] \in Range(j)
  <2>1. Len(s) + i \in DOMAIN j /\ j[Len(s) + i] = t[i]
    BY <1>1, SMTT(30)
  <2> QED
    BY <2>1 DEF Range
<1>5. Range(t) \subseteq Range(j)
  BY <1>1, <1>4 DEF Range
<1>6. Range(j) \subseteq Range(s) \cup Range(t)
  BY <1>1, <1>2, Zenon DEF Range
<1> QED
  BY <1>1, <1>3, <1>5, <1>6 DEF j

\* Adding a last element.
LEMMA AppendElements ==
  ASSUME NEW S, NEW s \in Seq(S), NEW e \in S
  PROVE  Append(s, e) \in Seq(S) /\ Range(Append(s, e)) = Range(s) \cup {e}
<1> DEFINE a == Append(s, e)
<1>1. /\ a \in Seq(S) /\ Len(s) \in Nat /\ DOMAIN s = 1..Len(s) /\ DOMAIN a = 1..(Len(s) + 1)
      /\ a[Len(s) + 1] = e /\ \A i \in 1..Len(s) : a[i] = s[i]
  OBVIOUS
<1> HIDE DEF a
<1>2. Range(s) \subseteq Range(a) /\ e \in Range(a)
  BY <1>1 DEF Range
<1>3. ASSUME NEW i \in DOMAIN a
      PROVE  a[i] \in Range(s) \cup {e}
  <2>1. i = Len(s) + 1 \/ i \in 1..Len(s)
    BY <1>1
  <2> QED
    BY <1>1, <2>1 DEF Range
<1>4. Range(a) \subseteq Range(s) \cup {e}
  BY <1>3, Zenon DEF Range
<1> QED
  BY <1>1, <1>2, <1>4 DEF a

\* Taking the first element, and sequences of one element or none.
LEMMA EndsProperties ==
  ASSUME NEW S, NEW s \in Seq(S)
  PROVE  /\ s # <<>> => /\ Head(s) \in S /\ Tail(s) \in Seq(S)
                        /\ Range(s) = {Head(s)} \cup Range(Tail(s))
         /\ \A e \in S : <<e>> \in Seq(S) /\ Range(<<e>>) = {e}
         /\ Range(s) \subseteq S
         /\ Range(<<>>) = {} /\ <<>> \in Seq(S)
         /\ Range(s) = {} => s = <<>>
<1>1. Len(s) \in Nat /\ DOMAIN s = 1..Len(s) /\ s \in [1..Len(s) -> S]
  OBVIOUS
<1>2. ASSUME s # <<>>
      PROVE  /\ Head(s) \in S /\ Tail(s) \in Seq(S)
             /\ Range(s) = {Head(s)} \cup Range(Tail(s))
  <2> DEFINE t == Tail(s)
  <2>1. /\ t \in Seq(S) /\ Len(t) = Len(s) - 1 /\ DOMAIN t = 1..(Len(s) - 1)
        /\ \A i \in 1..(Len(s) - 1) : t[i] = s[i + 1]
        /\ Len(s) # 0 /\ Head(s) = s[1] /\ Head(s) \in S
    BY <1>2
  <2> HIDE DEF t
  <2>2. Range(t) \subseteq Range(s)
    BY <1>1, <2>1, SMTT(30) DEF Range
  <2>3. ASSUME NEW i \in 1..Len(s), i # 1
        PROVE  s[i] \in Range(t)
    <3>1. i - 1 \in 1..(Len(s) - 1) /\ t[i - 1] = s[i]
      BY <1>1, <2>1, <2>3
    <3> QED
      BY <2>1, <3>1 DEF Range
  <2>4. Head(s) \in Range(s)
    BY <1>1, <2>1 DEF Range
  <2>5. Range(s) \subseteq {Head(s)} \cup Range(t)
    BY <1>1, <2>1, <2>3 DEF Range
  <2> QED
    BY <2>1, <2>2, <2>4, <2>5 DEF t
<1>3. \A e \in S : <<e>> \in Seq(S) /\ Range(<<e>>) = {e}
  BY DEF Range
<1>4. Range(s) \subseteq S
  BY <1>1 DEF Range
<1>5. Range(<<>>) = {} /\ <<>> \in Seq(S)
  BY DEF Range
<1>6. ASSUME s # <<>>
      PROVE  Range(s) # {}
  <2>1. 1 \in DOMAIN s
    BY <1>1, <1>6
  <2> QED
    BY <2>1 DEF Range
<1> QED
  BY <1>2, <1>3, <1>4, <1>5, <1>6

\* Cutting a sequence in two.
LEMMA CutProperties ==
  ASSUME NEW S, NEW s \in Seq(S), NEW k \in 0..Len(s)
  PROVE  /\ SubSeq(s, 1, k) \in Seq(S) /\ SubSeq(s, k + 1, Len(s)) \in Seq(S)
         /\ Range(s) = Range(SubSeq(s, 1, k)) \cup Range(SubSeq(s, k + 1, Len(s)))
<1> DEFINE a == SubSeq(s, 1, k)
           b == SubSeq(s, k + 1, Len(s))
<1>1. /\ Len(s) \in Nat /\ DOMAIN s = 1..Len(s)
      /\ a \in Seq(S) /\ DOMAIN a = 1..k /\ \A i \in 1..k : a[i] = s[i]
  OBVIOUS
<1>2. /\ b \in Seq(S) /\ DOMAIN b = 1..(Len(s) - k)
      /\ \A i \in 1..(Len(s) - k) : b[i] = s[i + k]
  BY <1>1
<1> HIDE DEF a, b
<1>3. Range(a) \subseteq Range(s)
  BY <1>1 DEF Range
<1>4. ASSUME NEW i \in 1..(Len(s) - k)
      PROVE  b[i] \in Range(s)
  <2>1. i + k \in DOMAIN s /\ b[i] = s[i + k]
    BY <1>1, <1>2
  <2> QED
    BY <2>1 DEF Range
<1>5. ASSUME NEW i \in 1..Len(s)
      PROVE  s[i] \in Range(a) \cup Range(b)
  <2>1. CASE i <= k
    BY <1>1, <2>1 DEF Range
  <2>2. CASE ~(i <= k)
    <3>1. i - k \in DOMAIN b /\ b[i - k] = s[i]
      BY <1>1, <1>2, <2>2
    <3> QED
      BY <3>1 DEF Range
  <2> QED
    BY <2>1, <2>2
<1>6. Range(s) = Range(a) \cup Range(b)
  BY <1>1, <1>2, <1>3, <1>4, <1>5, ZenonT(60) DEF Range
<1> QED
  BY <1>1, <1>2, <1>6 DEF a, b

---------------------------------------------------------------------------
\* A non-empty set of numbers has a least element, and a bounded one a greatest.
LEMMA Extremes ==
  ASSUME NEW n \in Nat, NEW S \in SUBSET (0..n), S # {}
  PROVE  /\ Max(S) \in S /\ \A x \in S : x <= Max(S)
         /\ Min(S) \in S /\ \A x \in S : Min(S) <= x
<1>0. IsWellFoundedOn(OpToRel(<, Nat), Nat)
  BY NatLessThanWellFounded
<1>1. PICK lo \in S : \A x \in S : lo <= x
  <2>1. S \subseteq Nat
    OBVIOUS
  <2>2. PICK lo \in S : \A x \in S : <<x, lo>> \notin OpToRel(<, Nat)
    BY <1>0, <2>1, WFMin
  <2>3. ASSUME NEW x \in S
        PROVE  lo <= x
    <3>1. x \in Nat /\ lo \in Nat
      BY <2>1
    <3>2. ~(x < lo)
      BY <2>2, <3>1 DEF OpToRel
    <3> QED
      BY <3>1, <3>2
  <2> QED
    BY <2>3
<1>2. PICK hi \in S : \A x \in S : x <= hi
  <2> DEFINE T == {n - x : x \in S}
  <2>0. \A x \in S : x \in 0..n
    BY Zenon
  <2>1. T \subseteq Nat /\ T # {}
    <3>1. ASSUME NEW x \in S
          PROVE  n - x \in Nat
      <4>1. x \in 0..n
        BY <2>0, Zenon
      <4> QED
        BY <4>1, SMTT(30)
    <3> QED
      BY <3>1, ZenonT(30)
  <2>2. PICK t \in T : \A y \in T : <<y, t>> \notin OpToRel(<, Nat)
    BY <1>0, <2>1, WFMin
  <2>3. PICK hi \in S : t = n - hi
    OBVIOUS
  <2>4. ASSUME NEW x \in S
        PROVE  x <= hi
    <3>1. n - x \in T /\ n - x \in Nat /\ t \in Nat
      BY <2>1
    <3>2. ~(n - x < t)
      BY <2>2, <3>1 DEF OpToRel
    <3> QED
      BY <2>3, <3>2
  <2> QED
    BY <2>4
<1>3. \A x \in S : x \in Int
  OBVIOUS
<1>4. Max(S) \in S /\ \A x \in S : Max(S) >= x
  <2>1. \E h \in S : \A x \in S : h >= x
    BY <1>2, <1>3
  <2> QED
    BY <2>1, Zenon DEF Max
<1>5. Min(S) \in S /\ \A x \in S : Min(S) <= x
  BY <1>1, Zenon DEF Min
<1> QED
  BY <1>3, <1>4, <1>5
=============================================================================
