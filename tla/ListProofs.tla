------------------------------ MODULE ListProofs ------------------------------
(***************************************************************************)
(* Lemmas about lists after removals (Lists), for lists of any length.     *)
(***************************************************************************)
EXTENDS Lists, SequencesExt, FiniteSetTheorems, SequenceTheorems, TLAPS

(* The positions of a list that a removal keeps, and how many of them come  *)
(* up to a position.                                                        *)
Kept(list, gone) == {i \in 1 .. Len(list) : list[i] \notin gone}

RankIn(kept, i) == Cardinality({m \in kept : m <= i})

(* The kept positions are counted through without a gap and in order.       *)
LEMMA RankFacts ==
  ASSUME NEW N \in Nat, NEW kept \in SUBSET (1 .. N)
  PROVE  /\ IsFiniteSet(kept) /\ Cardinality(kept) \in Nat
         /\ \A i \in kept : RankIn(kept, i) \in 1 .. Cardinality(kept)
         /\ \A i \in kept : RankIn(kept, i) <= i
         /\ \A i, j \in kept : i < j => RankIn(kept, i) < RankIn(kept, j)
         /\ \A n \in 1 .. Cardinality(kept) : \E i \in kept : RankIn(kept, i) = n
<1>0. \A m \in kept : m \in Nat /\ m >= 1
  OBVIOUS
<1>1. IsFiniteSet(kept) /\ Cardinality(kept) \in Nat
  <2>1. IsFiniteSet(1 .. N)
    BY FS_Interval
  <2> QED
    BY <2>1, FS_Subset, FS_CardinalityType
<1>2. ASSUME NEW i \in kept
      PROVE  /\ IsFiniteSet({m \in kept : m <= i})
             /\ RankIn(kept, i) \in 1 .. Cardinality(kept)
             /\ RankIn(kept, i) <= i
  <2> DEFINE U == {m \in kept : m <= i}
  <2>1. IsFiniteSet(U) /\ Cardinality(U) <= Cardinality(kept)
        /\ Cardinality(U) \in Nat
    BY <1>1, FS_Subset, FS_CardinalityType
  <2>2. i \in U /\ i \in Nat
    OBVIOUS
  <2>3. Cardinality(U) # 0
    BY <2>1, <2>2, FS_EmptySet
  <2>4. Cardinality(U) <= i
    <3>1. IsFiniteSet(1 .. i) /\ Cardinality(1 .. i) = i
      BY <2>2, FS_Interval
    <3>2. \A m \in U : m \in 1 .. i
      BY <1>0, <2>2
    <3>3. U \in SUBSET (1 .. i)
      BY <3>2
    <3> QED
      BY <3>1, <3>3, FS_Subset
  <2> QED
    BY <1>1, <2>1, <2>3, <2>4 DEF RankIn
<1>3. ASSUME NEW i \in kept, NEW j \in kept, i < j
      PROVE  RankIn(kept, i) < RankIn(kept, j)
  <2> DEFINE U == {m \in kept : m <= i}
             V == {m \in kept : m <= j}
  <2>1. U \in SUBSET V /\ j \in V /\ j \notin U
    <3>1. \A m \in U : m \in V
      BY <1>0, <1>3
    <3>2. j \in V /\ j \notin U
      BY <1>0, <1>3
    <3> QED
      BY <3>1, <3>2
  <2>2. IsFiniteSet(V) /\ IsFiniteSet(U)
    BY <1>2
  <2>3. Cardinality(U) <= Cardinality(V) /\ Cardinality(U) # Cardinality(V)
    BY <2>1, <2>2, FS_Subset
  <2>4. Cardinality(U) \in Nat /\ Cardinality(V) \in Nat
    BY <2>2, FS_CardinalityType
  <2> QED
    BY <2>3, <2>4 DEF RankIn
<1>4. ASSUME NEW n \in 1 .. Cardinality(kept)
      PROVE  \E i \in kept : RankIn(kept, i) = n
  <2> DEFINE T == 1 .. Cardinality(kept)
             f == [i \in kept |-> RankIn(kept, i)]
  <2>1. f \in [kept -> T]
    BY <1>2
  <2>2. \A i, j \in kept : f[i] = f[j] => i = j
    <3>1. \A i, j \in kept : i \in Nat /\ j \in Nat
      OBVIOUS
    <3>2. \A i \in kept : RankIn(kept, i) \in Nat
      <4>1. \A i \in kept : RankIn(kept, i) \in 1 .. Cardinality(kept)
        BY <1>2
      <4> QED
        BY <1>1, <4>1
    <3> QED
      BY <1>3, <3>1, <3>2
  <2>3. f \in Injection(kept, T)
    BY <2>1, <2>2 DEF Injection, IsInjective
  <2>4. IsFiniteSet(T) /\ Cardinality(T) = Cardinality(kept)
    BY <1>1, FS_Interval
  <2>5. f \in Surjection(kept, T)
    BY <2>3, <2>4, FS_Injection
  <2> QED
    BY <2>5 DEF Surjection
<1> QED
  BY <1>1, <1>2, <1>3, <1>4

(* A removal keeps the order: the n-th element was at a position f[n] that  *)
(* is no smaller, the n-th of those kept.                                   *)
Embeds(list, gone, f) ==
  LET w == Without(list, gone)
      kept == Kept(list, gone)
  IN /\ f \in [1 .. Len(w) -> kept]
     /\ \A n \in 1 .. Len(w) : w[n] = list[f[n]] /\ n <= f[n]
                               /\ RankIn(kept, f[n]) = n
     /\ \A m, n \in 1 .. Len(w) : m < n => f[m] < f[n]
     /\ \A i \in kept : \E n \in 1 .. Len(w) : f[n] = i

LEMMA WithoutEmbeds ==
  ASSUME NEW S, NEW list \in Seq(S), NEW gone
  PROVE  /\ Without(list, gone) \in Seq(S)
         /\ Len(Without(list, gone)) = Cardinality(Kept(list, gone))
         /\ Len(Without(list, gone)) \in Nat
         /\ \E f : Embeds(list, gone, f)
<1> DEFINE kept == Kept(list, gone)
           w == Without(list, gone)
           N == Cardinality(kept)
           f == [n \in 1 .. N |-> CHOOSE i \in kept : RankIn(kept, i) = n]
<1>1. Len(list) \in Nat /\ kept \in SUBSET (1 .. Len(list))
  BY DEF Kept
<1>2. /\ N \in Nat
      /\ \A i \in kept : RankIn(kept, i) \in 1 .. N /\ RankIn(kept, i) <= i
      /\ \A i, j \in kept : i < j => RankIn(kept, i) < RankIn(kept, j)
      /\ \A n \in 1 .. N : \E i \in kept : RankIn(kept, i) = n
  <2> HIDE DEF kept
  <2> QED
    BY <1>1, RankFacts
<1>3. w = [n \in 1 .. N |-> list[f[n]]]
  BY DEF Without, RankIn, Kept
<1>4. \A n \in 1 .. N : f[n] \in kept /\ RankIn(kept, f[n]) = n
  <2> HIDE DEF kept
  <2> QED
    BY <1>2
<1> HIDE DEF w, f, N, kept
<1>5. \A i \in kept : list[i] \in S /\ i \in Nat
  BY <1>1, ElementOfSeq
<1>6. w \in Seq(S) /\ Len(w) = N
  BY <1>2, <1>3, <1>4, <1>5
<1>7. f \in [1 .. N -> kept]
  BY <1>4 DEF f
<1>8. \A n \in 1 .. N : w[n] = list[f[n]] /\ n <= f[n] /\ RankIn(kept, f[n]) = n
  BY <1>2, <1>3, <1>4
<1>9. \A m, n \in 1 .. N : m < n => f[m] < f[n]
  <2> SUFFICES ASSUME NEW m \in 1 .. N, NEW n \in 1 .. N, m < n
               PROVE  f[m] < f[n]
    OBVIOUS
  <2>1. /\ f[m] \in kept /\ f[n] \in kept
        /\ f[m] \in Nat /\ f[n] \in Nat
        /\ RankIn(kept, f[m]) = m /\ RankIn(kept, f[n]) = n
    BY <1>4, <1>5
  <2>2. CASE f[n] < f[m]
    BY <1>2, <2>1, <2>2
  <2> QED
    BY <2>1, <2>2
<1>10. \A i \in kept : \E n \in 1 .. N : f[n] = i
  <2> SUFFICES ASSUME NEW i \in kept PROVE \E n \in 1 .. N : f[n] = i
    OBVIOUS
  <2> DEFINE n == RankIn(kept, i)
  <2>1. n \in 1 .. N
    BY <1>2
  <2>2. f[n] \in kept /\ RankIn(kept, f[n]) = RankIn(kept, i)
    BY <1>4, <2>1
  <2>3. i \in Nat /\ f[n] \in Nat
    BY <1>5, <2>2
  <2>4. ~ (f[n] < i) /\ ~ (i < f[n])
    BY <1>2, <2>2
  <2> QED
    BY <2>1, <2>3, <2>4
<1>11. Embeds(list, gone, f)
  BY <1>6, <1>7, <1>8, <1>9, <1>10 DEF Embeds, w, kept
<1> QED
  BY <1>2, <1>6, <1>11 DEF w, N, kept

(* A removal takes the elements out, and they are not listed any more.      *)
LEMMA WithoutSet ==
  ASSUME NEW S, NEW list \in Seq(S), NEW gone, NEW s
  PROVE  Contains(Without(list, gone), s) <=> Contains(list, s) /\ s \notin gone
<1> DEFINE w == Without(list, gone)
<1>1. PICK f : Embeds(list, gone, f)
  BY WithoutEmbeds
<1>2. \A n \in 1 .. Len(w) : f[n] \in 1 .. Len(list) /\ w[n] = list[f[n]]
                              /\ list[f[n]] \notin gone
  BY <1>1 DEF Embeds, Kept
<1>3. \A i \in 1 .. Len(list) : list[i] \notin gone =>
         \E n \in 1 .. Len(w) : f[n] = i
  BY <1>1 DEF Embeds, Kept
<1> HIDE DEF w
<1>4. Contains(w, s) => Contains(list, s) /\ s \notin gone
  BY <1>2 DEF Contains
<1>5. Contains(list, s) /\ s \notin gone => Contains(w, s)
  BY <1>2, <1>3 DEF Contains
<1> QED
  BY <1>4, <1>5 DEF w

-----------------------------------------------------------------------------
(* Lists that name nothing twice.                                           *)

(* A list and the set of what it lists.                                     *)
LEMMA LenIs ==
  ASSUME NEW S, NEW list \in Seq(S)
  PROVE  Len(list) \in Nat /\ DOMAIN list = 1 .. Len(list)
OBVIOUS

LEMMA RangeIn ==
  ASSUME NEW S, NEW list \in Seq(S)
  PROVE  Range(list) \in SUBSET S
<1>1. DOMAIN list = 1 .. Len(list) /\ \A i \in 1 .. Len(list) : list[i] \in S
  BY LenIs, ElementOfSeq
<1> QED
  BY <1>1 DEF Range

LEMMA RangeIs ==
  ASSUME NEW S, NEW list \in Seq(S), NEW s
  PROVE  s \in Range(list) <=> Contains(list, s)
<1>1. DOMAIN list = 1 .. Len(list)
  BY LenIs
<1> QED
  BY <1>1 DEF Range, Contains

(* A removal takes exactly the elements out.                                *)
LEMMA WithoutRange ==
  ASSUME NEW S, NEW list \in Seq(S), NEW gone
  PROVE  Range(Without(list, gone)) = Range(list) \ gone
<1>1. Without(list, gone) \in Seq(S)
  BY WithoutEmbeds
<1>2. ASSUME NEW s PROVE s \in Range(Without(list, gone)) <=> s \in Range(list) \ gone
  BY <1>1, RangeIs, WithoutSet
<1> QED
  BY <1>2

(* A removal lists nothing twice.                                           *)
LEMMA WithoutInjective ==
  ASSUME NEW S, NEW list \in Seq(S), IsInjective(list), NEW gone
  PROVE  IsInjective(Without(list, gone))
<1> DEFINE w == Without(list, gone)
<1>1. w \in Seq(S) /\ DOMAIN w = 1 .. Len(w) /\ Len(w) \in Nat
  BY WithoutEmbeds, LenIs
<1>2. PICK f : Embeds(list, gone, f)
  BY WithoutEmbeds
<1>3. /\ \A n \in 1 .. Len(w) : f[n] \in 1 .. Len(list) /\ w[n] = list[f[n]]
      /\ \A m, n \in 1 .. Len(w) : m < n => f[m] < f[n]
  BY <1>2 DEF Embeds, Kept
<1> HIDE DEF w
<1> SUFFICES ASSUME NEW m \in 1 .. Len(w), NEW n \in 1 .. Len(w), w[m] = w[n] PROVE m = n
  BY <1>1 DEF IsInjective, w
<1>4. f[m] = f[n]
  BY <1>3, LenIs DEF IsInjective
<1> QED
  BY <1>1, <1>3, <1>4

(* Such a list is as long as what it lists.                                *)
LEMMA InjectiveCard ==
  ASSUME NEW S, NEW list \in Seq(S), IsInjective(list)
  PROVE  IsFiniteSet(Range(list)) /\ Cardinality(Range(list)) = Len(list)
<1>1. Len(list) \in Nat /\ DOMAIN list = 1 .. Len(list)
  BY LenIs
<1>2. list \in Surjection(1 .. Len(list), Range(list))
  BY <1>1 DEF Surjection, Range
<1>3. list \in Injection(1 .. Len(list), Range(list))
  BY <1>1, <1>2 DEF Surjection, Injection, IsInjective
<1>4. IsFiniteSet(1 .. Len(list)) /\ Cardinality(1 .. Len(list)) = Len(list)
  BY <1>1, FS_Interval
<1> QED
  BY <1>2, <1>3, <1>4, FS_Surjection

(* One more element at the end.                                             *)
LEMMA AppendOnce ==
  ASSUME NEW S, NEW list \in Seq(S), NEW s \in S
  PROVE  /\ Append(list, s) \in Seq(S)
         /\ Range(Append(list, s)) = Range(list) \cup {s}
         /\ IsInjective(list) /\ s \notin Range(list) => IsInjective(Append(list, s))
<1> DEFINE a == Append(list, s)
           m == Len(list)
<1>1. /\ a \in Seq(S) /\ Len(a) = m + 1 /\ a[m + 1] = s
      /\ \A i \in 1 .. m : a[i] = list[i]
  BY AppendProperties
<1>2. m \in Nat /\ DOMAIN list = 1 .. m /\ DOMAIN a = 1 .. m + 1
  BY <1>1, LenIs
<1> HIDE DEF a, m
<1>3. Range(a) = Range(list) \cup {s}
  <2>1. \A i \in 1 .. m + 1 : i \in 1 .. m \/ i = m + 1
    BY <1>2
  <2>2. m + 1 \in 1 .. m + 1 /\ \A i \in 1 .. m : i \in 1 .. m + 1
    BY <1>2
  <2> QED
    BY <1>1, <1>2, <2>1, <2>2 DEF Range
<1>4. ASSUME IsInjective(list), s \notin Range(list),
             NEW i \in 1 .. m + 1, NEW j \in 1 .. m + 1, a[i] = a[j]
      PROVE  i = j
  <2>1. \A n \in 1 .. m : a[n] = list[n] /\ list[n] # s
    BY <1>1, <1>2, <1>4 DEF Range
  <2>2. /\ i \in 1 .. m \/ i = m + 1
        /\ j \in 1 .. m \/ j = m + 1
    BY <1>2
  <2>3. CASE i \in 1 .. m /\ j \in 1 .. m
    BY <1>2, <1>4, <2>1, <2>3 DEF IsInjective
  <2> QED
    BY <1>1, <1>4, <2>1, <2>2, <2>3
<1>5. IsInjective(list) /\ s \notin Range(list) => IsInjective(a)
  BY <1>2, <1>4 DEF IsInjective
<1> QED
  BY <1>1, <1>3, <1>5 DEF a

(* A removal leaves no more than there was.                                 *)
LEMMA WithoutShorter ==
  ASSUME NEW S, NEW list \in Seq(S), NEW gone
  PROVE  Len(Without(list, gone)) <= Len(list)
<1> DEFINE n == Len(Without(list, gone))
<1>1. n \in Nat /\ Len(list) \in Nat
  BY WithoutEmbeds, LenIs
<1>2. PICK f : Embeds(list, gone, f)
  BY WithoutEmbeds
<1>3. \A i \in 1 .. n : f[i] \in 1 .. Len(list) /\ i <= f[i]
  BY <1>2 DEF Embeds, Kept
<1> HIDE DEF n
<1>4. n # 0 => n \in 1 .. n
  BY <1>1
<1>5. n <= Len(list)
  BY <1>1, <1>3, <1>4
<1> QED
  BY <1>5 DEF n
=============================================================================
