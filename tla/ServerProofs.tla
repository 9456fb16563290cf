---------------------------- MODULE ServerProofs ----------------------------
(* Proofs about parts of the server: the rate limiter (RateLimit), and what   *)
(* is kept in step with other systems, that is a test and its file on git     *)
(* (GitSync), and requirements, defects and the issues of a Jira project      *)
(* (JiraSync).                                                                *)
EXTENDS RateLimit, GitSync, JiraSync, ListProofs, FiniteSetTheorems, SequenceTheorems, TLAPS

-----------------------------------------------------------------------------
(* The rate limiter, for every set of keys, every limit, window and size of   *)
(* the table.                                                                 *)

-----------------------------------------------------------------------------
(* Stamps after pruning.                                                    *)

LEMMA Shorter ==
  ASSUME NEW a \in Nat, NEW b \in Nat, NEW d \in Nat, NEW m \in Nat, b + d = a, a <= m
  PROVE  b <= m
OBVIOUS

(* r is what is left of s when its first d elements are dropped.            *)
Suffix(s, r, d) ==
  /\ d \in 0 .. Len(s) /\ Len(r) + d = Len(s)
  /\ \A i \in 1 .. Len(r) : r[i] = s[i + d]

LEMMA LimitFacts ==
  ASSUME Limits
  PROVE  /\ MaxEvents \in Nat /\ MaxEvents >= 1 /\ Window \in Nat /\ Window >= 1
         /\ Second \in Nat /\ Second >= 1 /\ MaxKeys \in Nat /\ MaxKeys >= 1
         /\ MaxTime \in Nat
BY DEF Limits

LEMMA UpTo ==
  ASSUME NEW m \in Nat
  PROVE  IsFiniteSet(1 .. m) /\ Cardinality(1 .. m) = m
BY FS_Interval

LEMMA SuffixLens ==
  ASSUME NEW s \in Seq(Nat), NEW r \in Seq(Nat), NEW d \in Nat, Suffix(s, r, d)
  PROVE  Len(s) \in Nat /\ Len(r) \in Nat /\ d <= Len(s) /\ Len(r) + d = Len(s)
BY DEF Suffix

LEMMA SuffixAt ==
  ASSUME NEW s \in Seq(Nat), NEW r \in Seq(Nat), NEW d \in Nat, Suffix(s, r, d)
  PROVE  \A p \in Int : p >= 1 /\ p <= Len(r) => r[p] = s[p + d]
<1> SUFFICES ASSUME NEW p \in Int, p >= 1, p <= Len(r) PROVE r[p] = s[p + d]
  OBVIOUS
<1>1. p \in 1 .. Len(r)
  BY SuffixLens
<1> QED
  BY <1>1 DEF Suffix

LEMMA SuffixEnd ==
  ASSUME NEW s \in Seq(Nat), NEW r \in Seq(Nat), NEW d \in Nat, Suffix(s, r, d), Len(r) >= 1
  PROVE  r[Len(r)] = s[Len(s)]
<1>1. Len(r) \in Int /\ Len(r) + d = Len(s)
  BY SuffixLens
<1>2. r[Len(r)] = s[Len(r) + d]
  BY <1>1, SuffixAt
<1> QED
  BY <1>1, <1>2

LEMMA AppendSome ==
  ASSUME NEW s \in Seq(Nat), NEW e \in Nat PROVE Append(s, e) # <<>>
<1> DEFINE m == Len(s)
<1>1. m \in Nat /\ Len(Append(s, e)) = m + 1
  BY AppendProperties, LenProperties
<1> HIDE DEF m
<1>2. Len(Append(s, e)) # 0
  BY <1>1
<1> QED
  BY <1>2

LEMMA TailEnd ==
  ASSUME NEW s \in Seq(Nat), NEW d \in Nat, d <= Len(s)
  PROVE  /\ SubSeq(s, d + 1, Len(s)) \in Seq(Nat)
         /\ Suffix(s, SubSeq(s, d + 1, Len(s)), d)
<1> DEFINE a == Len(s)
           r == SubSeq(s, d + 1, a)
<1>1. a \in Nat /\ \A i \in 1 .. a : s[i] \in Nat
  BY ElementOfSeq, LenProperties
<1>2. d \in 0 .. a /\ \A i \in d + 1 .. a : s[i] \in Nat
  <2> HIDE DEF a
  <2>1. d <= a
    BY DEF a
  <2> QED
    BY <1>1, <2>1
<1>3. /\ r \in Seq(Nat)
      /\ Len(r) = IF d + 1 <= a THEN a - (d + 1) + 1 ELSE 0
      /\ \A i \in 1 .. a - (d + 1) + 1 : r[i] = s[d + 1 + i - 1]
  <2>1. d + 1 \in Int /\ a \in Int
    BY <1>1
  <2> HIDE DEF a
  <2> QED
    BY <1>2, <2>1, SubSeqProperties
<1> HIDE DEF r
<1>4. Len(r) + d = a /\ \A i \in 1 .. Len(r) : r[i] = s[i + d]
  <2> HIDE DEF a
  <2>1. Len(r) + d = a /\ Len(r) = a - (d + 1) + 1
    BY <1>1, <1>2, <1>3
  <2>2. \A i \in 1 .. Len(r) : d + 1 + i - 1 = i + d
    BY <2>1
  <2> QED
    BY <1>3, <2>1, <2>2
<1>5. Suffix(s, r, d)
  BY <1>2, <1>4 DEF Suffix
<1> QED
  BY <1>3, <1>5 DEF r

(* Pruning drops stale stamps up to the first that is not.                  *)
Drops(s, r, d, t) ==
  /\ Suffix(s, r, d)
  /\ \A i \in 1 .. d : Stale(s[i], t)
  /\ d < Len(s) => ~ Stale(s[d + 1], t)

LEMMA PrunedIs ==
  ASSUME Limits, NEW es \in Seq(Nat), NEW t \in Int
  PROVE  /\ Pruned(es, t) \in Seq(Nat)
         /\ \E d \in Nat : Drops(es, Pruned(es, t), d, t)
<1> DEFINE passed == {i \in DOMAIN es : \A j \in 1 .. i : Stale(es[j], t)}
           d == Cardinality(passed)
<1>1. Len(es) \in Nat /\ DOMAIN es = 1 .. Len(es)
  OBVIOUS
<1>2. passed \in SUBSET (1 .. Len(es)) /\ \A i \in passed : i \in Nat /\ i >= 1
  BY <1>1
<1>3. IsFiniteSet(passed) /\ d \in Nat /\ d <= Len(es)
  <2>1. IsFiniteSet(1 .. Len(es)) /\ Cardinality(1 .. Len(es)) = Len(es)
    BY <1>1, UpTo
  <2> HIDE DEF passed
  <2> QED
    BY <1>2, <2>1, FS_Subset, FS_CardinalityType
<1>4. ASSUME NEW i \in passed PROVE i <= d
  <2>1. i \in Nat /\ i >= 1
    BY <1>2
  <2>2. IsFiniteSet(1 .. i) /\ Cardinality(1 .. i) = i
    BY <2>1, UpTo
  <2>3. \A m \in 1 .. i : m \in passed
    BY <1>1, <2>1
  <2> HIDE DEF passed
  <2>4. (1 .. i) \in SUBSET passed
    BY <2>3
  <2>5. Cardinality(1 .. i) <= Cardinality(passed)
    BY <1>3, <2>4, FS_Subset
  <2> QED
    BY <2>2, <2>5
<1>5. passed = 1 .. d
  <2>1. IsFiniteSet(1 .. d) /\ Cardinality(1 .. d) = d
    BY <1>3, UpTo
  <2> HIDE DEF passed
  <2>2. passed \in SUBSET (1 .. d)
    <3> HIDE DEF d
    <3> QED
      BY <1>2, <1>3, <1>4
  <2> QED
    BY <2>1, <2>2, FS_Subset
<1>6. \A i \in 1 .. d : Stale(es[i], t)
  <2>1. \A i \in passed : Stale(es[i], t)
    BY <1>2
  <2> HIDE DEF passed, d
  <2> QED
    BY <1>5, <2>1, Zenon
<1>7. d < Len(es) => ~ Stale(es[d + 1], t)
  <2> SUFFICES ASSUME d < Len(es), Stale(es[d + 1], t) PROVE FALSE
    OBVIOUS
  <2>1. \A j \in 1 .. d + 1 : Stale(es[j], t)
    <3> HIDE DEF d
    <3> QED
      BY <1>3, <1>6
  <2>2. d + 1 \in passed
    <3>1. d + 1 \in DOMAIN es
      BY <1>1, <1>3
    <3> QED
      BY <2>1, <3>1
  <2> HIDE DEF passed, d
  <2>3. d + 1 <= d
    BY <1>4, <2>2
  <2> QED
    BY <1>3, <2>3
<1>8. Pruned(es, t) = SubSeq(es, d + 1, Len(es))
  BY DEF Pruned
<1> HIDE DEF d, passed
<1>9. Pruned(es, t) \in Seq(Nat) /\ Suffix(es, Pruned(es, t), d)
  <2>1. d \in Nat /\ d <= Len(es)
    BY <1>3
  <2> QED
    BY <1>8, <2>1, TailEnd
<1>10. Drops(es, Pruned(es, t), d, t)
  BY <1>6, <1>7, <1>9 DEF Drops
<1> QED
  BY <1>3, <1>9, <1>10

-----------------------------------------------------------------------------
(* What is true of one key at time n: its stamps E, the events G it was     *)
(* granted, what it was told to wait for, and its last event.               *)

StampsOK(E, n) ==
  Len(E) <= MaxEvents /\ \A i \in 1 .. Len(E) : E[i] <= n

(* The granted events and the stamps end with the same event.  A granted    *)
(* event whose stamp is still there is as old as the stamp; one whose stamp *)
(* has gone is out of the window.                                           *)
TrackOK(E, G, n) ==
  /\ Len(G) <= MaxEvents + 1
  /\ \A i \in 1 .. Len(G) : G[i] <= n
  /\ \A i \in 1 .. Len(G) : \A p \in Int : p + Len(G) = Len(E) + i =>
       /\ p >= 1 => E[p] = G[i]
       /\ p < 1 => G[i] + Window <= n
  /\ Len(G) > MaxEvents => G[Len(G)] - G[1] >= Window

WaitOK(E, w) ==
  w.until # 0 =>
    /\ w.until >= w.head + Window
    /\ w.until <= w.head + Window + Second
    /\ Len(E) = MaxEvents => E[1] <= w.head

SpentOK(E, s, n) ==
  Len(E) >= 1 => E[Len(E)] <= s \/ E[Len(E)] + Window <= n

LEMMA InBoth ==
  ASSUME NEW a \in Nat, NEW b \in Nat, NEW d \in Nat, NEW p \in Int,
         b + d = a, p >= 1, p <= b
  PROVE  p + d \in 1 .. a
OBVIOUS

LEMMA Shifted ==
  ASSUME NEW a \in Nat, NEW b \in Nat, NEW g \in Nat, NEW d \in Nat, NEW i \in Int, NEW p \in Int,
         b + d = a, p + g = b + i, i <= g
  PROVE  p + d \in Int /\ (p + d) + g = a + i /\ p <= b /\ p + d <= a
OBVIOUS

LEMMA ShiftedBack ==
  ASSUME NEW a \in Nat, NEW g \in Nat, NEW h \in Nat, NEW d \in Nat, NEW i \in Int, NEW p \in Int,
         h + d = g, p + h = a + i
  PROVE  p + g = a + (i + d)
OBVIOUS

LEMMA IsOut ==
  ASSUME Limits, NEW e \in Nat, NEW g \in Nat, NEW n \in Nat, NEW t \in Nat,
         t <= n, e <= t - Window, g = e
  PROVE  g + Window <= n
BY LimitFacts

LEMMA NextTick ==
  ASSUME Limits, NEW g \in Nat, NEW n \in Nat, g + Window <= n
  PROVE  g + Window <= n + 1
BY LimitFacts

LEMMA OldOrSpent ==
  ASSUME Limits, NEW e \in Nat, NEW s \in Int, NEW n \in Nat,
         e <= s \/ e + Window <= n
  PROVE  \/ e <= (IF s > n + 1 - Window THEN s ELSE Never)
         \/ e + Window <= n + 1
BY LimitFacts

(* Pruning keeps all of it: what it takes away is as old as its stamp says. *)
LEMMA PruningKeeps ==
  ASSUME Limits, NEW E \in Seq(Nat), NEW G \in Seq(Nat), NEW n \in Nat,
         NEW w \in [until : Int, head : Int], NEW s \in Int, NEW t \in Nat, t <= n,
         StampsOK(E, n), TrackOK(E, G, n), WaitOK(E, w), SpentOK(E, s, n)
  PROVE  /\ StampsOK(Pruned(E, t), n)
         /\ TrackOK(Pruned(E, t), G, n)
         /\ WaitOK(Pruned(E, t), w)
         /\ SpentOK(Pruned(E, t), s, n)
<1> DEFINE F == Pruned(E, t)
<1>1. F \in Seq(Nat)
  BY PrunedIs
<1>2. PICK d \in Nat : Drops(E, F, d, t)
  BY PrunedIs
<1> HIDE DEF F
<1>3. /\ Len(E) \in Nat /\ Len(F) \in Nat /\ Len(G) \in Nat
      /\ d <= Len(E) /\ Len(F) + d = Len(E)
      /\ \A p \in Int : p >= 1 /\ p <= Len(F) => F[p] = E[p + d]
  <2>1. Suffix(E, F, d)
    BY <1>2 DEF Drops
  <2>2. /\ Len(E) \in Nat /\ Len(F) \in Nat
        /\ d <= Len(E) /\ Len(F) + d = Len(E)
    BY <1>1, <2>1, SuffixLens
  <2>3. \A p \in Int : p >= 1 /\ p <= Len(F) => F[p] = E[p + d]
    <3>1. E \in Seq(Nat) /\ F \in Seq(Nat)
      BY <1>1
    <3> QED
      BY <2>1, <3>1, SuffixAt, Zenon
  <2>4. Len(G) \in Nat
    BY LenProperties
  <2> QED
    BY <2>2, <2>3, <2>4
<1>4. ASSUME NEW p \in Int, p >= 1, p <= Len(F)
      PROVE  F[p] = E[p + d] /\ p + d \in 1 .. Len(E)
  <2>1. F[p] = E[p + d]
    BY <1>3, <1>4, Zenon
  <2> DEFINE a == Len(E)
             b == Len(F)
  <2>2. a \in Nat /\ b \in Nat /\ b + d = a /\ p <= b
    BY <1>3, <1>4
  <2> HIDE DEF a, b
  <2>3. p + d \in 1 .. a
    BY <1>4, <2>2, InBoth
  <2> QED
    BY <2>1, <2>3 DEF a
<1>5. StampsOK(F, n)
  <2>1. Len(F) <= MaxEvents
    <3> DEFINE a == Len(E)
               b == Len(F)
    <3>1. a \in Nat /\ b \in Nat /\ b + d = a /\ a <= MaxEvents
      BY <1>3 DEF StampsOK
    <3> HIDE DEF a, b
    <3>2. b <= MaxEvents
      BY <3>1, LimitFacts, Shorter, Zenon
    <3> QED
      BY <3>2 DEF b
  <2>2. ASSUME NEW i \in 1 .. Len(F) PROVE F[i] <= n
    <3>1. i + d \in 1 .. Len(E) /\ F[i] = E[i + d]
      BY <1>3, <1>4
    <3> QED
      BY <3>1 DEF StampsOK
  <2> QED
    BY <2>1, <2>2 DEF StampsOK
<1>6. TrackOK(F, G, n)
  <2>1. ASSUME NEW i \in 1 .. Len(G), NEW p \in Int, p + Len(G) = Len(F) + i
        PROVE  /\ p >= 1 => F[p] = G[i]
               /\ p < 1 => G[i] + Window <= n
    <3> DEFINE q == p + d
    <3>0. i \in Int /\ i >= 1 /\ i <= Len(G)
      BY <1>3
    <3>1. q \in Int /\ q + Len(G) = Len(E) + i /\ p <= Len(F) /\ q <= Len(E)
      <4> DEFINE a == Len(E)
                 b == Len(F)
                 g == Len(G)
      <4>1. /\ a \in Nat /\ b \in Nat /\ g \in Nat /\ b + d = a
            /\ p + g = b + i /\ i <= g /\ i \in Int
        BY <1>3, <2>1, <3>0
      <4> HIDE DEF a, b, g
      <4>2. p + d \in Int /\ (p + d) + g = a + i /\ p <= b /\ p + d <= a
        BY <4>1, Shifted
      <4> QED
        BY <4>2 DEF a, b, g
    <3>2. /\ q >= 1 => E[q] = G[i]
          /\ q < 1 => G[i] + Window <= n
      <4> HIDE DEF q
      <4> QED
        BY <3>1 DEF TrackOK
    <3>3. CASE p >= 1
      <4>1. F[p] = E[q] /\ q \in 1 .. Len(E)
        BY <1>4, <3>1, <3>3
      <4>2. q >= 1
        BY <3>3
      <4> HIDE DEF q
      <4> QED
        BY <3>2, <3>3, <4>1, <4>2
    <3>4. CASE p < 1 /\ q >= 1
      <4>1. q \in 1 .. d /\ q \in 1 .. Len(E)
        BY <1>3, <3>1, <3>4
      <4> HIDE DEF q
      <4>2. E[q] <= t - Window
        BY <1>2, <4>1 DEF Stale, Drops
      <4>3. E[q] \in Nat /\ G[i] \in Nat
        BY <4>1, ElementOfSeq
      <4>4. G[i] = E[q]
        BY <3>2, <3>4
      <4> DEFINE e == E[q]
                 g == G[i]
      <4>5. e \in Nat /\ g \in Nat /\ e <= t - Window /\ g = e
        BY <4>2, <4>3, <4>4
      <4> HIDE DEF e, g
      <4>6. g + Window <= n
        BY <4>5, IsOut
      <4> QED
        BY <3>4, <4>6 DEF g
    <3>5. CASE p < 1 /\ q < 1
      BY <3>2, <3>5
    <3> QED
      BY <1>3, <2>1, <3>3, <3>4, <3>5
  <2> QED
    BY <2>1 DEF TrackOK
<1>7. WaitOK(F, w)
  <2> SUFFICES ASSUME w.until # 0, Len(F) = MaxEvents PROVE F[1] <= w.head
    BY DEF WaitOK
  <2>1. d = 0 /\ Len(E) = MaxEvents /\ Len(F) >= 1
    <3> DEFINE a == Len(E)
               b == Len(F)
    <3>1. a \in Nat /\ b \in Nat /\ b + d = a /\ a <= MaxEvents /\ b = MaxEvents
      BY <1>3 DEF StampsOK
    <3> HIDE DEF a, b
    <3>2. d = 0 /\ a = MaxEvents /\ b >= 1
      BY <3>1, LimitFacts
    <3> QED
      BY <3>2 DEF a, b
  <2>2. 1 \in Int /\ 1 >= 1 /\ 1 <= Len(F)
    BY <2>1
  <2>3. F[1] = E[1 + d]
    BY <1>4, <2>2, Zenon
  <2>4. 1 + d = 1
    BY <2>1
  <2> QED
    BY <2>1, <2>3, <2>4 DEF WaitOK
<1>8. SpentOK(F, s, n)
  <2> SUFFICES ASSUME Len(F) >= 1
               PROVE  F[Len(F)] <= s \/ F[Len(F)] + Window <= n
    BY DEF SpentOK
  <2>1. Len(E) >= 1
    BY <1>3
  <2>2. F[Len(F)] = E[Len(E)]
    BY <1>1, <1>2, SuffixEnd DEF Drops
  <2> QED
    BY <2>1, <2>2 DEF SpentOK
<1> QED
  BY <1>5, <1>6, <1>7, <1>8 DEF F

(* Time keeps it: what it takes from the granted events is out of the       *)
(* window.                                                                  *)
LEMMA TimeKeeps ==
  ASSUME Limits, NEW E \in Seq(Nat), NEW G \in Seq(Nat), NEW n \in Nat,
         NEW s \in Int, StampsOK(E, n), TrackOK(E, G, n), SpentOK(E, s, n)
  PROVE  /\ Pruned(G, n + 1) \in Seq(Nat)
         /\ StampsOK(E, n + 1)
         /\ TrackOK(E, Pruned(G, n + 1), n + 1)
         /\ SpentOK(E, IF s > n + 1 - Window THEN s ELSE Never, n + 1)
<1> DEFINE H == Pruned(G, n + 1)
<1>1. H \in Seq(Nat)
  BY PrunedIs
<1>2. PICK d \in Nat : Drops(G, H, d, n + 1)
  BY PrunedIs
<1> HIDE DEF H
<1>3. /\ Len(G) \in Nat /\ Len(H) \in Nat /\ Len(E) \in Nat
      /\ d <= Len(G) /\ Len(H) + d = Len(G)
      /\ \A p \in Int : p >= 1 /\ p <= Len(H) => H[p] = G[p + d]
  <2>1. Suffix(G, H, d)
    BY <1>2 DEF Drops
  <2>2. /\ Len(G) \in Nat /\ Len(H) \in Nat
        /\ d <= Len(G) /\ Len(H) + d = Len(G)
    BY <1>1, <2>1, SuffixLens
  <2>3. \A p \in Int : p >= 1 /\ p <= Len(H) => H[p] = G[p + d]
    <3>1. G \in Seq(Nat) /\ H \in Seq(Nat)
      BY <1>1
    <3> QED
      BY <2>1, <3>1, SuffixAt, Zenon
  <2>4. Len(E) \in Nat
    BY LenProperties
  <2> QED
    BY <2>2, <2>3, <2>4
<1>4. ASSUME NEW p \in Int, p >= 1, p <= Len(H)
      PROVE  H[p] = G[p + d] /\ p + d \in 1 .. Len(G) /\ G[p + d] \in Nat
  <2>1. H[p] = G[p + d]
    BY <1>3, <1>4, Zenon
  <2>2. p + d \in 1 .. Len(G)
    <3> DEFINE a == Len(G)
               b == Len(H)
    <3>1. a \in Nat /\ b \in Nat /\ b + d = a /\ p <= b
      BY <1>3, <1>4
    <3> HIDE DEF a, b
    <3>2. p + d \in 1 .. a
      BY <1>4, <3>1, InBoth
    <3> QED
      BY <3>2 DEF a
  <2> QED
    BY <2>1, <2>2, ElementOfSeq
<1>5. StampsOK(E, n + 1)
  <2>1. \A i \in 1 .. Len(E) : E[i] \in Nat /\ E[i] <= n
    BY ElementOfSeq DEF StampsOK
  <2>2. \A i \in 1 .. Len(E) : E[i] <= n + 1
    BY <2>1
  <2> QED
    BY <2>2 DEF StampsOK
<1>6. TrackOK(E, H, n + 1)
  <2>1. Len(H) <= MaxEvents + 1
    <3> DEFINE a == Len(G)
               b == Len(H)
    <3>1. a \in Nat /\ b \in Nat /\ b + d = a /\ a <= MaxEvents + 1
      BY <1>3 DEF TrackOK
    <3> HIDE DEF a, b
    <3>2. b <= MaxEvents + 1
      <4>1. MaxEvents + 1 \in Nat
        BY LimitFacts
      <4> QED
        BY <3>1, <4>1, Shorter, Zenon
    <3> QED
      BY <3>2 DEF b
  <2>2. ASSUME NEW i \in 1 .. Len(H) PROVE H[i] <= n + 1
    <3>1. i + d \in 1 .. Len(G) /\ H[i] = G[i + d] /\ G[i + d] \in Nat
      BY <1>3, <1>4
    <3>2. G[i + d] <= n
      BY <3>1 DEF TrackOK
    <3> QED
      BY <3>1, <3>2
  <2>3. ASSUME NEW i \in 1 .. Len(H), NEW p \in Int, p + Len(H) = Len(E) + i
        PROVE  /\ p >= 1 => E[p] = H[i]
               /\ p < 1 => H[i] + Window <= n + 1
    <3> DEFINE j == i + d
    <3>1. j \in 1 .. Len(G) /\ H[i] = G[j] /\ G[j] \in Nat
      BY <1>3, <1>4
    <3>2. p + Len(G) = Len(E) + j
      <4>1. i \in Int
        BY <1>3
      <4> DEFINE a == Len(E)
                 g == Len(G)
                 h == Len(H)
      <4>2. /\ a \in Nat /\ g \in Nat /\ h \in Nat /\ h + d = g
            /\ p + h = a + i
        BY <1>3, <2>3
      <4> HIDE DEF a, g, h
      <4>3. p + g = a + (i + d)
        BY <4>1, <4>2, ShiftedBack
      <4> QED
        BY <4>3 DEF a, g
    <3> HIDE DEF j
    <3>3. /\ p >= 1 => E[p] = G[j]
          /\ p < 1 => G[j] + Window <= n
      BY <3>1, <3>2 DEF TrackOK
    <3>4. CASE p >= 1
      BY <3>1, <3>3, <3>4
    <3>5. CASE p < 1
      <4> DEFINE g == G[j]
      <4>1. g \in Nat /\ g + Window <= n
        BY <3>1, <3>3, <3>5
      <4> HIDE DEF g
      <4>2. g + Window <= n + 1
        BY <4>1, NextTick
      <4> QED
        BY <3>1, <3>5, <4>2 DEF g
    <3> QED
      BY <3>4, <3>5
  <2>4. ASSUME Len(H) > MaxEvents PROVE H[Len(H)] - H[1] >= Window
    <3>1. d = 0 /\ Len(G) > MaxEvents /\ Len(G) = Len(H) /\ Len(H) >= 1
      <4> DEFINE a == Len(G)
                 b == Len(H)
      <4>1. /\ a \in Nat /\ b \in Nat /\ b + d = a /\ a <= MaxEvents + 1
            /\ b > MaxEvents
        BY <1>3, <2>4 DEF TrackOK
      <4> HIDE DEF a, b
      <4>2. d = 0 /\ a > MaxEvents /\ a = b /\ b >= 1
        BY <4>1, LimitFacts
      <4> QED
        BY <4>2 DEF a, b
    <3>2. H[Len(H)] = G[Len(H) + d] /\ H[1] = G[1 + d]
      BY <1>3, <1>4, <3>1
    <3> QED
      BY <3>1, <3>2 DEF TrackOK
  <2> QED
    BY <2>1, <2>2, <2>3, <2>4 DEF TrackOK
<1>7. SpentOK(E, IF s > n + 1 - Window THEN s ELSE Never, n + 1)
  <2> SUFFICES ASSUME Len(E) >= 1
               PROVE  \/ E[Len(E)] <= (IF s > n + 1 - Window THEN s ELSE Never)
                      \/ E[Len(E)] + Window <= n + 1
    BY DEF SpentOK
  <2>1. E[Len(E)] \in Nat
    BY <1>3, ElementOfSeq
  <2> DEFINE e == E[Len(E)]
  <2>2. e \in Nat /\ (e <= s \/ e + Window <= n)
    BY <2>1 DEF SpentOK
  <2> HIDE DEF e
  <2>3. \/ e <= (IF s > n + 1 - Window THEN s ELSE Never)
        \/ e + Window <= n + 1
    BY <2>2, OldOrSpent
  <2> QED
    BY <2>3 DEF e
<1> QED
  BY <1>1, <1>5, <1>6, <1>7 DEF H

(* The last events of a key, and the two lists after one more.              *)
LEMMA LastIs ==
  ASSUME Limits, NEW G \in Seq(Nat), Len(G) <= MaxEvents + 2, Len(G) >= 1
  PROVE  /\ LastOf(G) \in Seq(Nat)
         /\ Len(LastOf(G)) <= MaxEvents + 1 /\ Len(LastOf(G)) >= 1
         /\ \E d \in Nat : Suffix(G, LastOf(G), d)
<1> DEFINE m == Len(G)
<1>1. m \in Nat /\ MaxEvents \in Nat
  BY LimitFacts, LenProperties
<1>2. CASE m <= MaxEvents + 1
  <2>1. LastOf(G) = G
    BY <1>2 DEF LastOf
  <2>2. Suffix(G, G, 0)
    BY DEF Suffix
  <2> QED
    BY <1>2, <2>1, <2>2
<1>3. CASE ~ (m <= MaxEvents + 1)
  <2>1. LastOf(G) = Tail(G)
    BY <1>3 DEF LastOf
  <2>2. /\ Tail(G) \in Seq(Nat) /\ Len(Tail(G)) = m - 1
        /\ \A i \in 1 .. Len(Tail(G)) : Tail(G)[i] = G[i + 1]
    BY HeadTailProperties, EmptySeq
  <2>3. m >= 2 /\ m - 1 <= MaxEvents + 1 /\ m - 1 >= 1 /\ (m - 1) + 1 = m /\ 1 \in 0 .. m
    <3> HIDE DEF m
    <3> QED
      BY <1>1, <1>3, LimitFacts DEF m
  <2>4. Len(Tail(G)) + 1 = m
    BY <2>2, <2>3
  <2>5. Suffix(G, Tail(G), 1)
    BY <2>2, <2>3, <2>4 DEF Suffix
  <2> QED
    BY <2>1, <2>2, <2>3, <2>5
<1> QED
  BY <1>2, <1>3

LEMMA EnterKeeps ==
  ASSUME Limits, NEW E \in Seq(Nat), NEW G \in Seq(Nat), NEW n \in Nat,
         StampsOK(E, n), TrackOK(E, G, n), Len(E) < MaxEvents
  PROVE  /\ LastOf(Append(G, n)) \in Seq(Nat)
         /\ StampsOK(Append(E, n), n)
         /\ TrackOK(Append(E, n), LastOf(Append(G, n)), n)
         /\ SpentOK(Append(E, n), n, n)
<1> DEFINE F == Append(E, n)
           A == Append(G, n)
           H == LastOf(A)
           le == Len(E)
           lg == Len(G)
<1>1. /\ F \in Seq(Nat) /\ Len(F) = le + 1 /\ F[le + 1] = n
      /\ \A i \in 1 .. le : F[i] = E[i] /\ E[i] \in Nat
  BY AppendProperties, ElementOfSeq
<1>2. /\ A \in Seq(Nat) /\ Len(A) = lg + 1 /\ A[lg + 1] = n
      /\ \A i \in 1 .. lg : A[i] = G[i] /\ G[i] \in Nat
  BY AppendProperties, ElementOfSeq
<1>3. le \in Nat /\ lg \in Nat /\ le < MaxEvents /\ lg <= MaxEvents + 1
  BY LenProperties DEF TrackOK
<1> HIDE DEF F, A
<1>4. Len(A) <= MaxEvents + 2 /\ Len(A) >= 1
  <2> DEFINE la == Len(A)
  <2>1. la = lg + 1
    BY <1>2
  <2> HIDE DEF la, lg
  <2>2. la <= MaxEvents + 2 /\ la >= 1
    BY <1>3, <2>1, LimitFacts, SMTT(30)
  <2> QED
    BY <2>2 DEF la
<1>5. H \in Seq(Nat) /\ Len(H) <= MaxEvents + 1 /\ Len(H) >= 1
  BY <1>2, <1>4, LastIs
<1>6. PICK d \in Nat : Suffix(A, H, d)
  BY <1>2, <1>4, LastIs
<1> HIDE DEF H
<1>7. /\ Len(H) \in Nat /\ d <= lg + 1 /\ Len(H) + d = lg + 1
      /\ \A p \in Int : p >= 1 /\ p <= Len(H) => H[p] = A[p + d]
      /\ H[Len(H)] = A[lg + 1]
  <2>1. /\ Len(A) \in Nat /\ Len(H) \in Nat /\ d <= Len(A) /\ Len(H) + d = Len(A)
        /\ \A p \in Int : p >= 1 /\ p <= Len(H) => H[p] = A[p + d]
        /\ Len(H) >= 1 => H[Len(H)] = A[Len(A)]
    <3>1. A \in Seq(Nat) /\ H \in Seq(Nat)
      BY <1>2, <1>5
    <3> HIDE DEF lg
    <3>2. Len(A) \in Nat /\ Len(H) \in Nat /\ d <= Len(A) /\ Len(H) + d = Len(A)
      BY <3>1, <1>6, SuffixLens, Zenon
    <3>3. \A p \in Int : p >= 1 /\ p <= Len(H) => H[p] = A[p + d]
      BY <3>1, <1>6, SuffixAt, Zenon
    <3>4. Len(H) >= 1 => H[Len(H)] = A[Len(A)]
      BY <3>1, <1>6, SuffixEnd, Zenon
    <3> QED
      BY <3>2, <3>3, <3>4
  <2> HIDE DEF lg
  <2>2. Len(A) = lg + 1 /\ Len(H) >= 1
    BY <1>2, <1>5
  <2> QED
    BY <2>1, <2>2
<1> HIDE DEF le, lg
<1>8. StampsOK(F, n)
  <2>1. Len(F) <= MaxEvents
    <3>1. le + 1 <= MaxEvents
      BY <1>3, LimitFacts
    <3> QED
      BY <1>1, <3>1
  <2>2. ASSUME NEW i \in 1 .. Len(F) PROVE F[i] <= n
    <3>1. CASE i = le + 1
      BY <1>1, <3>1
    <3>2. CASE i # le + 1
      <4>1. i \in 1 .. le
        BY <1>1, <1>3, <2>2, <3>2
      <4> QED
        BY <1>1, <4>1 DEF StampsOK, le
    <3> QED
      BY <3>1, <3>2
  <2> QED
    BY <2>1, <2>2 DEF StampsOK
<1>9. ASSUME NEW i \in 1 .. lg + 1, NEW p \in Int, p + lg = le + i
      PROVE  /\ A[i] \in Nat /\ A[i] <= n
             /\ p >= 1 => F[p] = A[i]
             /\ p < 1 => A[i] + Window <= n
  <2>1. CASE i = lg + 1
    <3>1. p = le + 1
      BY <1>3, <1>9, <2>1
    <3> QED
      BY <1>1, <1>2, <1>3, <2>1, <3>1
  <2>2. CASE i # lg + 1
    <3>1. i \in 1 .. lg /\ i \in Int /\ p <= le
      BY <1>3, <1>9, <2>2
    <3>2. A[i] = G[i] /\ G[i] \in Nat /\ G[i] <= n
      BY <1>2, <3>1 DEF TrackOK, lg
    <3>3. /\ p >= 1 => E[p] = G[i]
          /\ p < 1 => G[i] + Window <= n
      BY <1>9, <3>1 DEF TrackOK, lg, le
    <3>4. p >= 1 => F[p] = E[p]
      BY <1>1, <1>3, <3>1
    <3> QED
      BY <3>2, <3>3, <3>4
  <2> QED
    BY <2>1, <2>2
<1>10. ASSUME NEW i \in 1 .. Len(H)
      PROVE  i \in Int /\ H[i] = A[i + d] /\ i + d \in 1 .. lg + 1
  <2> DEFINE lh == Len(H)
  <2>1. lh \in Nat /\ lh + d = lg + 1 /\ i \in 1 .. lh
    BY <1>7
  <2> HIDE DEF lh
  <2>2. i \in Int /\ i >= 1 /\ i <= lh
    BY <2>1
  <2>3. i + d \in 1 .. lg + 1
    BY <1>3, <2>1, <2>2
  <2>4. H[i] = A[i + d]
    BY <1>7, <2>2 DEF lh
  <2> QED
    BY <2>2, <2>3, <2>4
<1>11. ASSUME NEW i \in 1 .. Len(H), NEW p \in Int, p + Len(H) = le + 1 + i
       PROVE  /\ p >= 1 => F[p] = H[i]
              /\ p < 1 => H[i] + Window <= n
  <2> DEFINE j == i + d
  <2>1. j \in 1 .. lg + 1 /\ H[i] = A[j] /\ i \in Int
    BY <1>10
  <2>2. p + lg = le + j
    <3> DEFINE lh == Len(H)
    <3>1. lh \in Nat /\ lh + d = lg + 1 /\ p + lh = le + 1 + i /\ i \in Int
      BY <1>7, <1>11, <2>1
    <3> HIDE DEF lh
    <3> QED
      BY <1>3, <3>1
  <2> HIDE DEF j
  <2> QED
    BY <1>9, <2>1, <2>2
<1>12. TrackOK(F, H, n)
  <2>1. ASSUME NEW i \in 1 .. Len(H) PROVE H[i] <= n
    <3> DEFINE j == i + d
    <3>1. j \in 1 .. lg + 1 /\ H[i] = A[j] /\ i \in Int
      BY <1>10
    <3> HIDE DEF j
    <3>2. PICK p \in Int : p = le + j - lg
      BY <1>3, <3>1
    <3>3. p + lg = le + j
      BY <1>3, <3>1, <3>2
    <3> QED
      BY <1>9, <3>1, <3>3
  <2>2. ASSUME NEW i \in 1 .. Len(H), NEW p \in Int, p + Len(H) = Len(F) + i
        PROVE  /\ p >= 1 => F[p] = H[i]
               /\ p < 1 => H[i] + Window <= n
    <3>1. p + Len(H) = le + 1 + i
      BY <1>1, <2>2
    <3> QED
      BY <1>11, <3>1
  <2>3. ASSUME Len(H) > MaxEvents PROVE H[Len(H)] - H[1] >= Window
    <3> DEFINE p == le + 2 - Len(H)
               h == H[1]
    <3>1. p \in Int /\ p + Len(H) = le + 1 + 1 /\ p < 1 /\ 1 \in 1 .. Len(H)
      <4> DEFINE lh == Len(H)
      <4>1. lh \in Nat /\ lh >= 1 /\ lh > MaxEvents
        BY <1>5, <1>7, <2>3
      <4> HIDE DEF lh
      <4>2. /\ le + 2 - lh \in Int /\ (le + 2 - lh) + lh = le + 1 + 1
            /\ le + 2 - lh < 1 /\ 1 \in 1 .. lh
        BY <1>3, <4>1, LimitFacts
      <4> QED
        BY <4>2 DEF lh
    <3> HIDE DEF p
    <3>2. h + Window <= n
      BY <1>11, <3>1
    <3>3. h \in Nat
      BY <1>5, <3>1, ElementOfSeq
    <3>4. H[Len(H)] = n
      BY <1>2, <1>7
    <3> HIDE DEF h
    <3>5. n - h >= Window
      BY <3>2, <3>3, LimitFacts, SMTT(30)
    <3> QED
      BY <3>4, <3>5 DEF h
  <2> QED
    BY <1>5, <2>1, <2>2, <2>3 DEF TrackOK
<1>13. SpentOK(F, n, n)
  BY <1>1 DEF SpentOK
<1> QED
  BY <1>5, <1>8, <1>12, <1>13 DEF F, A, H

-----------------------------------------------------------------------------
(* The table: it lists each key once, and never more than MaxKeys.          *)

(* A key that is let through becomes the last to be dropped.                *)
LEMMA MovedIs ==
  ASSUME NEW o \in Seq(Keys), IsInjective(o), NEW k \in Keys
  PROVE  /\ Moved(o, k) \in Seq(Keys) /\ IsInjective(Moved(o, k))
         /\ Range(Moved(o, k)) = Range(o) \cup {k}
         /\ Len(Moved(o, k)) <= Len(o) + 1
         /\ k \in Range(o) => Len(Moved(o, k)) = Len(o)
<1> DEFINE w == Without(o, {k})
           m == Moved(o, k)
<1>1. w \in Seq(Keys) /\ IsInjective(w) /\ Range(w) = Range(o) \ {k}
  <2>1. w \in Seq(Keys)
    BY WithoutEmbeds
  <2>2. IsInjective(w)
    BY WithoutInjective
  <2>3. Range(w) = Range(o) \ {k}
    BY WithoutRange
  <2> QED
    BY <2>1, <2>2, <2>3
<1> HIDE DEF w
<1>2. m \in Seq(Keys) /\ Range(m) = Range(w) \cup {k} /\ IsInjective(m)
  <2>1. m = Append(w, k)
    BY DEF Moved, w
  <2>2. k \notin Range(w)
    BY <1>1
  <2> HIDE DEF m
  <2> QED
    BY <1>1, <2>1, <2>2, AppendOnce
<1> HIDE DEF m
<1>3. Range(m) = Range(o) \cup {k}
  BY <1>1, <1>2
<1>4. /\ IsFiniteSet(Range(o)) /\ Cardinality(Range(o)) = Len(o)
      /\ Cardinality(Range(m)) = Len(m) /\ Len(o) \in Nat
  BY <1>2, InjectiveCard, LenIs
<1>5. Len(m) = IF k \in Range(o) THEN Len(o) ELSE Len(o) + 1
  <2> DEFINE R == Range(o)
  <2>1. IsFiniteSet(R)
    BY <1>4
  <2> HIDE DEF R
  <2>2. Cardinality(R \cup {k}) = IF k \in R THEN Cardinality(R) ELSE Cardinality(R) + 1
    BY <2>1, FS_AddElement
  <2> QED
    BY <1>3, <1>4, <2>2 DEF R
<1> QED
  BY <1>2, <1>3, <1>4, <1>5 DEF m

(* After a removal that is not of the table, one is gone at least if the    *)
(* table has one too many; and who is dropped although its stamps are       *)
(* fresh shared the table with MaxKeys fresh others.                        *)
Crowd(es, o, t, live) ==
  /\ live \in Seq(Keys) /\ IsInjective(live) /\ Len(live) > MaxKeys
  /\ \A x \in Range(live) : x \in Range(o) /\ ~ Stale(Last(es[x]), t)

LEMMA DroppedIs ==
  ASSUME Limits, NEW o \in Seq(Keys), IsInjective(o), Len(o) <= MaxKeys + 1,
         NEW es \in [Keys -> Seq(Nat)], NEW t \in Nat
  PROVE  /\ Dropped(es, o, t) \in SUBSET Range(o)
         /\ Len(Without(o, Dropped(es, o, t))) <= MaxKeys
         /\ \A j \in Dropped(es, o, t) :
              ~ Stale(Last(es[j]), t) => \E live : Crowd(es, o, t, live)
<1> DEFINE old  == Expired(es, o, t)
           live == Without(o, old)
           gone == Dropped(es, o, t)
           w    == Without(o, gone)
           n    == Len(live)
           m    == Len(o)
<1>1. MaxKeys \in Nat /\ MaxKeys >= 1 /\ m \in Nat /\ n \in Nat /\ old \in SUBSET Range(o)
  BY LimitFacts, WithoutEmbeds DEF Expired
<1>2. /\ live \in Seq(Keys) /\ IsInjective(live) /\ Range(live) = Range(o) \ old
      /\ \A i \in 1 .. n : live[i] \in Range(live)
  <2>1. live \in Seq(Keys) /\ IsInjective(live) /\ Range(live) = Range(o) \ old
    BY WithoutEmbeds, WithoutInjective, WithoutRange
  <2> HIDE DEF live
  <2>2. DOMAIN live = 1 .. n
    BY <2>1, LenIs
  <2> QED
    BY <2>1, <2>2 DEF Range
<1>3. w \in Seq(Keys) /\ IsInjective(w) /\ Range(w) = Range(o) \ gone
  BY WithoutEmbeds, WithoutInjective, WithoutRange
<1>4. gone = IF m <= MaxKeys THEN {} ELSE old \cup {live[i] : i \in 1 .. n - MaxKeys}
  BY DEF Dropped
<1> HIDE DEF old, live, gone, w, n, m
<1>5. gone \in SUBSET Range(o)
  <2> SUFFICES ASSUME NEW i \in 1 .. n - MaxKeys PROVE live[i] \in Range(o)
    BY <1>1, <1>4
  <2>1. i \in 1 .. n
    BY <1>1
  <2> QED
    BY <1>2, <2>1
<1>6. /\ IsFiniteSet(Range(o)) /\ Cardinality(Range(o)) = m
      /\ Cardinality(Range(w)) = Len(w) /\ Cardinality(Range(live)) = n
  BY <1>2, <1>3, InjectiveCard DEF m, n
<1>7. Len(w) <= MaxKeys
  <2>1. CASE gone = {}
    <3>1. Range(w) = Range(o)
      BY <1>3, <2>1
    <3>2. m <= MaxKeys
      <4> SUFFICES ASSUME ~ (m <= MaxKeys) PROVE FALSE
        OBVIOUS
      <4>1. old = {} /\ n = m
        BY <1>2, <1>4, <1>6, <2>1
      <4>2. 1 \in 1 .. n - MaxKeys
        BY <1>1, <4>1
      <4> QED
        BY <1>4, <2>1, <4>2
    <3> QED
      BY <1>6, <3>1, <3>2
  <2>2. CASE gone # {}
    <3>1. PICK g \in gone : g \in Range(o)
      BY <1>5, <2>2
    <3> DEFINE R == Range(o)
               Q == Range(w)
    <3>2. IsFiniteSet(R) /\ Cardinality(R) = m /\ g \in R /\ Q \in SUBSET (R \ {g})
      BY <1>3, <1>6, <3>1
    <3> HIDE DEF R, Q
    <3>3. IsFiniteSet(R \ {g}) /\ Cardinality(R \ {g}) = m - 1
      BY <3>2, FS_RemoveElement
    <3>4. Cardinality(Q) <= m - 1
      BY <3>2, <3>3, FS_Subset
    <3> QED
      BY <1>1, <1>6, <3>4 DEF Q, m
  <2> QED
    BY <2>1, <2>2
<1>8. ASSUME NEW j \in gone, ~ Stale(Last(es[j]), t)
      PROVE  \E l : Crowd(es, o, t, l)
  <2>1. j \notin old
    BY <1>8 DEF old, Expired
  <2>2. n > MaxKeys
    BY <1>1, <1>4, <1>8, <2>1
  <2>3. \A x \in Range(live) : x \in Range(o) /\ ~ Stale(Last(es[x]), t)
    BY <1>2 DEF old, Expired
  <2>4. Crowd(es, o, t, live)
    BY <1>2, <2>2, <2>3 DEF Crowd, n
  <2> QED
    BY <2>4
<1> QED
  BY <1>5, <1>7, <1>8 DEF gone, w

-----------------------------------------------------------------------------
(* What a refused key is told.                                              *)

LEMMA DivFacts ==
  ASSUME NEW a \in Nat, NEW b \in Nat \ {0}
  PROVE  /\ a \div b \in Int
         /\ b * (a \div b) <= a
         /\ a < b * (a \div b) + b
<1>1. a \div b \in Int
  OBVIOUS
<1>2. b * (a \div b) <= a
  OBVIOUS
<1>3. a < b * (a \div b) + b
  OBVIOUS
<1> QED
  BY <1>1, <1>2, <1>3

LEMMA OneMore ==
  ASSUME NEW b \in Int, NEW q \in Int
  PROVE  b * (q + 1) = b * q + b /\ b * q \in Int
OBVIOUS

(* It is told to wait until the head has left the window, and a second      *)
(* longer at most.                                                          *)
LEMMA ToldToWait ==
  ASSUME Limits, NEW h \in Nat, NEW n \in Nat, h <= n, ~ Stale(h, n)
  PROVE  /\ n + Second * RetryAfter(h, n) \in Int
         /\ n + Second * RetryAfter(h, n) >= h + Window
         /\ n + Second * RetryAfter(h, n) <= h + Window + Second
<1> DEFINE left == Window - (n - h)
           q == left \div Second
           r == (left + Second - 1) \div Second
<1>1. left \in Nat /\ left >= 1 /\ left + Second - 1 \in Nat /\ Second \in Nat \ {0}
  BY LimitFacts DEF Stale
<1>2. RetryAfter(h, n) = IF backend = "memory" THEN q + 1 ELSE r
  BY DEF RetryAfter
<1>3. left = Window - (n - h)
  OBVIOUS
<1> HIDE DEF left
<1>4. q \in Int /\ Second * q <= left /\ left < Second * q + Second
  BY <1>1, DivFacts
<1>5. r \in Int /\ Second * r <= left + Second - 1 /\ left + Second - 1 < Second * r + Second
  BY <1>1, DivFacts
<1> HIDE DEF q, r
<1>6. Second * (q + 1) = Second * q + Second /\ Second * q \in Int /\ Second * r \in Int
  BY <1>1, <1>4, <1>5, OneMore
<1> DEFINE u == Second * q
           v == Second * r
<1>7. /\ u \in Int /\ u <= left /\ left < u + Second
      /\ v \in Int /\ v <= left + Second - 1 /\ left + Second - 1 < v + Second
  BY <1>4, <1>5, <1>6
<1> HIDE DEF u, v
<1>8. CASE backend = "memory"
  <2>1. Second * RetryAfter(h, n) = u + Second
    BY <1>2, <1>6, <1>8 DEF u
  <2>2. /\ n + (u + Second) \in Int /\ n + (u + Second) >= h + Window
        /\ n + (u + Second) <= h + Window + Second
    BY <1>1, <1>3, <1>7, LimitFacts
  <2> QED
    BY <2>1, <2>2
<1>9. CASE backend # "memory"
  <2>1. Second * RetryAfter(h, n) = v
    BY <1>2, <1>9 DEF v
  <2>2. n + v \in Int /\ n + v >= h + Window /\ n + v <= h + Window + Second
    BY <1>1, <1>3, <1>7, LimitFacts
  <2> QED
    BY <2>1, <2>2
<1> QED
  BY <1>8, <1>9

-----------------------------------------------------------------------------
(* The inductive invariant.                                                 *)

KeyOK(k) ==
  /\ StampsOK(events[k], now)
  /\ TrackOK(events[k], granted[k], now)
  /\ WaitOK(events[k], wait[k])
  /\ SpentOK(events[k], spent[k], now)

DataShape ==
  /\ events \in [Keys -> Seq(Nat)] /\ granted \in [Keys -> Seq(Nat)]
  /\ wait \in [Keys -> [until : Int, head : Int]] /\ spent \in [Keys -> Int]
  /\ order \in Seq(Keys) /\ hasty \in BOOLEAN

TableOK ==
  /\ IsInjective(order) /\ Len(order) <= MaxKeys
  /\ backend = "memory" => \A k \in Keys : k \in Range(order) <=> events[k] # <<>>

DataOK == DataShape /\ (\A k \in Keys : KeyOK(k)) /\ TableOK /\ ~ hasty

LimiterInv == backend \in {"memory", "redis"} /\ now \in Nat /\ DataOK

(* A key that nothing is known of.                                          *)
LEMMA Forgotten ==
  ASSUME Limits, NEW n \in Nat, NEW s, NEW E
  PROVE  /\ StampsOK(<<>>, n) /\ TrackOK(<<>>, <<>>, n) /\ SpentOK(<<>>, s, n)
         /\ WaitOK(E, NoWait) /\ NoWait \in [until : Int, head : Int]
BY LimitFacts DEF StampsOK, TrackOK, SpentOK, WaitOK, NoWait

LEMMA StartOK ==
  ASSUME Limits, LimitInit PROVE LimiterInv
<1>1. now = 0 /\ backend \in {"memory", "redis"}
  BY DEF LimitInit
<1>2. DataShape
  <2>1. <<>> \in Seq(Nat) /\ <<>> \in Seq(Keys) /\ Never \in Int
    BY LimitFacts DEF Never
  <2>2. NoWait \in [until : Int, head : Int]
    BY DEF NoWait
  <2> QED
    BY <2>1, <2>2 DEF DataShape, LimitInit
<1>3. \A k \in Keys : KeyOK(k)
  <2> SUFFICES ASSUME NEW k \in Keys PROVE KeyOK(k)
    OBVIOUS
  <2>1. events[k] = <<>> /\ granted[k] = <<>> /\ wait[k] = NoWait
    BY DEF LimitInit
  <2>2. now \in Nat
    BY <1>1
  <2> QED
    BY <1>1, <2>1, <2>2, Forgotten DEF KeyOK
<1>4. TableOK
  <2>1. order = <<>> /\ events = [k \in Keys |-> <<>>]
    BY DEF LimitInit
  <2>2. Range(<<>>) = {} /\ IsInjective(<<>>) /\ Len(<<>>) = 0
    BY DEF Range, IsInjective
  <2> QED
    BY <2>1, <2>2, LimitFacts DEF TableOK
<1> QED
  BY <1>1, <1>2, <1>3, <1>4 DEF LimiterInv, DataOK, LimitInit

(* Stamps that are left came from stamps that were there.                   *)
LEMMA LeftFrom ==
  ASSUME Limits, NEW E \in Seq(Nat), NEW t \in Nat, Pruned(E, t) # <<>>
  PROVE  E # <<>>
<1>1. t \in Int
  OBVIOUS
<1>2. PICK d \in Nat : Drops(E, Pruned(E, t), d, t)
  BY <1>1, PrunedIs
<1>3. Pruned(E, t) \in Seq(Nat)
  BY <1>1, PrunedIs
<1> DEFINE F == Pruned(E, t)
<1> HIDE DEF F
<1>4. F \in Seq(Nat) /\ F # <<>> /\ Suffix(E, F, d)
  BY <1>2, <1>3 DEF F, Drops
<1>5. Len(F) \in Nat /\ Len(F) + d = Len(E) /\ Len(F) # 0
  BY <1>4, SuffixLens, EmptySeq
<1> QED
  BY <1>5

(* What is left of the stamps of a key.                                     *)
LEMMA LeftIs ==
  ASSUME Limits, LimiterInv, NEW k \in Keys
  PROVE  /\ Left(k) \in Seq(Nat) /\ StampsOK(Left(k), now) /\ TrackOK(Left(k), granted[k], now)
         /\ WaitOK(Left(k), wait[k]) /\ SpentOK(Left(k), spent[k], now)
         /\ \E d \in Nat : Drops(events[k], Left(k), d, now)
         /\ Left(k) # <<>> => events[k] # <<>>
<1> DEFINE E == events[k]
           G == granted[k]
           w == wait[k]
           s == spent[k]
           n == now
<1>1. /\ n \in Nat /\ E \in Seq(Nat) /\ G \in Seq(Nat) /\ s \in Int
      /\ w \in [until : Int, head : Int]
      /\ StampsOK(E, n) /\ TrackOK(E, G, n) /\ WaitOK(E, w) /\ SpentOK(E, s, n)
  BY DEF LimiterInv, DataOK, DataShape, KeyOK
<1>2. Left(k) = Pruned(E, n)
  BY DEF Left
<1> HIDE DEF E, G, w, s, n
<1>3. n <= n /\ n \in Int
  BY <1>1
<1>4. /\ StampsOK(Pruned(E, n), n) /\ TrackOK(Pruned(E, n), G, n)
      /\ WaitOK(Pruned(E, n), w) /\ SpentOK(Pruned(E, n), s, n)
  BY <1>1, <1>3, PruningKeeps
<1>5. Pruned(E, n) \in Seq(Nat) /\ \E d \in Nat : Drops(E, Pruned(E, n), d, n)
  BY <1>1, <1>3, PrunedIs
<1>6. Pruned(E, n) # <<>> => E # <<>>
  BY <1>1, LeftFrom
<1> QED
  BY <1>2, <1>4, <1>5, <1>6 DEF E, G, w, s, n

(* A refusal prunes the stamps of the key and tells it to wait.             *)
LEMMA RefuseKeeps ==
  ASSUME Limits, LimiterInv, UNCHANGED <<backend, now>>,
         NEW k \in Keys, Full(Left(k)), Refuse(k, Left(k))
  PROVE  DataOK'
<1> DEFINE es == Left(k)
           told == [until |-> now + Second * RetryAfter(Head(es), now), head |-> Head(es)]
<1>1. /\ now \in Nat /\ now' = now
      /\ DataShape /\ TableOK /\ ~ hasty /\ \A j \in Keys : KeyOK(j)
  BY DEF LimiterInv, DataOK
<1>2. /\ events[k] \in Seq(Nat) /\ granted[k] \in Seq(Nat) /\ spent[k] \in Int
      /\ wait[k] \in [until : Int, head : Int] /\ KeyOK(k)
  BY <1>1 DEF DataShape
<1>3. /\ StampsOK(es, now) /\ TrackOK(es, granted[k], now)
      /\ SpentOK(es, spent[k], now)
  BY LeftIs
<1>4. es \in Seq(Nat) /\ \E d \in Nat : Drops(events[k], es, d, now)
  BY LeftIs
<1>5. /\ events' = [events EXCEPT ![k] = es] /\ wait' = [wait EXCEPT ![k] = told]
      /\ order' = order /\ granted' = granted /\ spent' = spent /\ hasty' = hasty
  BY DEF Refuse
<1>6. Len(es) = MaxEvents /\ Len(es) >= 1 /\ Head(es) = es[1] /\ es[1] \in Nat /\ es[1] <= now
  <2>1. Len(es) \in Nat /\ Len(es) >= MaxEvents /\ Len(es) <= MaxEvents
    BY <1>3, <1>4, LenProperties DEF StampsOK, Full
  <2>2. Len(es) = MaxEvents /\ Len(es) >= 1
    BY <2>1, LimitFacts
  <2>3. es # <<>> /\ 1 \in 1 .. Len(es)
    BY <2>1, <2>2
  <2> QED
    BY <1>3, <1>4, <2>2, <2>3, HeadTailProperties, ElementOfSeq DEF StampsOK
<1>7. ~ Stale(es[1], now)
  <2>1. PICK d \in Nat : Drops(events[k], es, d, now)
    BY <1>4
  <2>2. Suffix(events[k], es, d)
    BY <2>1 DEF Drops
  <2> HIDE DEF es
  <2>3. es[1] = events[k][1 + d] /\ Len(es) + d = Len(events[k]) /\ Len(es) \in Nat
    <3> DEFINE e == events[k]
    <3>1. e \in Seq(Nat) /\ es \in Seq(Nat) /\ Suffix(e, es, d) /\ 1 <= Len(es) /\ 1 \in Int
      BY <1>2, <1>4, <1>6, <2>2
    <3> HIDE DEF e
    <3>2. Len(es) \in Nat /\ Len(es) + d = Len(e)
      BY <3>1, SuffixLens
    <3>3. es[1] = e[1 + d]
      BY <3>1, SuffixAt
    <3> QED
      BY <3>2, <3>3 DEF e
  <2>4. d < Len(events[k])
    BY <1>6, <2>3
  <2>5. ~ Stale(events[k][d + 1], now)
    BY <2>1, <2>4 DEF Drops
  <2>6. d + 1 = 1 + d
    OBVIOUS
  <2> QED
    BY <2>3, <2>5, <2>6
<1>8. told \in [until : Int, head : Int] /\ WaitOK(es, told)
  <2> DEFINE h == es[1]
             u == now + Second * RetryAfter(h, now)
  <2>1. h \in Nat /\ h <= now /\ ~ Stale(h, now) /\ told = [until |-> u, head |-> h]
    BY <1>6, <1>7
  <2> HIDE DEF h, told
  <2>2. u \in Int /\ u >= h + Window /\ u <= h + Window + Second
    BY <1>1, <2>1, ToldToWait
  <2> HIDE DEF u
  <2>3. told.until = u /\ told.head = h /\ told \in [until : Int, head : Int]
    BY <2>1, <2>2
  <2>4. es[1] <= told.head
    BY <2>1, <2>3 DEF h
  <2> QED
    BY <2>2, <2>3, <2>4 DEF WaitOK
<1> HIDE DEF es, told
<1>9. DataShape'
  BY <1>1, <1>4, <1>5, <1>8 DEF DataShape
<1>10. ASSUME NEW j \in Keys PROVE KeyOK(j)'
  <2>1. CASE j = k
    <3>1. events'[j] = es /\ wait'[j] = told
      BY <1>1, <1>5, <2>1 DEF DataShape
    <3> QED
      BY <1>1, <1>3, <1>5, <1>8, <2>1, <3>1 DEF KeyOK
  <2>2. CASE j # k
    <3>1. events'[j] = events[j] /\ wait'[j] = wait[j]
      BY <1>1, <1>5, <2>2 DEF DataShape
    <3> QED
      BY <1>1, <1>5, <3>1 DEF KeyOK
  <2> QED
    BY <2>1, <2>2
<1>11. TableOK'
  <2>1. events[k] # <<>>
    <3>1. PICK d \in Nat : Suffix(events[k], es, d)
      BY <1>4 DEF Drops
    <3>2. Len(events[k]) >= 1
      BY <1>2, <1>4, <1>6, <3>1, SuffixLens
    <3> QED
      BY <3>2
  <2>2. es # <<>>
    BY <1>6
  <2>3. \A j \in Keys : events'[j] # <<>> <=> events[j] # <<>>
    BY <1>1, <1>5, <2>1, <2>2 DEF DataShape
  <2> QED
    BY <1>1, <1>5, <2>3 DEF TableOK
<1> QED
  BY <1>1, <1>5, <1>9, <1>10, <1>11 DEF DataOK

(* A permission prunes the stamps of the key.                               *)
LEMMA PermitKeeps ==
  ASSUME Limits, LimiterInv, UNCHANGED <<backend, now>>,
         NEW k \in Keys, Permit(k, Left(k))
  PROVE  DataOK'
<1> DEFINE es == Left(k)
<1>1. /\ now \in Nat /\ now' = now
      /\ DataShape /\ TableOK /\ ~ hasty /\ \A j \in Keys : KeyOK(j)
      /\ backend' = backend /\ backend \in {"memory", "redis"} /\ now \in Int
  BY DEF LimiterInv, DataOK
<1>2. /\ events[k] \in Seq(Nat) /\ granted[k] \in Seq(Nat) /\ spent[k] \in Int
      /\ wait[k] \in [until : Int, head : Int] /\ KeyOK(k)
  BY <1>1 DEF DataShape
<1>3. /\ StampsOK(es, now) /\ TrackOK(es, granted[k], now)
      /\ WaitOK(es, wait[k]) /\ SpentOK(es, spent[k], now)
  BY LeftIs
<1>4. es \in Seq(Nat) /\ (es # <<>> => events[k] # <<>>)
  BY LeftIs
<1>5. /\ events' = [events EXCEPT ![k] = es]
      /\ order' = IF backend = "redis" THEN order
                  ELSE IF es = <<>> THEN Without(order, {k}) ELSE Moved(order, k)
      /\ granted' = granted /\ wait' = wait /\ spent' = spent /\ hasty' = hasty
  BY DEF Permit
<1> HIDE DEF es
<1>6. ASSUME NEW j \in Keys PROVE KeyOK(j)'
  <2>1. CASE j = k
    <3>1. events'[j] = es
      BY <1>1, <1>5, <2>1 DEF DataShape
    <3> QED
      BY <1>1, <1>3, <1>5, <2>1, <3>1 DEF KeyOK
  <2>2. CASE j # k
    <3>1. events'[j] = events[j]
      BY <1>1, <1>5, <2>2 DEF DataShape
    <3> QED
      BY <1>1, <1>5, <3>1 DEF KeyOK
  <2> QED
    BY <2>1, <2>2
<1>7. order \in Seq(Keys) /\ IsInjective(order) /\ Len(order) <= MaxKeys
  BY <1>1 DEF DataShape, TableOK
<1>8. \A j \in Keys : events'[j] = IF j = k THEN es ELSE events[j]
  BY <1>1, <1>5 DEF DataShape
<1>9. order' \in Seq(Keys) /\ TableOK'
  <2>1. CASE backend = "redis"
    BY <1>1, <1>5, <1>7, <2>1 DEF TableOK
  <2>2. CASE backend = "memory" /\ es = <<>>
    <3>1. order' = Without(order, {k})
      BY <1>5, <2>2
    <3>2. /\ order' \in Seq(Keys) /\ IsInjective(order') /\ Range(order') = Range(order) \ {k}
      BY <1>7, <3>1, WithoutEmbeds, WithoutInjective, WithoutRange
    <3>3. Len(order') <= MaxKeys
      <4>1. Len(order') <= Len(order) /\ Len(order) \in Nat /\ Len(order') \in Nat
        BY <1>7, <3>1, <3>2, WithoutShorter, LenIs
      <4> QED
        BY <1>7, <4>1, LimitFacts
    <3>4. \A j \in Keys : j \in Range(order') <=> events'[j] # <<>>
      BY <1>1, <1>8, <2>2, <3>2 DEF TableOK
    <3> QED
      BY <3>2, <3>3, <3>4 DEF TableOK
  <2>3. CASE backend = "memory" /\ es # <<>>
    <3>1. order' = Moved(order, k) /\ k \in Range(order)
      BY <1>1, <1>4, <1>5, <2>3 DEF TableOK
    <3>2. /\ order' \in Seq(Keys) /\ IsInjective(order') /\ Range(order') = Range(order) \cup {k}
          /\ Len(order') = Len(order)
      BY <1>7, <3>1, MovedIs
    <3>3. \A j \in Keys : j \in Range(order') <=> events'[j] # <<>>
      BY <1>1, <1>8, <2>3, <3>2 DEF TableOK
    <3> QED
      BY <1>7, <3>2, <3>3 DEF TableOK
  <2> QED
    BY <1>1, <2>1, <2>2, <2>3
<1>10. DataShape'
  BY <1>1, <1>4, <1>5, <1>9 DEF DataShape
<1> QED
  BY <1>1, <1>5, <1>6, <1>9, <1>10 DEF DataOK

(* Whoever fills the table was let through in the last window, so that more *)
(* keys than fit were used.                                                 *)
LEMMA StillRecent ==
  ASSUME Limits, NEW e \in Nat, NEW s \in Int, NEW n \in Nat,
         e <= s \/ e + Window <= n, ~ (e <= n - Window)
  PROVE  s > n - Window
BY LimitFacts

LEMMA CrowdIsRecent ==
  ASSUME Limits, NEW es \in [Keys -> Seq(Nat)], NEW o \in Seq(Keys),
         NEW n \in Nat, NEW sp \in [Keys -> Int], NEW live, NEW recent,
         Crowd(es, o, n, live),
         \A x \in Range(o) : es[x] # <<>> /\ SpentOK(es[x], sp[x], n),
         recent = {x \in Keys : sp[x] > n - Window}
  PROVE  ~ (Cardinality(recent) <= MaxKeys)
<1>1. /\ live \in Seq(Keys) /\ IsInjective(live) /\ Len(live) > MaxKeys
      /\ \A x \in Range(live) : x \in Range(o) /\ ~ Stale(Last(es[x]), n)
  BY DEF Crowd
<1>2. /\ IsFiniteSet(Range(live)) /\ Cardinality(Range(live)) = Len(live)
      /\ Range(live) \in SUBSET Keys /\ Len(live) \in Nat
  BY <1>1, InjectiveCard, RangeIn, LenIs
<1>3. ASSUME NEW x \in Range(live) PROVE x \in recent
  <2>1. /\ x \in Keys /\ es[x] \in Seq(Nat) /\ es[x] # <<>> /\ sp[x] \in Int
        /\ SpentOK(es[x], sp[x], n) /\ ~ Stale(Last(es[x]), n)
    BY <1>1, <1>2
  <2> DEFINE E == es[x]
             s == sp[x]
  <2>2. E \in Seq(Nat) /\ E # <<>> /\ SpentOK(E, s, n) /\ ~ Stale(Last(E), n) /\ s \in Int
    BY <2>1
  <2> HIDE DEF E, s
  <2>3. Len(E) \in Nat /\ Len(E) >= 1
    BY <2>2, EmptySeq, LenProperties
  <2>4. E[Len(E)] \in Nat
    BY <2>2, <2>3, ElementOfSeq
  <2> DEFINE e == E[Len(E)]
  <2>5. e \in Nat
    BY <2>4
  <2>6. e <= s \/ e + Window <= n
    BY <2>2, <2>3 DEF SpentOK
  <2>7. ~ (e <= n - Window)
    BY <2>2 DEF Stale, Last
  <2> HIDE DEF e
  <2>8. s > n - Window
    BY <2>2, <2>5, <2>6, <2>7, StillRecent
  <2> QED
    BY <2>1, <2>8 DEF s
<1>4. IsFiniteSet(recent)
  <2>1. recent \in SUBSET Keys /\ IsFiniteSet(Keys)
    BY DEF Limits
  <2> QED
    BY <2>1, FS_Subset
<1>5. Cardinality(Range(live)) <= Cardinality(recent) /\ Cardinality(recent) \in Nat
  <2> DEFINE R == Range(live)
  <2>1. R \in SUBSET recent
    BY <1>3
  <2> HIDE DEF R
  <2>2. Cardinality(R) <= Cardinality(recent) /\ Cardinality(recent) \in Nat
    BY <1>4, <2>1, FS_Subset, FS_CardinalityType
  <2> QED
    BY <2>2 DEF R
<1> QED
  BY <1>1, <1>2, <1>5, LimitFacts

(* A use is entered: the stamps of the key and its granted events grow by   *)
(* one, the key moves to the end of the table, and who does not fit goes.   *)
LEMMA EnteringKeeps ==
  ASSUME Limits, LimiterInv, UNCHANGED <<backend, now>>,
         NEW k \in Keys, ~ Full(Left(k)), Enter(k, Left(k))
  PROVE  DataOK'
<1> DEFINE es == Left(k)
           entered == [events EXCEPT ![k] = Append(es, now)]
           lined   == Moved(order, k)
           gone    == IF backend = "redis" THEN {} ELSE Dropped(entered, lined, now)
           alive   == {j \in gone : ~ Stale(Last(entered[j]), now)}
           more    == LastOf(Append(granted[k], now))
<1>1. /\ now \in Nat /\ now' = now
      /\ DataShape /\ TableOK /\ ~ hasty /\ \A j \in Keys : KeyOK(j)
      /\ backend' = backend /\ backend \in {"memory", "redis"} /\ now \in Int
  BY DEF LimiterInv, DataOK
<1>2. /\ events[k] \in Seq(Nat) /\ granted[k] \in Seq(Nat) /\ spent[k] \in Int
      /\ wait[k] \in [until : Int, head : Int] /\ KeyOK(k)
  BY <1>1 DEF DataShape
<1>3. es \in Seq(Nat) /\ StampsOK(es, now) /\ TrackOK(es, granted[k], now)
  BY LeftIs
<1>4. Len(es) < MaxEvents
  <2>1. Len(es) \in Nat
    BY <1>3, LenProperties
  <2> QED
    BY <2>1, LimitFacts DEF Full
<1>5. /\ events' = [j \in Keys |-> IF j \in gone THEN <<>> ELSE entered[j]]
      /\ order' = IF backend = "redis" THEN order ELSE Without(lined, gone)
      /\ spent' = [spent EXCEPT ![k] = now]
      /\ granted' = [j \in Keys |-> IF j \in gone THEN <<>> ELSE IF j = k THEN more ELSE granted[j]]
      /\ wait' = [j \in Keys |-> IF j = k \/ j \in gone THEN NoWait ELSE wait[j]]
      /\ hasty' = (hasty \/ (alive # {} /\ Cardinality(Recent) <= MaxKeys))
  BY DEF Enter
<1>6. entered \in [Keys -> Seq(Nat)] /\ entered[k] = Append(es, now)
      /\ \A j \in Keys : j # k => entered[j] = events[j]
  <2>1. Append(es, now) \in Seq(Nat)
    BY <1>1, <1>3, AppendProperties
  <2> HIDE DEF es
  <2> QED
    BY <1>1, <2>1 DEF DataShape
<1> HIDE DEF es, entered
<1>7. /\ more \in Seq(Nat) /\ StampsOK(Append(es, now), now)
      /\ TrackOK(Append(es, now), more, now) /\ SpentOK(Append(es, now), now, now)
  BY <1>1, <1>2, <1>3, <1>4, EnterKeeps
<1> HIDE DEF more
<1>8. spent' \in [Keys -> Int] /\ \A j \in Keys : spent'[j] = IF j = k THEN now ELSE spent[j]
  BY <1>1, <1>5 DEF DataShape
<1>9. ASSUME NEW j \in Keys PROVE SpentOK(entered[j], spent'[j], now)
  BY <1>1, <1>6, <1>7, <1>8 DEF KeyOK
<1>10. ASSUME NEW j \in Keys PROVE KeyOK(j)'
  <2>1. CASE j \in gone
    <3>1. events'[j] = <<>> /\ granted'[j] = <<>> /\ wait'[j] = NoWait
      BY <1>5, <2>1
    <3>2. /\ StampsOK(<<>>, now) /\ TrackOK(<<>>, <<>>, now)
          /\ SpentOK(<<>>, spent'[j], now) /\ WaitOK(<<>>, NoWait)
      BY <1>1, Forgotten
    <3> QED
      BY <1>1, <3>1, <3>2 DEF KeyOK
  <2>2. CASE j \notin gone /\ j = k
    <3>1. events'[j] = Append(es, now) /\ granted'[j] = more /\ wait'[j] = NoWait /\ spent'[j] = now
      BY <1>5, <1>6, <1>8, <2>2
    <3>2. WaitOK(Append(es, now), NoWait)
      BY <1>1, Forgotten
    <3> QED
      BY <1>1, <1>7, <3>1, <3>2 DEF KeyOK
  <2>3. CASE j \notin gone /\ j # k
    <3>1. /\ events'[j] = events[j] /\ granted'[j] = granted[j] /\ wait'[j] = wait[j]
          /\ spent'[j] = spent[j]
      BY <1>5, <1>6, <1>8, <2>3
    <3> QED
      BY <1>1, <3>1 DEF KeyOK
  <2> QED
    BY <2>1, <2>2, <2>3
<1>11. order \in Seq(Keys) /\ IsInjective(order) /\ Len(order) <= MaxKeys
       /\ Len(order) \in Nat /\ MaxKeys \in Nat
  BY <1>1, LenIs, LimitFacts DEF DataShape, TableOK
<1>12. /\ lined \in Seq(Keys) /\ IsInjective(lined) /\ Range(lined) = Range(order) \cup {k}
       /\ Len(lined) <= MaxKeys + 1
  <2>1. /\ lined \in Seq(Keys) /\ IsInjective(lined) /\ Range(lined) = Range(order) \cup {k}
        /\ Len(lined) <= Len(order) + 1
    BY <1>11, MovedIs
  <2> HIDE DEF lined
  <2>2. Len(lined) \in Nat
    BY <2>1, LenIs
  <2> QED
    BY <1>11, <2>1, <2>2
<1> HIDE DEF lined
<1>13. order' \in Seq(Keys) /\ TableOK'
  <2>1. CASE backend = "redis"
    BY <1>1, <1>5, <1>11, <2>1 DEF TableOK
  <2>2. CASE backend = "memory"
    <3>1. gone = Dropped(entered, lined, now)
      BY <2>2
    <3>2. order' = Without(lined, gone)
      BY <1>5, <2>2
    <3>3. gone \in SUBSET Range(lined) /\ Len(Without(lined, gone)) <= MaxKeys
      BY <1>1, <1>6, <1>12, <3>1, DroppedIs
    <3> HIDE DEF gone
    <3>4. /\ order' \in Seq(Keys) /\ IsInjective(order') /\ Range(order') = Range(lined) \ gone
      BY <1>12, <3>2, WithoutEmbeds, WithoutInjective, WithoutRange
    <3>5. ASSUME NEW j \in Keys PROVE j \in Range(order') <=> events'[j] # <<>>
      <4>1. Append(es, now) # <<>>
        BY <1>1, <1>3, AppendSome
      <4>2. j \in Range(lined) <=> entered[j] # <<>>
        BY <1>1, <1>6, <1>12, <2>2, <4>1 DEF TableOK
      <4> QED
        BY <1>5, <3>4, <4>2
    <3> QED
      BY <3>2, <3>3, <3>4, <3>5 DEF TableOK
  <2> QED
    BY <1>1, <2>1, <2>2
<1>14. ~ hasty' /\ hasty' \in BOOLEAN
  <2>1. ASSUME NEW j \in alive PROVE ~ (Cardinality(Recent) <= MaxKeys)
    <3>1. j \in gone /\ ~ Stale(Last(entered[j]), now)
      BY <2>1
    <3>2. backend = "memory" /\ j \in Dropped(entered, lined, now)
      BY <1>1, <3>1
    <3>3. PICK live : Crowd(entered, lined, now, live)
      BY <1>1, <1>6, <1>12, <3>1, <3>2, DroppedIs
    <3>4. \A x \in Range(lined) : entered[x] # <<>> /\ SpentOK(entered[x], spent'[x], now)
      <4>1. Append(es, now) # <<>>
        BY <1>1, <1>3, AppendSome
      <4>2. Range(lined) \in SUBSET Keys
        <5>1. lined \in Seq(Keys)
          BY <1>12
        <5> QED
          BY <5>1, RangeIn
      <4> QED
        BY <1>1, <1>6, <1>9, <1>12, <3>2, <4>1, <4>2 DEF TableOK
    <3> DEFINE recent == Recent
               sp == spent'
    <3>5. recent = {x \in Keys : sp[x] > now - Window} /\ sp \in [Keys -> Int]
      BY <1>8 DEF Recent
    <3>6. \A x \in Range(lined) : entered[x] # <<>> /\ SpentOK(entered[x], sp[x], now)
      BY <3>4
    <3> HIDE DEF recent, sp
    <3>7. ~ (Cardinality(recent) <= MaxKeys)
      BY <1>1, <1>6, <1>12, <3>3, <3>5, <3>6, CrowdIsRecent
    <3> QED
      BY <3>7 DEF recent
  <2> QED
    BY <1>1, <1>5, <2>1
<1>15. DataShape'
  <2>1. events' \in [Keys -> Seq(Nat)]
    BY <1>5, <1>6, EmptySeq
  <2>2. granted' \in [Keys -> Seq(Nat)]
    BY <1>1, <1>5, <1>7, EmptySeq DEF DataShape
  <2>3. wait' \in [Keys -> [until : Int, head : Int]]
    <3>1. NoWait \in [until : Int, head : Int]
      BY DEF NoWait
    <3> QED
      BY <1>1, <1>5, <3>1 DEF DataShape
  <2> QED
    BY <1>8, <1>13, <1>14, <2>1, <2>2, <2>3 DEF DataShape
<1> QED
  BY <1>10, <1>13, <1>14, <1>15 DEF DataOK

(* After a success the key is forgotten.                                    *)
LEMMA ClearingKeeps ==
  ASSUME Limits, LimiterInv, NEW k \in Keys, Clear(k)
  PROVE  DataOK'
<1>1. /\ now' = now /\ backend' = backend /\ hasty' = hasty
      /\ events' = [events EXCEPT ![k] = <<>>] /\ order' = Without(order, {k})
      /\ granted' = [granted EXCEPT ![k] = <<>>] /\ wait' = [wait EXCEPT ![k] = NoWait]
      /\ spent' = [spent EXCEPT ![k] = Never]
  BY DEF Clear
<1>2. /\ now \in Nat /\ DataShape /\ TableOK /\ ~ hasty
      /\ \A j \in Keys : KeyOK(j)
  BY <1>1 DEF LimiterInv, DataOK
<1>3. /\ order \in Seq(Keys) /\ IsInjective(order) /\ Len(order) <= MaxKeys
      /\ MaxKeys \in Nat /\ Never \in Int
  BY <1>2, LimitFacts DEF DataShape, TableOK, Never
<1>4. /\ order' \in Seq(Keys) /\ IsInjective(order') /\ Range(order') = Range(order) \ {k}
      /\ Len(order') <= MaxKeys
  <2>1. /\ order' \in Seq(Keys) /\ IsInjective(order') /\ Range(order') = Range(order) \ {k}
        /\ Len(order') <= Len(order)
    BY <1>1, <1>3, WithoutEmbeds, WithoutInjective, WithoutRange, WithoutShorter
  <2>2. Len(order) \in Nat /\ Len(order') \in Nat
    BY <1>3, <2>1, LenIs
  <2> QED
    BY <1>3, <2>1, <2>2
<1>5. ASSUME NEW j \in Keys
      PROVE  /\ events'[j] = IF j = k THEN <<>> ELSE events[j]
             /\ granted'[j] = IF j = k THEN <<>> ELSE granted[j]
             /\ wait'[j] = IF j = k THEN NoWait ELSE wait[j]
             /\ spent'[j] = IF j = k THEN Never ELSE spent[j]
  BY <1>1, <1>2 DEF DataShape
<1>6. ASSUME NEW j \in Keys PROVE KeyOK(j)'
  <2>1. CASE j = k
    <3>1. /\ StampsOK(<<>>, now) /\ TrackOK(<<>>, <<>>, now)
          /\ SpentOK(<<>>, Never, now) /\ WaitOK(<<>>, NoWait)
      BY <1>2, Forgotten
    <3> QED
      BY <1>1, <1>2, <1>5, <2>1, <3>1 DEF KeyOK
  <2>2. CASE j # k
    BY <1>1, <1>2, <1>5, <2>2 DEF KeyOK
  <2> QED
    BY <2>1, <2>2
<1>7. TableOK'
  BY <1>1, <1>2, <1>4, <1>5 DEF TableOK
<1>8. DataShape'
  <2>1. NoWait \in [until : Int, head : Int] /\ <<>> \in Seq(Nat)
    BY DEF NoWait
  <2> QED
    BY <1>1, <1>2, <1>3, <1>4, <2>1 DEF DataShape
<1> QED
  BY <1>1, <1>2, <1>6, <1>7, <1>8 DEF DataOK

(* A tick forgets what has left the window.                                 *)
LEMMA TickingKeeps ==
  ASSUME Limits, LimiterInv, Tick
  PROVE  DataOK'
<1>1. /\ now' = now + 1 /\ backend' = backend /\ events' = events /\ order' = order
      /\ wait' = wait /\ hasty' = hasty
      /\ granted' = [k \in Keys |-> Pruned(granted[k], now')]
      /\ spent' = [k \in Keys |-> IF spent[k] > now' - Window THEN spent[k] ELSE Never]
  BY DEF Tick
<1>2. /\ now \in Nat /\ DataShape /\ TableOK /\ ~ hasty
      /\ Never \in Int
  BY <1>1, LimitFacts DEF LimiterInv, DataOK, Never
<1>3. ASSUME NEW k \in Keys PROVE granted'[k] \in Seq(Nat) /\ KeyOK(k)'
  <2>1. /\ events[k] \in Seq(Nat) /\ granted[k] \in Seq(Nat) /\ spent[k] \in Int /\ KeyOK(k)
    BY <1>2 DEF DataShape, LimiterInv, DataOK
  <2>2. /\ Pruned(granted[k], now + 1) \in Seq(Nat)
        /\ StampsOK(events[k], now + 1)
        /\ TrackOK(events[k], Pruned(granted[k], now + 1), now + 1)
        /\ SpentOK(events[k], IF spent[k] > now + 1 - Window THEN spent[k] ELSE Never, now + 1)
    BY <1>2, <2>1, TimeKeeps DEF KeyOK
  <2>3. /\ granted'[k] = Pruned(granted[k], now + 1)
        /\ spent'[k] = IF spent[k] > now + 1 - Window THEN spent[k] ELSE Never
    <3> DEFINE n == now'
    <3>1. /\ granted'[k] = Pruned(granted[k], n)
          /\ spent'[k] = IF spent[k] > n - Window THEN spent[k] ELSE Never
      BY <1>1
    <3>2. n = now + 1 /\ now \in Nat
      BY <1>1, <1>2
    <3> HIDE DEF n
    <3>3. granted'[k] = Pruned(granted[k], now + 1)
      BY <3>1, <3>2
    <3>4. spent'[k] = IF spent[k] > now + 1 - Window THEN spent[k] ELSE Never
      BY <2>1, <3>1, <3>2, LimitFacts
    <3> QED
      BY <3>3, <3>4
  <2> QED
    BY <1>1, <1>2, <2>1, <2>2, <2>3 DEF KeyOK
<1>4. DataShape'
  <2>1. granted' \in [Keys -> Seq(Nat)]
    BY <1>1, <1>3
  <2>2. spent' \in [Keys -> Int]
    BY <1>1, <1>2 DEF DataShape
  <2> QED
    BY <1>1, <1>2, <2>1, <2>2 DEF DataShape
<1>5. TableOK'
  BY <1>1, <1>2 DEF TableOK
<1> QED
  BY <1>1, <1>2, <1>3, <1>4, <1>5 DEF DataOK

LEMMA LimiterInductive ==
  ASSUME Limits, LimiterInv, [LimitNext]_limitVars
  PROVE  LimiterInv'
<1>1. /\ backend \in {"memory", "redis"} /\ now \in Nat /\ DataOK
  BY DEF LimiterInv
<1>2. CASE Tick
  <2>1. backend' = backend /\ now' = now + 1
    BY <1>2 DEF Tick
  <2> QED
    BY <1>1, <1>2, <2>1, TickingKeeps DEF LimiterInv
<1>3. ASSUME NEW k \in Keys, Check(k) PROVE LimiterInv'
  <2>1. UNCHANGED <<backend, now>> /\ IF Full(Left(k)) THEN Refuse(k, Left(k)) ELSE Permit(k, Left(k))
    BY <1>3 DEF Check
  <2>2. DataOK'
    BY <2>1, RefuseKeeps, PermitKeeps
  <2> QED
    BY <1>1, <2>1, <2>2 DEF LimiterInv
<1>4. ASSUME NEW k \in Keys, Record(k) PROVE LimiterInv'
  <2>1. UNCHANGED <<backend, now>> /\ IF Full(Left(k)) THEN Refuse(k, Left(k)) ELSE Enter(k, Left(k))
    BY <1>4 DEF Record
  <2>2. DataOK'
    BY <2>1, RefuseKeeps, EnteringKeeps
  <2> QED
    BY <1>1, <2>1, <2>2 DEF LimiterInv
<1>5. ASSUME NEW k \in Keys, Clear(k) PROVE LimiterInv'
  BY <1>1, <1>5, ClearingKeeps DEF LimiterInv, Clear
<1>6. CASE UNCHANGED limitVars
  <2>1. UNCHANGED <<backend, now, events, order, granted, wait, spent, hasty>>
    BY <1>6 DEF limitVars
  <2>2. DataOK'
    BY <1>1, <2>1 DEF DataOK, DataShape, TableOK, KeyOK
  <2> QED
    BY <1>1, <2>1, <2>2 DEF LimiterInv
<1> QED
  BY <1>2, <1>3, <1>4, <1>5, <1>6 DEF LimitNext

-----------------------------------------------------------------------------
(* What the invariant gives.                                                *)

LEMMA InvGivesTypes ==
  ASSUME Limits, LimiterInv PROVE LimitTypeOK
<1>1. DataShape /\ TableOK /\ now \in Nat /\ \A k \in Keys : StampsOK(events[k], now)
  BY DEF LimiterInv, DataOK, KeyOK
<1>2. ASSUME NEW k \in Keys
      PROVE  Len(events[k]) <= MaxEvents /\ \A i \in DOMAIN events[k] : events[k][i] \in 0 .. now
  <2>1. events[k] \in Seq(Nat) /\ StampsOK(events[k], now)
    BY <1>1 DEF DataShape
  <2> DEFINE E == events[k]
  <2>2. E \in Seq(Nat) /\ DOMAIN E = 1 .. Len(E) /\ Len(E) <= MaxEvents
    BY <2>1, LenIs DEF StampsOK
  <2>3. \A i \in 1 .. Len(E) : E[i] \in Nat /\ E[i] <= now
    BY <2>1, ElementOfSeq DEF StampsOK
  <2> HIDE DEF E
  <2>4. \A i \in DOMAIN E : E[i] \in 0 .. now
    BY <1>1, <2>2, <2>3
  <2> QED
    BY <2>2, <2>4 DEF E
<1>3. backend = "memory" => Range(order) = {k \in Keys : events[k] # <<>>} /\ IsInjective(order)
  <2>1. order \in Seq(Keys) /\ Range(order) \in SUBSET Keys
    BY <1>1, RangeIn DEF DataShape
  <2> QED
    BY <1>1, <2>1 DEF TableOK
<1> QED
  BY <1>1, <1>2, <1>3 DEF LimitTypeOK, TableOK

LEMMA InvGivesWindow ==
  ASSUME Limits, LimiterInv PROVE WindowHolds
<1> SUFFICES ASSUME NEW k \in Keys, Len(granted[k]) > MaxEvents
             PROVE  Last(granted[k]) - Head(granted[k]) >= Window
  BY DEF WindowHolds
<1> DEFINE G == granted[k]
<1>1. G \in Seq(Nat) /\ TrackOK(events[k], G, now) /\ Len(G) > MaxEvents
  BY DEF LimiterInv, DataOK, DataShape, KeyOK
<1> HIDE DEF G
<1>2. Len(G) \in Nat /\ Len(G) >= 1
  BY <1>1, LenProperties, LimitFacts
<1>3. G # <<>>
  BY <1>2
<1>4. Head(G) = G[1] /\ Last(G) = G[Len(G)]
  BY <1>1, <1>3, HeadTailProperties DEF Last
<1>5. Last(G) - Head(G) >= Window
  BY <1>1, <1>4 DEF TrackOK
<1> QED
  BY <1>5 DEF G

LEMMA InvGivesRetry ==
  ASSUME Limits, LimiterInv PROVE RetryAfterIsTrue
<1> SUFFICES ASSUME NEW k \in Keys, wait[k].until # 0
             PROVE  /\ now >= wait[k].until => ~ Full(Pruned(events[k], now))
                    /\ wait[k].until <= wait[k].head + Window + Second
  BY DEF RetryAfterIsTrue
<1> DEFINE E == events[k]
           F == Pruned(E, now)
           w == wait[k]
<1>1. /\ E \in Seq(Nat) /\ now \in Nat /\ now \in Int /\ w.until # 0 /\ StampsOK(E, now)
      /\ WaitOK(E, w) /\ w.until \in Int /\ w.head \in Int
  BY DEF LimiterInv, DataOK, DataShape, KeyOK
<1> HIDE DEF E, w
<1>2. F \in Seq(Nat) /\ \E d \in Nat : Drops(E, F, d, now)
  BY <1>1, PrunedIs
<1> HIDE DEF F
<1>3. ASSUME now >= w.until, Full(F) PROVE FALSE
  <2>1. PICK d \in Nat : Drops(E, F, d, now)
    BY <1>2
  <2>2. /\ Len(E) \in Nat /\ Len(F) \in Nat /\ Len(F) + d = Len(E)
    BY <1>1, <1>2, <2>1, SuffixLens DEF Drops
  <2>3. Len(E) = MaxEvents /\ d = 0
    BY <1>1, <1>3, <2>2, LimitFacts DEF Full, StampsOK
  <2>4. w.until >= w.head + Window /\ E[1] <= w.head
    BY <1>1, <2>3 DEF WaitOK
  <2>5. 1 \in 1 .. Len(E)
    BY <2>2, <2>3, LimitFacts
  <2> DEFINE e == E[1]
  <2>6. e \in Nat /\ e <= w.head /\ ~ Stale(e, now)
    <3>1. E[1] \in Nat
      BY <1>1, <2>5, ElementOfSeq
    <3>2. d < Len(E) /\ d + 1 = 1
      BY <2>3, <2>5
    <3> QED
      BY <2>1, <2>4, <3>1, <3>2 DEF Drops
  <2>7. ~ (e <= now - Window)
    BY <2>6 DEF Stale
  <2> HIDE DEF e
  <2> DEFINE u == w.until
             h == w.head
  <2>8. u \in Int /\ h \in Int /\ now >= u /\ u >= h + Window /\ e <= h
    BY <1>1, <1>3, <2>4, <2>6
  <2> HIDE DEF u, h
  <2> QED
    BY <1>1, <2>6, <2>7, <2>8, LimitFacts
<1>4. w.until <= w.head + Window + Second
  BY <1>1 DEF WaitOK
<1> QED
  BY <1>3, <1>4 DEF E, F, w

LEMMA InvGivesFit ==
  ASSUME LimiterInv PROVE TableFits
BY DEF LimiterInv, DataOK, TableFits

-----------------------------------------------------------------------------
(* The invariant holds in every reachable state, for every set of keys,     *)
(* every limit, window and size of the table, both with Redis and without.  *)
THEOREM LimiterKeepsInv ==
  ASSUME Limits PROVE LimitSpec => []LimiterInv
<1>1. LimitInit => LimiterInv
  BY StartOK
<1>2. LimiterInv /\ [LimitNext]_limitVars => LimiterInv'
  BY LimiterInductive
<1> QED
  BY <1>1, <1>2, PTL DEF LimitSpec

(* The table never holds more than MaxKeys keys nor more than MaxEvents     *)
(* stamps of one, lists each key once, and knows a key if and only if it    *)
(* has stamps of it (_events of SlidingWindowLimiter).      *)
THEOREM TypesHold ==
  ASSUME Limits PROVE LimitSpec => []LimitTypeOK
<1>1. LimiterInv => LimitTypeOK
  BY InvGivesTypes
<1> QED
  BY <1>1, LimiterKeepsInv, PTL

(* No key is let through more than MaxEvents times within a window (record  *)
(* of SlidingWindowLimiter, and the script of Redis), as long as the table  *)
(* has not forgotten it.                                                    *)
THEOREM WindowIsKept ==
  ASSUME Limits PROVE LimitSpec => []WindowHolds
<1>1. LimiterInv => WindowHolds
  BY InvGivesWindow
<1> QED
  BY <1>1, LimiterKeepsInv, PTL

(* A key that waits as long as Retry-After said is let through if nobody    *)
(* used it meanwhile, and is told at most a second more than it needs.      *)
THEOREM RetryAfterIsTold ==
  ASSUME Limits PROVE LimitSpec => []RetryAfterIsTrue
<1>1. LimiterInv => RetryAfterIsTrue
  BY InvGivesRetry
<1> QED
  BY <1>1, LimiterKeepsInv, PTL

(* The table forgets a key that still counts only if more keys than fit     *)
(* were used within the window.                                             *)
THEOREM NoneForgottenEarly ==
  ASSUME Limits PROVE LimitSpec => []TableFits
<1>1. LimiterInv => TableFits
  BY InvGivesFit
<1> QED
  BY <1>1, LimiterKeepsInv, PTL

(* All of it, as the run checks it of two instances: what check, record and *)
(* clear promise together.                                                  *)
THEOREM LimiterIsKept ==
  ASSUME Limits PROVE LimitSpec => []LimiterKeeps
<1>1. LimitTypeOK /\ WindowHolds /\ RetryAfterIsTrue /\ TableFits => LimiterKeeps
  BY DEF LimiterKeeps
<1> QED
  BY TypesHold, WindowIsKept, RetryAfterIsTold, NoneForgottenEarly, <1>1, PTL

-----------------------------------------------------------------------------
(* Git.                                                                       *)

States == {"idle", "loaded", "read", "put", "named"}
PushStates == [st : States, snap : Bodies, body : Bodies, sha : Bodies, at : Nat, clean : BOOLEAN]
OwnBodies == {By("app", v) : v \in Values}

\* A push that has left "idle" carries a rendered body; from its write on it
\* names a commit.
Sound(p, n) ==
  /\ p \in PushStates
  /\ p.st # "idle" => p.body \in OwnBodies
  /\ p.st \in {"put", "named"} => p.at \in 1..n

PushType == /\ push = [q \in Pushes |-> push[q]]
            /\ \A q \in Pushes : Sound(push[q], Newest)

\* A sync that has left "idle" reads the branch at one of its commits; from
\* its read of the row on there is a file at that commit.
TestRows == [says : Values, body : Bodies \ {NoFile}, ref : Nat]
SyncStates == [st : {"idle", "fetched", "loaded"}, at : Nat, was : TestRows \cup {NoRow},
               clean : BOOLEAN, met : BOOLEAN]
Reaches(p, n) == p \in SyncStates /\ p.at <= n /\ (p.st # "idle" => p.at \in 1..n)
SyncType == /\ sync = [s \in Syncs |-> sync[s]]
            /\ \A s \in Syncs : Reaches(sync[s], Newest)
SyncFound == \A s \in Syncs : sync[s].st = "loaded" => log[sync[s].at] # NoFile

RowType == row \in [says : Values, body : Bodies \ {NoFile}, ref : 1..Newest]
LogType == log \in Seq(Bodies) /\ Len(log) \in 1..MaxCommits
Types == LogType /\ RowType /\ PushType /\ SyncType /\ SyncFound /\ unseen \subseteq 1..Newest

-----------------------------------------------------------------------------
(* Files and the branch.                                                     *)

\* Rendered bodies and bodies by hand are bodies, and not NoFile.
LEMMA BodiesHold ==
  ASSUME NEW v \in Values
  PROVE  /\ By("app", v) \in Bodies \ {NoFile} /\ By("app", v).says = v
         /\ By("hand", v) \in Bodies \ {NoFile} /\ By("hand", v).says = v
  BY DEF Bodies, By, NoFile

\* No file is a body, too.
LEMMA NoFileHolds == NoFile \in Bodies
  BY DEF Bodies

\* A file that is there says one of the values.
LEMMA SaysAValue == ASSUME NEW f \in Bodies, f # NoFile PROVE f.says \in Values
  BY DEF Bodies, By, NoFile

\* The file of the branch is the one after its last commit.
LEMMA FileIsLast ==
  ASSUME MaxCommits \in Nat, LogType
  PROVE  Newest \in Nat \ {0} /\ File = log[Newest] /\ File \in Bodies
  BY DEF LogType, File, Last, Newest

\* What a commit does to the branch (put_file of github_sync.py, or somebody
\* else's): one file more, the others as they were.
LEMMA Grown ==
  ASSUME MaxCommits \in Nat, LogType, NEW f \in Bodies, Newest < MaxCommits, log' = Append(log, f)
  PROVE  /\ LogType' /\ Newest' = Newest + 1 /\ Newest \in Nat
         /\ log'[Newest'] = f
         /\ \A k \in 1..Newest : log'[k] = log[k]
  BY DEF LogType, Newest

\* An action that does not commit leaves the branch.
LEMMA Stays ==
  ASSUME MaxCommits \in Nat, LogType, log' = log
  PROVE  LogType' /\ Newest' = Newest /\ Newest \in Nat
  BY DEF LogType, Newest

-----------------------------------------------------------------------------
(* Types.                                                                    *)

\* A push that is not under way is sound.
LEMMA IdleSound == ASSUME NEW n \in Nat PROVE Sound(Idle, n)
  BY NoFileHolds DEF Sound, PushStates, States, Idle

\* A push that has written, and knows where, is sound.
LEMMA WrittenSound ==
  ASSUME NEW n \in Nat, NEW p \in PushStates, p.body \in OwnBodies,
         NEW st \in {"put", "named"}, NEW k \in 1..n
  PROVE  Sound([p EXCEPT !.st = st, !.at = k], n)
<1> DEFINE to == [p EXCEPT !.st = st, !.at = k]
<1> HIDE DEF to
<1>1. st \in States /\ k \in Nat /\ to \in PushStates
  <2>1. st \in States /\ k \in Nat
    BY DEF States
  <2> QED
    BY <2>1 DEF PushStates, to
<1>2. to.st = st /\ to.body = p.body /\ to.at = k
  BY DEF PushStates, to
<1>3. Sound(to, n)
  BY <1>1, <1>2 DEF Sound
<1> QED
  BY <1>3 DEF to

\* One push goes on, the others stay, the branch may have grown.
LEMMA PushTypeKept ==
  ASSUME PushType, Newest \in Nat, Newest' \in Nat, Newest <= Newest',
         NEW q \in Pushes, NEW to, Sound(to, Newest'), push' = [push EXCEPT ![q] = to]
  PROVE  PushType'
<1>1. push' = [r \in Pushes |-> IF r = q THEN to ELSE push[r]]
  BY DEF PushType
<1>2. ASSUME NEW r \in Pushes PROVE Sound(push'[r], Newest')
  <2>1. CASE r = q
    BY <1>1, <2>1
  <2>2. CASE r # q
    <3>1. push'[r] = push[r] /\ Sound(push[r], Newest)
      BY <1>1, <2>2 DEF PushType
    <3> QED
      BY <3>1 DEF Sound
  <2> QED
    BY <2>1, <2>2
<1>3. push' = [r \in Pushes |-> push'[r]]
  BY <1>1
<1> QED
  BY <1>2, <1>3 DEF PushType

\* The same, when nobody commits.
LEMMA PushTypeGoes ==
  ASSUME PushType, Newest \in Nat, Newest' = Newest,
         NEW q \in Pushes, NEW to, Sound(to, Newest), push' = [push EXCEPT ![q] = to]
  PROVE  PushType'
<1>1. Newest' \in Nat /\ Newest <= Newest' /\ Sound(to, Newest')
  OBVIOUS
<1> QED
  BY <1>1, PushTypeKept

\* A sync that is not under way is where it may be.
LEMMA DoneReaches == ASSUME NEW n \in Nat PROVE Reaches(Done, n) /\ Done.st = "idle"
  BY DEF Reaches, SyncStates, Done, SyncAt

\* A sync stays where it was when the branch grows.
LEMMA ReachesOn ==
  ASSUME NEW n \in Nat, NEW m \in Nat, n <= m, NEW p, Reaches(p, n) PROVE Reaches(p, m)
<1>1. p.at \in Nat
  BY DEF Reaches, SyncStates
<1> QED
  BY <1>1 DEF Reaches

\* A sync that has read the branch, or the row, too.
LEMMA FetchedReaches ==
  ASSUME NEW n \in Nat, NEW k \in 1..n, NEW w \in TestRows
  PROVE  Reaches(SyncAt("fetched", k, NoRow), n) /\ Reaches(SyncAt("loaded", k, w), n)
  BY DEF Reaches, SyncStates, SyncAt

\* One sync goes on, the others stay.
LEMMA SyncTypeKept ==
  ASSUME SyncType, SyncFound, Newest \in Nat, Newest' = Newest, log' = log,
         NEW s \in Syncs, NEW to, Reaches(to, Newest), sync' = [sync EXCEPT ![s] = to],
         to.st = "loaded" => log[to.at] # NoFile
  PROVE  /\ SyncType' /\ SyncFound' /\ sync'[s] = to
         /\ \A r \in Syncs : r # s => sync'[r] = sync[r]
<1>1. sync' = [r \in Syncs |-> IF r = s THEN to ELSE sync[r]]
  BY DEF SyncType
<1>2. ASSUME NEW r \in Syncs PROVE Reaches(sync'[r], Newest')
  BY <1>1 DEF SyncType
<1>3. sync' = [r \in Syncs |-> sync'[r]]
  BY <1>1
<1>4. sync'[s] = to /\ \A r \in Syncs : r # s => sync'[r] = sync[r]
  BY <1>1
<1>5. SyncFound'
  BY <1>4 DEF SyncFound
<1> QED
  BY <1>2, <1>3, <1>4, <1>5 DEF SyncType

\* An edit, or a commit to the row, leaves the syncs under way where they are.
LEMMA MetIs ==
  ASSUME SyncType, NEW done, sync' = Met(done)
  PROVE  /\ sync' = [r \in Syncs |-> sync'[r]]
         /\ \A r \in Syncs : IF r \in done THEN sync'[r] = Done
                             ELSE /\ sync'[r] \in SyncStates /\ sync'[r].met
                                  /\ sync'[r].st = sync[r].st /\ sync'[r].at = sync[r].at
<1>1. sync' = [r \in Syncs |-> IF r \in done THEN Done ELSE [sync[r] EXCEPT !.met = TRUE]]
  BY DEF Met
<1>2. ASSUME NEW r \in Syncs PROVE sync[r] \in SyncStates
  BY DEF SyncType, Reaches
<1>3. ASSUME NEW r \in Syncs, r \notin done
      PROVE  /\ sync'[r] \in SyncStates /\ sync'[r].met
             /\ sync'[r].st = sync[r].st /\ sync'[r].at = sync[r].at
  <2> DEFINE p == sync[r]
  <2>1. p \in SyncStates /\ sync'[r] = [p EXCEPT !.met = TRUE]
    BY <1>1, <1>2, <1>3
  <2> HIDE DEF p
  <2>2. sync'[r] \in SyncStates /\ sync'[r].met /\ sync'[r].st = p.st /\ sync'[r].at = p.at
    BY <2>1 DEF SyncStates
  <2> QED
    BY <2>2 DEF p
<1> QED
  BY <1>1, <1>3

LEMMA EditedIs ==
  ASSUME SyncType, sync' = [r \in Syncs |-> [sync[r] EXCEPT !.clean = FALSE]]
  PROVE  /\ sync' = [r \in Syncs |-> sync'[r]]
         /\ \A r \in Syncs : /\ sync'[r] \in SyncStates /\ sync'[r].clean = FALSE
                             /\ sync'[r].st = sync[r].st /\ sync'[r].at = sync[r].at
                             /\ sync'[r].was = sync[r].was /\ sync'[r].met = sync[r].met
<1>1. ASSUME NEW r \in Syncs PROVE sync[r] \in SyncStates
  BY DEF SyncType, Reaches
<1> QED
  BY <1>1 DEF SyncStates

LEMMA SyncTypeAll ==
  ASSUME SyncType, SyncFound, Newest \in Nat, Newest' = Newest, log' = log,
         sync' = [r \in Syncs |-> sync'[r]],
         \A r \in Syncs : \/ sync'[r] = Done
                         \/ /\ sync'[r] \in SyncStates
                            /\ sync'[r].st = sync[r].st /\ sync'[r].at = sync[r].at
  PROVE  SyncType' /\ SyncFound'
<1>1. ASSUME NEW r \in Syncs
      PROVE  Reaches(sync'[r], Newest') /\ (sync'[r].st = "loaded" => log'[sync'[r].at] # NoFile)
  <2>1. CASE sync'[r] = Done
    BY <2>1, DoneReaches
  <2>2. CASE /\ sync'[r] \in SyncStates
             /\ sync'[r].st = sync[r].st /\ sync'[r].at = sync[r].at
    BY <2>2 DEF SyncType, SyncFound, Reaches
  <2> QED
    BY <2>1, <2>2
<1>2. SyncType'
  BY <1>1 DEF SyncType
<1>3. SyncFound'
  BY <1>1 DEF SyncFound
<1> QED
  BY <1>2, <1>3

\* What an action leaves alone keeps its type, also when the branch grows.
LEMMA ReachKept ==
  ASSUME Types, Newest \in Nat, Newest' \in Nat, Newest <= Newest',
         \A k \in 1..Newest : log'[k] = log[k]
  PROVE  /\ push' = push => PushType'
         /\ sync' = sync => SyncType' /\ SyncFound'
         /\ row' = row => RowType'
         /\ unseen' = unseen => unseen' \subseteq 1..Newest'
<1>1. push' = push => PushType'
  BY DEF Types, PushType, Sound
<1>2. sync' = sync => SyncType' /\ SyncFound'
  <2>1. SyncType /\ SyncFound
    BY DEF Types
  <2>2. sync' = sync => SyncType'
    <3>1. ASSUME NEW s \in Syncs PROVE Reaches(sync[s], Newest')
      BY <2>1, ReachesOn DEF SyncType
    <3> QED
      BY <2>1, <3>1 DEF SyncType
  <2>3. sync' = sync => SyncFound'
    BY <2>1 DEF SyncType, SyncFound, Reaches
  <2> QED
    BY <2>2, <2>3
<1>3. row' = row => RowType'
  BY DEF Types, RowType
<1>4. unseen' = unseen => unseen' \subseteq 1..Newest'
  BY DEF Types
<1> QED
  BY <1>1, <1>2, <1>3, <1>4

\* The first state of a synced test has its types.
LEMMA TypesInit == ASSUME MaxCommits \in Nat \ {0}, GitInit PROVE Types
<1>1. PICK v \in Values : log = <<By("hand", v)>> /\ row = [says |-> v, body |-> By("hand", v), ref |-> 1]
  BY DEF GitInit
<1>2. By("hand", v) \in Bodies \ {NoFile}
  BY BodiesHold
<1>3. LogType /\ Newest = 1
  BY <1>1, <1>2 DEF LogType, Newest
<1>4. RowType
  <2>1. row.says = v /\ row.body = By("hand", v) /\ row.ref = 1 /\ 1 \in 1..Newest
    BY <1>1, <1>3
  <2> QED
    BY <1>1, <1>2, <2>1 DEF RowType
<1>5. PushType
  BY <1>3, IdleSound DEF GitInit, PushType
<1>6. SyncType /\ SyncFound
  BY <1>3, DoneReaches DEF GitInit, SyncType, SyncFound
<1> QED
  BY <1>3, <1>4, <1>5, <1>6 DEF GitInit, Types

\* What every request that is not a write leaves alone.
LEMMA BranchStays ==
  ASSUME MaxCommits \in Nat \ {0}, Types, log' = log
  PROVE  /\ LogType' /\ Newest' = Newest /\ Newest \in Nat \ {0}
         /\ push' = push => PushType'
         /\ sync' = sync => SyncType' /\ SyncFound'
         /\ row' = row => RowType'
         /\ unseen' = unseen => unseen' \subseteq 1..Newest'
<1>1. LogType' /\ Newest' = Newest /\ Newest \in Nat \ {0}
  BY Stays, FileIsLast DEF Types
<1> QED
  BY <1>1, ReachKept

\* A commit of somebody else.
LEMMA TypesCommitOutside ==
  ASSUME MaxCommits \in Nat \ {0}, Types, NEW f \in Bodies, CommitOutside(f) PROVE Types'
<1>1. LogType' /\ Newest' = Newest + 1 /\ Newest \in Nat /\ \A k \in 1..Newest : log'[k] = log[k]
  BY Grown DEF CommitOutside, Types
<1>2. Newest' \in Nat /\ Newest <= Newest'
  BY <1>1
<1>3. RowType' /\ PushType' /\ SyncType' /\ SyncFound' /\ unseen' \subseteq 1..Newest'
  BY <1>1, <1>2, ReachKept DEF CommitOutside
<1> QED
  BY <1>1, <1>3 DEF Types

\* An edit of the row.
LEMMA TypesEdit ==
  ASSUME MaxCommits \in Nat \ {0}, Types, NEW v \in Values, Edit(v) PROVE Types'
<1>1. log' = log /\ unseen' = unseen
  BY DEF Edit
<1>2. RowType'
  BY <1>1, BranchStays DEF Edit, RowType, Types
<1>3. PushType'
  <2>1. push' = [q \in Pushes |-> [push[q] EXCEPT !.clean = FALSE]]
    BY DEF Edit
  <2>2. ASSUME NEW q \in Pushes PROVE Sound([push[q] EXCEPT !.clean = FALSE], Newest)
    BY DEF Types, PushType, Sound, PushStates
  <2> QED
    BY <1>1, <2>1, <2>2, BranchStays DEF PushType
<1>4. SyncType' /\ SyncFound'
  BY <1>1, EditedIs, SyncTypeAll, BranchStays DEF Edit, Types
<1> QED
  BY <1>1, <1>2, <1>3, <1>4, BranchStays DEF Types

\* A sync.
LEMMA TypesSync ==
  ASSUME MaxCommits \in Nat \ {0}, Types, NEW s \in Syncs,
         SyncFetch(s) \/ SyncLoad(s) \/ SyncApply(s) \/ SyncFails(s)
  PROVE  Types'
<1>1. log' = log /\ push' = push /\ unseen' = unseen
  BY DEF SyncFetch, SyncLoad, SyncApply, SyncFails
<1>2. Newest' = Newest /\ Newest \in Nat \ {0}
  BY <1>1, BranchStays
<1>3. Reaches(sync[s], Newest) /\ SyncType /\ SyncFound /\ RowType
  BY DEF Types, SyncType
<1>4. SyncType' /\ SyncFound'
  <2>1. CASE SyncFetch(s)
    <3> DEFINE to == SyncAt("fetched", Newest, NoRow)
    <3>1. Reaches(to, Newest) /\ to.st = "fetched"
      <4>1. Reaches(to, Newest)
        <5>1. row \in TestRows /\ Newest \in 1..Newest
          BY <1>2, <1>3 DEF RowType, TestRows
        <5> QED
          BY <1>2, <5>1, FetchedReaches
      <4> QED
        BY <4>1 DEF SyncAt
    <3>2. sync' = [sync EXCEPT ![s] = to]
      BY <2>1 DEF SyncFetch
    <3> HIDE DEF to
    <3> QED
      BY <1>1, <1>2, <1>3, <3>1, <3>2, SyncTypeKept
  <2>2. CASE SyncLoad(s)
    <3> DEFINE to == IF log[sync[s].at] = NoFile THEN Done
                     ELSE SyncAt("loaded", sync[s].at, row)
    <3>1. Reaches(to, Newest) /\ (to.st = "loaded" => log[to.at] # NoFile)
      <4>1. row \in TestRows /\ sync[s].at \in 1..Newest
        BY <1>2, <1>3, <2>2 DEF RowType, TestRows, SyncLoad, Reaches
      <4>2. Reaches(to, Newest)
        BY <1>2, <4>1, FetchedReaches, DoneReaches
      <4> QED
        BY <4>2, DoneReaches DEF SyncAt
    <3>2. sync' = [sync EXCEPT ![s] = to]
      BY <1>3, <2>2 DEF SyncLoad, SyncType
    <3> HIDE DEF to
    <3> QED
      BY <1>1, <1>2, <1>3, <3>1, <3>2, SyncTypeKept
  <2>3. CASE SyncApply(s)
    BY <1>1, <1>2, <1>3, <2>3, MetIs, SyncTypeAll DEF SyncApply
  <2>4. CASE SyncFails(s)
    BY <1>1, <1>2, <1>3, <2>4, DoneReaches, SyncTypeKept DEF SyncFails
  <2> QED
    BY <2>1, <2>2, <2>3, <2>4
<1>5. RowType'
  <2>1. CASE row' = row
    BY <1>1, <2>1, BranchStays DEF Types
  <2>2. CASE row' # row
    <3> DEFINE p == sync[s]
               f == log[p.at]
    <3>1. /\ p.st = "loaded"
          /\ row' = [says |-> IF f.says = p.was.says THEN row.says ELSE f.says,
                     body |-> IF f = p.was.body THEN row.body ELSE f,
                     ref  |-> IF p.at = p.was.ref THEN row.ref ELSE p.at]
      BY <2>2 DEF SyncFetch, SyncLoad, SyncApply, SyncFails
    <3>2. p.at \in 1..Newest /\ f # NoFile
      BY <1>3, <3>1 DEF Reaches, SyncFound
    <3>3. f \in Bodies
      BY <3>2 DEF Types, LogType, Newest
    <3>4. f.says \in Values
      BY <3>2, <3>3, SaysAValue
    <3> HIDE DEF p, f
    <3>5. row.says \in Values /\ row.body \in Bodies \ {NoFile} /\ row.ref \in 1..Newest
      BY <1>3 DEF RowType
    <3> QED
      BY <1>2, <3>1, <3>2, <3>3, <3>4, <3>5 DEF RowType
  <2> QED
    BY <2>1, <2>2
<1> QED
  BY <1>1, <1>4, <1>5, BranchStays DEF Types

\* A request of a push that writes neither to the branch nor to the row.
LEMMA TypesPushReads ==
  ASSUME MaxCommits \in Nat \ {0}, Types, NEW q \in Pushes,
         PushLoad(q) \/ PushRead(q) \/ PushName(q) \/ PushFails(q)
  PROVE  Types'
<1> DEFINE p == push[q]
<1>1. log' = log /\ row' = row /\ sync' = sync /\ unseen' = unseen
  BY DEF PushLoad, PushRead, PushName, PushFails
<1>2. Newest' = Newest /\ Newest \in Nat \ {0} /\ File \in Bodies
  BY <1>1, BranchStays, FileIsLast DEF Types
<1>3. Sound(p, Newest)
  BY DEF Types, PushType
<1>4. PICK to : push' = [push EXCEPT ![q] = to] /\ Sound(to, Newest)
  <2>1. CASE PushLoad(q)
    <3> DEFINE to == [st |-> "loaded", snap |-> row.body, body |-> By("app", row.says), sha |-> NoFile,
                      at |-> 0, clean |-> TRUE]
    <3>1. row.says \in Values /\ row.body \in Bodies
      BY DEF Types, RowType
    <3>2. By("app", row.says) \in OwnBodies /\ By("app", row.says) \in Bodies
      BY <3>1, BodiesHold DEF OwnBodies
    <3>3. Sound(to, Newest)
      BY <3>1, <3>2, NoFileHolds DEF Sound, PushStates, States
    <3> QED
      BY <2>1, <3>3 DEF PushLoad, Goes
  <2>2. CASE PushRead(q)
    <3>1. Sound([p EXCEPT !.st = "read", !.sha = File], Newest)
      BY <1>2, <1>3, <2>2 DEF PushRead, Sound, PushStates, States
    <3> QED
      BY <1>2, <2>2, <3>1, IdleSound DEF PushRead, Goes
  <2>3. CASE PushName(q)
    <3>1. Named(q) \in 1..Newest
      BY <1>2, <1>3, <2>3 DEF PushName, Named, Sound
    <3>2. p \in PushStates /\ p.body \in OwnBodies
      BY <1>3, <2>3 DEF PushName, Sound
    <3>3. Sound([p EXCEPT !.st = "named", !.at = Named(q)], Newest)
      BY <1>2, <3>1, <3>2, WrittenSound
    <3> QED
      BY <2>3, <3>3 DEF PushName, Goes
  <2>4. CASE PushFails(q)
    BY <1>2, <2>4, IdleSound DEF PushFails, Goes
  <2> QED
    BY <2>1, <2>2, <2>3, <2>4
<1>5. PushType'
  BY <1>2, <1>4, PushTypeGoes DEF Types
<1> QED
  BY <1>1, <1>5, BranchStays DEF Types

\* The write of a push.
LEMMA TypesPushPut ==
  ASSUME MaxCommits \in Nat \ {0}, Types, NEW q \in Pushes, PushPut(q) PROVE Types'
<1> DEFINE p == push[q]
<1>1. row' = row /\ sync' = sync /\ p.st = "read" /\ Sound(p, Newest) /\ Newest \in Nat \ {0}
  BY FileIsLast DEF PushPut, Types, PushType
<1>2. CASE Accepts(q) /\ Newest < MaxCommits
  <2>1. log' = Append(log, p.body) /\ p.body \in Bodies
    BY <1>1, <1>2 DEF PushPut, Sound, PushStates
  <2>2. LogType' /\ Newest' = Newest + 1 /\ \A k \in 1..Newest : log'[k] = log[k]
    BY <1>2, <2>1, Grown DEF Types
  <2>3. Sound([p EXCEPT !.st = "put", !.at = Newest + 1], Newest')
    <3>1. p \in PushStates /\ p.body \in OwnBodies
      BY <1>1 DEF Sound
    <3>2. Newest' \in Nat /\ Newest + 1 \in 1..Newest'
      BY <1>1, <2>2
    <3> QED
      BY <3>1, <3>2, WrittenSound
  <2>4. PushType'
    BY <1>1, <1>2, <2>2, <2>3, PushTypeKept DEF PushPut, Goes, Types
  <2>5. unseen' \subseteq 1..Newest'
    BY <1>1, <1>2, <2>2 DEF PushPut, Types
  <2> QED
    BY <1>1, <2>2, <2>4, <2>5, ReachKept DEF Types
<1>3. CASE ~(Accepts(q) /\ Newest < MaxCommits)
  <2>1. log' = log /\ unseen' = unseen /\ push' = [push EXCEPT ![q] = Idle]
    BY <1>3 DEF PushPut, Goes
  <2>2. PushType'
    <3>1. Newest' = Newest /\ Newest \in Nat
      BY <2>1, BranchStays
    <3> QED
      BY <2>1, <3>1, IdleSound, PushTypeGoes DEF Types
  <2> QED
    BY <1>1, <2>1, <2>2, BranchStays DEF Types
<1> QED
  BY <1>2, <1>3

\* The commit of a push.
LEMMA TypesPushCommit ==
  ASSUME MaxCommits \in Nat \ {0}, Types, NEW q \in Pushes, PushCommit(q) PROVE Types'
<1> DEFINE p == push[q]
<1>1. log' = log /\ sync' = Met({}) /\ unseen' = unseen /\ push' = [push EXCEPT ![q] = Idle]
  BY DEF PushCommit, Goes
<1>2. Newest' = Newest /\ Newest \in Nat \ {0}
  BY <1>1, BranchStays
<1>3. PushType'
  BY <1>1, <1>2, IdleSound, PushTypeGoes DEF Types
<1>4. p.body \in Bodies \ {NoFile} /\ p.at \in 1..Newest
  BY BodiesHold DEF PushCommit, Types, PushType, Sound, OwnBodies
<1>5. RowType'
  BY <1>2, <1>4 DEF PushCommit, Types, RowType
<1>6. SyncType' /\ SyncFound'
  BY <1>1, <1>2, MetIs, SyncTypeAll DEF Types
<1> QED
  BY <1>1, <1>3, <1>5, <1>6, BranchStays DEF Types

\* Every step keeps the types.
LEMMA TypesStep == ASSUME MaxCommits \in Nat \ {0}, Types, [GitNext]_gitVars PROVE Types'
<1>1. ASSUME NEW v \in Values, CommitOutside(By("hand", v)) PROVE Types'
  BY <1>1, BodiesHold, TypesCommitOutside
<1>2. CASE CommitOutside(NoFile)
  BY <1>2, NoFileHolds, TypesCommitOutside
<1>3. CASE UNCHANGED gitVars
  BY <1>3, BranchStays DEF gitVars, Types
<1> QED
  BY <1>1, <1>2, <1>3, TypesEdit, TypesSync, TypesPushReads, TypesPushPut, TypesPushCommit DEF GitNext

\* The branch, the row, the pushes and the syncs keep the states the code
\* gives them, for any number of each.
THEOREM GitTypesHold == ASSUME MaxCommits \in Nat \ {0} PROVE GitSpec => []GitTypeOK
<1>1. Types => GitTypeOK
  BY DEF Types, GitTypeOK, LogType, RowType, PushType, SyncType, Sound, PushStates, States, Reaches, SyncStates
<1> QED
  BY TypesInit, TypesStep, <1>1, PTL DEF GitSpec

-----------------------------------------------------------------------------
(* What a request does to its push.                                          *)

\* Only the push that goes on changes.
LEMMA PushGoing ==
  ASSUME PushType, NEW q \in Pushes, NEW to, Goes(q, to)
  PROVE  push'[q] = to /\ \A r \in Pushes : r # q => push'[r] = push[r]
  BY DEF PushType, Goes

\* The write leaves a push with the commit it made.
LEMMA PushWrites ==
  ASSUME MaxCommits \in Nat \ {0}, Types, NEW q \in Pushes,
         PushPut(q), Accepts(q) /\ Newest < MaxCommits
  PROVE  /\ push[q].st = "read" /\ push'[q].st = "put" /\ push'[q].at = Newest + 1
         /\ push'[q].snap = push[q].snap /\ push'[q].body = push[q].body
         /\ push'[q].clean = push[q].clean
<1> DEFINE p == push[q]
<1>1. PushType /\ p \in PushStates /\ Newest \in Nat \ {0}
  BY FileIsLast DEF Types, PushType, Sound
<1>2. p.st = "read" /\ Goes(q, [p EXCEPT !.st = "put", !.at = Newest + 1])
  BY DEF PushPut
<1>3. push'[q] = [p EXCEPT !.st = "put", !.at = Newest + 1]
  BY <1>1, <1>2, PushGoing
<1> QED
  BY <1>1, <1>2, <1>3 DEF PushStates

\* Asking for the commit leaves a push with the name it got.
LEMMA PushNames ==
  ASSUME Types, NEW q \in Pushes, PushName(q)
  PROVE  /\ push[q].st = "put" /\ push'[q].st = "named" /\ push'[q].at = Named(q)
         /\ push'[q].snap = push[q].snap /\ push'[q].body = push[q].body
         /\ push'[q].clean = push[q].clean
<1> DEFINE p == push[q]
<1>1. PushType /\ p \in PushStates
  BY DEF Types, PushType, Sound
<1>2. p.st = "put" /\ Goes(q, [p EXCEPT !.st = "named", !.at = Named(q)])
  BY DEF PushName
<1>3. push'[q] = [p EXCEPT !.st = "named", !.at = Named(q)]
  BY <1>1, <1>2, PushGoing
<1> QED
  BY <1>1, <1>2, <1>3 DEF PushStates

\* The read leaves a push with the file it saw.
LEMMA PushReads ==
  ASSUME Types, NEW q \in Pushes, PushRead(q), ~Conflicts(File, push[q].snap)
  PROVE  /\ push[q].st = "loaded" /\ push'[q].st = "read" /\ push'[q].sha = File
         /\ push'[q].snap = push[q].snap /\ push'[q].body = push[q].body
         /\ push'[q].clean = push[q].clean
<1> DEFINE p == push[q]
<1>1. PushType /\ p \in PushStates
  BY DEF Types, PushType, Sound
<1>2. p.st = "loaded" /\ Goes(q, [p EXCEPT !.st = "read", !.sha = File])
  BY DEF PushRead
<1>3. push'[q] = [p EXCEPT !.st = "read", !.sha = File]
  BY <1>1, <1>2, PushGoing
<1> QED
  BY <1>1, <1>2, <1>3 DEF PushStates

\* A push that ends, for whatever reason.
LEMMA PushEnds ==
  ASSUME Types, NEW q \in Pushes,
         \/ PushCommit(q) \/ PushFails(q)
         \/ PushPut(q) /\ ~(Accepts(q) /\ Newest < MaxCommits)
         \/ PushRead(q) /\ Conflicts(File, push[q].snap)
  PROVE  push'[q].st = "idle"
<1>1. Goes(q, Idle)
  BY DEF PushCommit, PushFails, PushPut, PushRead
<1>2. push'[q] = Idle
  BY <1>1, PushGoing DEF Types
<1> QED
  BY <1>2 DEF Idle

\* The others are not disturbed.
LEMMA OthersStay ==
  ASSUME Types, NEW q \in Pushes, NEW r \in Pushes, r # q,
         PushLoad(q) \/ PushRead(q) \/ PushPut(q) \/ PushName(q) \/ PushCommit(q) \/ PushFails(q)
  PROVE  push'[r] = push[r]
<1>1. \E to : Goes(q, to)
  BY DEF PushLoad, PushRead, PushPut, PushName, PushCommit, PushFails
<1> QED
  BY <1>1, PushGoing DEF Types

-----------------------------------------------------------------------------
(* What a push may overwrite.                                                *)

\* With GitHub a push writes over the file it has read, and it went on only
\* if that was the one the row came from, or none.
Checked ==
  provider = "github" =>
    /\ \A k \in unseen : log[k] = NoFile
    /\ \A q \in Pushes : push[q].st = "read" => push[q].sha \in {NoFile, push[q].snap}

\* At first nothing is replaced and nothing read.
LEMMA CheckedInit == ASSUME GitInit PROVE Checked
  BY DEF GitInit, Checked, Idle

\* Where the pushes stay what they are for the check, and the branch keeps
\* its commits, so does the check.
LEMMA CheckedKept ==
  ASSUME Types, Checked, provider' = provider, unseen' = unseen,
         \A k \in 1..Newest : log'[k] = log[k],
         \A q \in Pushes : push'[q].st = "read" =>
            \/ push[q].st = "read" /\ push'[q].sha = push[q].sha /\ push'[q].snap = push[q].snap
            \/ push'[q].sha \in {NoFile, push'[q].snap}
  PROVE  Checked'
  BY DEF Types, Checked

\* Every step keeps it: the read decides, and the write insists on what was read.
LEMMA CheckedStep ==
  ASSUME MaxCommits \in Nat \ {0}, Types, Checked, [GitNext]_gitVars PROVE Checked'
<1>1. ASSUME NEW f \in Bodies, CommitOutside(f) PROVE Checked'
  <2>1. \A k \in 1..Newest : log'[k] = log[k]
    BY <1>1, Grown DEF CommitOutside, Types
  <2> QED
    BY <1>1, <2>1, CheckedKept DEF CommitOutside
<1>2. ASSUME NEW v \in Values, Edit(v) PROVE Checked'
  <2>1. ASSUME NEW q \in Pushes
        PROVE /\ push'[q].st = push[q].st /\ push'[q].sha = push[q].sha
              /\ push'[q].snap = push[q].snap
    BY <1>2 DEF Edit, Types, PushType, Sound, PushStates
  <2> QED
    BY <1>2, <2>1, CheckedKept DEF Edit
<1>3. ASSUME NEW s \in Syncs, SyncFetch(s) \/ SyncLoad(s) \/ SyncApply(s) \/ SyncFails(s) PROVE Checked'
  BY <1>3, CheckedKept DEF SyncFetch, SyncLoad, SyncApply, SyncFails
<1>4. ASSUME NEW q \in Pushes, PushLoad(q) \/ PushName(q) \/ PushCommit(q) \/ PushFails(q) PROVE Checked'
  <2>1. ASSUME NEW r \in Pushes, push'[r].st = "read" PROVE push'[r] = push[r]
    <3>1. push'[q].st # "read"
      <4>1. CASE PushLoad(q)
        BY <4>1, PushGoing DEF PushLoad, Types
      <4>2. CASE PushName(q)
        BY <4>2, PushNames
      <4>3. CASE PushCommit(q) \/ PushFails(q)
        BY <4>3, PushEnds
      <4> QED
        BY <1>4, <4>1, <4>2, <4>3
    <3> QED
      BY <1>4, <2>1, <3>1, OthersStay
  <2> QED
    BY <1>4, <2>1, CheckedKept DEF PushLoad, PushName, PushCommit, PushFails
<1>5. ASSUME NEW q \in Pushes, PushRead(q) PROVE Checked'
  <2>1. ASSUME NEW r \in Pushes, r # q PROVE push'[r] = push[r]
    BY <1>5, <2>1, OthersStay
  <2>2. push'[q].st = "read" => push'[q].sha \in {NoFile, push'[q].snap}
    <3>1. CASE Conflicts(File, push[q].snap)
      BY <1>5, <3>1, PushEnds
    <3>2. CASE ~Conflicts(File, push[q].snap)
      <4>1. File \in {NoFile, push[q].snap}
        BY <3>2 DEF Conflicts
      <4> QED
        BY <1>5, <3>2, <4>1, PushReads
    <3> QED
      BY <3>1, <3>2
  <2> QED
    BY <1>5, <2>1, <2>2, CheckedKept DEF PushRead
<1>6. ASSUME NEW q \in Pushes, PushPut(q) PROVE Checked'
  <2>1. ASSUME NEW r \in Pushes, push'[r].st = "read" PROVE push'[r] = push[r]
    <3>1. push'[q].st # "read"
      BY <1>6, PushWrites, PushEnds
    <3> QED
      BY <1>6, <2>1, <3>1, OthersStay
  <2>2. CASE Accepts(q) /\ Newest < MaxCommits
    <3>1. \A k \in 1..Newest : log'[k] = log[k]
      <4>1. log' = Append(log, push[q].body) /\ push[q].body \in Bodies
        BY <1>6, <2>2 DEF PushPut, Types, PushType, Sound, PushStates
      <4> QED
        BY <2>2, <4>1, Grown DEF Types
    <3>2. ASSUME provider = "github", File # push[q].snap PROVE File = NoFile
      BY <1>6, <2>2, <3>2 DEF PushPut, Accepts, Checked
    <3>3. File = log[Newest] /\ Newest \in 1..Newest
      BY FileIsLast DEF Types
    <3>4. ASSUME provider = "github", NEW k \in unseen' PROVE log'[k] = NoFile
      <4>1. CASE k \in unseen
        BY <3>1, <3>4, <4>1 DEF Checked, Types
      <4>2. CASE k = Newest /\ File # push[q].snap
        BY <3>1, <3>2, <3>3, <3>4, <4>2
      <4> QED
        BY <1>6, <2>2, <3>4, <4>1, <4>2 DEF PushPut
    <3> QED
      BY <1>6, <2>1, <3>4 DEF PushPut, Checked
  <2>3. CASE ~(Accepts(q) /\ Newest < MaxCommits)
    BY <1>6, <2>1, <2>3, CheckedKept DEF PushPut
  <2> QED
    BY <2>2, <2>3
<1>7. CASE UNCHANGED gitVars
  BY <1>7, CheckedKept DEF gitVars
<1> QED
  BY <1>1, <1>2, <1>3, <1>4, <1>5, <1>6, <1>7, NoFileHolds, BodiesHold DEF GitNext

\* With GitHub no push replaces a file that the row was not synced from,
\* whoever commits, edits, syncs or pushes between its requests (check_conflict
\* and the sha given to put_file, backend/github_sync.py).
THEOREM NothingOverwrittenUnseenHolds ==
  ASSUME MaxCommits \in Nat \ {0} PROVE GitSpec => []NothingOverwrittenUnseen
<1>1. Checked => NothingOverwrittenUnseen
  BY DEF Checked, NothingOverwrittenUnseen
<1> QED
  BY TypesInit, TypesStep, CheckedInit, CheckedStep, <1>1, PTL DEF GitSpec

-----------------------------------------------------------------------------
(* What the row says, and where it says it is from.                          *)

\* A push under way, as long as nothing else was synced or pushed: it started
\* from the row's source, what it renders is what the row says unless there was
\* an edit in between, and its commit holds what it rendered.
Follows(q) ==
  push[q].st # "idle" =>
    /\ push[q].snap = row.body
    /\ push[q].clean => push[q].body.says = row.says
    /\ push[q].clean \/ edited
    /\ provider = "github" /\ push[q].st \in {"put", "named"} => log[push[q].at] = push[q].body

RowFollows == /\ row.says = row.body.says \/ edited
              /\ provider = "github" => log[row.ref] = row.body

\* A sync that has read the row, as long as nothing else was synced or pushed
\* since: it knows the row's source, and what the row says unless it was edited.
Sees(s) ==
  sync[s].st = "loaded" /\ ~sync[s].met =>
    /\ sync[s].was.body = row.body /\ sync[s].was.ref = row.ref
    /\ sync[s].clean => sync[s].was.says = row.says
    /\ sync[s].clean \/ edited
Seeing == \A s \in Syncs : Sees(s)

Following == ~crossed => RowFollows /\ \A q \in Pushes : Follows(q)

\* The row was synced from the first commit, and nothing is pushed.
LEMMA FollowingInit == ASSUME GitInit PROVE Following
<1>1. PICK v \in Values : log = <<By("hand", v)>> /\ row = [says |-> v, body |-> By("hand", v), ref |-> 1]
  BY DEF GitInit
<1>2. RowFollows
  BY <1>1, BodiesHold DEF RowFollows
<1>3. \A q \in Pushes : push[q].st = "idle"
  BY DEF GitInit, Idle
<1> QED
  BY <1>2, <1>3 DEF Following, Follows

\* A request that does not commit to the row leaves it as it was, whatever is
\* committed to the branch.
LEMMA FollowingKept ==
  ASSUME MaxCommits \in Nat \ {0}, Types, Following,
         UNCHANGED <<provider, row, edited, crossed>>,
         \A k \in 1..Newest : log'[k] = log[k],
         \A q \in Pushes : Follows(q) => push'[q] = push[q] \/ Follows(q)'
  PROVE  Following'
<1> SUFFICES ASSUME ~crossed PROVE RowFollows' /\ \A q \in Pushes : Follows(q)'
  BY DEF Following
<1>1. RowFollows /\ \A q \in Pushes : Follows(q)
  BY DEF Following
<1>2. row.ref \in 1..Newest
  BY DEF Types, RowType
<1>3. RowFollows'
  BY <1>1, <1>2 DEF RowFollows
<1>4. ASSUME NEW q \in Pushes, push'[q] = push[q] PROVE Follows(q)'
  <2>1. push[q].st \in {"put", "named"} => push[q].at \in 1..Newest
    BY DEF Types, PushType, Sound
  <2> QED
    BY <1>1, <1>4, <2>1 DEF Follows
<1> QED
  BY <1>1, <1>3, <1>4

\* At first nothing is read.
LEMMA SeeingInit == ASSUME GitInit PROVE Seeing
  BY DEF GitInit, Done, SyncAt, Seeing, Sees

\* An edit shows in the syncs that read the row before; after a commit to it
\* there is none that has not met it.
LEMMA SeeingStep ==
  ASSUME MaxCommits \in Nat \ {0}, Types, Seeing, [GitNext]_gitVars PROVE Seeing'
<1>1. CASE UNCHANGED <<row, edited, sync>>
  BY <1>1 DEF Seeing, Sees
<1>2. ASSUME NEW v \in Values, Edit(v) PROVE Seeing'
  <2>1. row'.body = row.body /\ row'.ref = row.ref /\ edited'
    BY <1>2 DEF Edit, Types, RowType
  <2>2. \A s \in Syncs : /\ sync'[s].clean = FALSE /\ sync'[s].st = sync[s].st
                        /\ sync'[s].was = sync[s].was /\ sync'[s].met = sync[s].met
    BY <1>2, EditedIs DEF Edit, Types
  <2> QED
    BY <2>1, <2>2 DEF Seeing, Sees
<1>3. ASSUME NEW s \in Syncs, SyncFetch(s) \/ SyncLoad(s) \/ SyncFails(s) PROVE Seeing'
  <2>1. UNCHANGED <<row, edited>>
    BY <1>3 DEF SyncFetch, SyncLoad, SyncFails
  <2>2. PICK to : /\ sync' = [sync EXCEPT ![s] = to]
                  /\ to.st = "loaded" => to.was = row /\ to.clean
    <3>1. CASE SyncFetch(s)
      <4> DEFINE x == SyncAt("fetched", Newest, NoRow)
      <4>1. sync' = [sync EXCEPT ![s] = x] /\ x.st = "fetched"
        BY <3>1 DEF SyncFetch, SyncAt
      <4> HIDE DEF x
      <4> QED
        BY <4>1
    <3>2. CASE SyncLoad(s) /\ log[sync[s].at] # NoFile
      <4> DEFINE x == SyncAt("loaded", sync[s].at, row)
      <4>1. sync' = [sync EXCEPT ![s] = x]
        BY <3>2 DEF SyncLoad
      <4>2. x.was = row /\ x.clean
        BY DEF SyncAt
      <4> HIDE DEF x
      <4> QED
        BY <4>1, <4>2
    <3>3. CASE SyncFails(s) \/ (SyncLoad(s) /\ log[sync[s].at] = NoFile)
      <4>1. sync' = [sync EXCEPT ![s] = Done] /\ Done.st = "idle"
        BY <3>3 DEF SyncFails, SyncLoad, Done, SyncAt
      <4> QED
        BY <4>1
    <3> QED
      BY <1>3, <3>1, <3>2, <3>3
  <2>3. sync'[s] = to /\ \A r \in Syncs : r # s => sync'[r] = sync[r]
    BY <2>2 DEF Types, SyncType
  <2> QED
    BY <2>1, <2>2, <2>3 DEF Seeing, Sees
<1>4. ASSUME NEW done, sync' = Met(done) PROVE Seeing'
  <2>1. \A r \in Syncs : sync'[r] = Done \/ sync'[r].met
    BY <1>4, MetIs DEF Types
  <2> QED
    BY <2>1, DoneReaches DEF Seeing, Sees, Done, SyncAt
<1>5. ASSUME NEW f, CommitOutside(f) PROVE Seeing'
  BY <1>1, <1>5 DEF CommitOutside
<1>6. ASSUME NEW q \in Pushes, PushLoad(q) \/ PushRead(q) \/ PushPut(q) \/ PushName(q) \/ PushFails(q)
      PROVE  Seeing'
  BY <1>1, <1>6 DEF PushLoad, PushRead, PushPut, PushName, PushFails
<1>7. ASSUME NEW s \in Syncs, SyncApply(s) PROVE Seeing'
  BY <1>4, <1>7 DEF SyncApply
<1>8. ASSUME NEW q \in Pushes, PushCommit(q) PROVE Seeing'
  BY <1>4, <1>8 DEF PushCommit
<1>9. CASE UNCHANGED gitVars
  BY <1>1, <1>9 DEF gitVars
<1> QED
  BY <1>2, <1>3, <1>5, <1>6, <1>7, <1>8, <1>9 DEF GitNext

\* Every commit to the row keeps it, or remembers what it crossed.
LEMMA FollowingStep ==
  ASSUME MaxCommits \in Nat \ {0}, Types, Seeing, Following, [GitNext]_gitVars PROVE Following'
<1>1. ASSUME NEW f \in Bodies, CommitOutside(f) PROVE Following'
  <2>1. \A k \in 1..Newest : log'[k] = log[k]
    BY <1>1, Grown DEF CommitOutside, Types
  <2> QED
    BY <1>1, <2>1, FollowingKept DEF CommitOutside
<1>2. ASSUME NEW v \in Values, Edit(v) PROVE Following'
  <2>1. ASSUME NEW q \in Pushes
        PROVE /\ push'[q].st = push[q].st /\ push'[q].snap = push[q].snap
              /\ push'[q].body = push[q].body /\ push'[q].at = push[q].at
              /\ push'[q].clean = FALSE
    BY <1>2 DEF Edit, Types, PushType, Sound, PushStates
  <2>2. row'.body = row.body /\ row'.ref = row.ref /\ edited' /\ UNCHANGED <<provider, log, crossed>>
    BY <1>2 DEF Edit, Types, RowType
  <2> QED
    BY <2>1, <2>2 DEF Following, RowFollows, Follows
<1>3. ASSUME NEW s \in Syncs, SyncFetch(s) \/ SyncLoad(s) \/ SyncApply(s) \/ SyncFails(s) PROVE Following'
  <2>1. CASE UNCHANGED <<provider, row, edited, crossed, log, push>>
    BY <2>1, FollowingKept
  <2>2. CASE SyncApply(s)
    <3> DEFINE p == sync[s]
               f == log[p.at]
    <3>1. /\ p.st = "loaded"
          /\ row' = [says |-> IF f.says = p.was.says THEN row.says ELSE f.says,
                     body |-> IF f = p.was.body THEN row.body ELSE f,
                     ref  |-> IF p.at = p.was.ref THEN row.ref ELSE p.at]
          /\ edited' = (edited /\ ~p.clean) /\ crossed' = (Underway # {} \/ p.met)
          /\ log' = log /\ push' = push /\ provider' = provider
      BY <2>2 DEF SyncApply
    <3> SUFFICES ASSUME ~crossed' PROVE RowFollows' /\ \A q \in Pushes : Follows(q)'
      BY DEF Following
    <3>2. Underway = {} /\ ~p.met
      BY <3>1
    <3>3. /\ p.was.body = row.body /\ p.was.ref = row.ref
          /\ p.clean => p.was.says = row.says
          /\ p.clean \/ edited
      BY <3>1, <3>2 DEF Seeing, Sees
    <3>4. f = log'[p.at]
      BY <3>1
    <3> HIDE DEF p, f
    <3>5. row'.body = f /\ row'.ref = p.at /\ (p.clean => row'.says = f.says)
      BY <3>1, <3>3
    <3>6. RowFollows'
      <4>1. row'.says = row'.body.says \/ edited'
        <5>1. CASE p.clean
          BY <3>5, <5>1
        <5>2. CASE ~p.clean
          BY <3>1, <3>3, <5>2
        <5> QED
          BY <5>1, <5>2
      <4>2. log'[row'.ref] = row'.body
        BY <3>4, <3>5
      <4> QED
        BY <4>1, <4>2 DEF RowFollows
    <3>7. \A q \in Pushes : push'[q].st = "idle"
      BY <3>1, <3>2 DEF Underway
    <3> QED
      BY <3>6, <3>7 DEF Follows
  <2> QED
    BY <1>3, <2>1, <2>2 DEF SyncFetch, SyncLoad, SyncFails
<1>4. ASSUME NEW q \in Pushes, PushLoad(q) PROVE Following'
  <2>1. UNCHANGED <<provider, row, edited, crossed, log>>
    BY <1>4 DEF PushLoad
  <2>2. push'[q] = [st |-> "loaded", snap |-> row.body, body |-> By("app", row.says), sha |-> NoFile,
                    at |-> 0, clean |-> TRUE]
    BY <1>4, PushGoing DEF PushLoad, Types
  <2>3. By("app", row.says).says = row.says
    BY DEF By
  <2>4. Follows(q)'
    BY <2>1, <2>2, <2>3 DEF Follows
  <2> QED
    BY <1>4, <2>1, <2>4, OthersStay, FollowingKept
<1>5. ASSUME NEW q \in Pushes, PushRead(q) \/ PushName(q) \/ PushFails(q) PROVE Following'
  <2>1. UNCHANGED <<provider, row, edited, crossed, log>>
    BY <1>5 DEF PushRead, PushName, PushFails
  <2>2. ASSUME Follows(q) PROVE Follows(q)'
    <3>1. CASE PushFails(q) \/ (PushRead(q) /\ Conflicts(File, push[q].snap))
      <4>1. push'[q].st = "idle"
        BY <3>1, PushEnds
      <4> QED
        BY <4>1 DEF Follows
    <3>2. CASE PushRead(q) /\ ~Conflicts(File, push[q].snap)
      BY <2>1, <2>2, <3>2, PushReads DEF Follows
    <3>3. CASE PushName(q)
      <4>1. /\ push[q].st = "put" /\ push'[q].st = "named" /\ push'[q].snap = push[q].snap
            /\ push'[q].body = push[q].body /\ push'[q].clean = push[q].clean
            /\ provider = "github" => push'[q].at = push[q].at
        BY <3>3, PushNames DEF Named
      <4>2. /\ push'[q].snap = row'.body
            /\ push'[q].clean => push'[q].body.says = row'.says
            /\ push'[q].clean \/ edited'
        BY <2>1, <2>2, <4>1 DEF Follows
      <4>3. provider' = "github" => log'[push'[q].at] = push'[q].body
        BY <2>1, <2>2, <4>1 DEF Follows
      <4> QED
        BY <4>2, <4>3 DEF Follows
    <3> QED
      BY <1>5, <3>1, <3>2, <3>3
  <2> QED
    BY <1>5, <2>1, <2>2, OthersStay, FollowingKept
<1>6. ASSUME NEW q \in Pushes, PushPut(q) PROVE Following'
  <2>1. UNCHANGED <<provider, row, edited, crossed>>
    BY <1>6 DEF PushPut
  <2>2. CASE Accepts(q) /\ Newest < MaxCommits
    <3>1. log' = Append(log, push[q].body) /\ push[q].body \in Bodies
      BY <1>6, <2>2 DEF PushPut, Types, PushType, Sound, PushStates
    <3>2. /\ \A k \in 1..Newest : log'[k] = log[k]
          /\ log'[Newest + 1] = push[q].body
      BY <2>2, <3>1, Grown DEF Types
    <3>3. ASSUME Follows(q) PROVE Follows(q)'
      BY <1>6, <2>1, <2>2, <3>2, <3>3, PushWrites DEF Follows
    <3> QED
      BY <1>6, <2>1, <3>2, <3>3, OthersStay, FollowingKept
  <2>3. CASE ~(Accepts(q) /\ Newest < MaxCommits)
    <3>1. log' = log /\ Follows(q)'
      BY <1>6, <2>3, PushEnds DEF PushPut, Follows
    <3> QED
      BY <1>6, <2>1, <3>1, OthersStay, FollowingKept
  <2> QED
    BY <2>2, <2>3
<1>7. ASSUME NEW q \in Pushes, PushCommit(q) PROVE Following'
  <2> SUFFICES ASSUME ~crossed' PROVE Following'
    BY DEF Following
  <2>1. ~crossed /\ Underway = {q}
    BY <1>7 DEF PushCommit
  <2>2. push[q].st = "named" /\ Follows(q) /\ RowFollows
    BY <1>7, <2>1 DEF PushCommit, Following
  <2>3. row'.says = row.says /\ row'.ref = push[q].at /\ row'.body = push[q].body
    <3>1. row' = [row EXCEPT !.ref = push[q].at,
                             !.body = IF push[q].body = push[q].snap THEN row.body ELSE push[q].body]
      BY <1>7 DEF PushCommit
    <3>2. row'.says = row.says /\ row'.ref = push[q].at
          /\ row'.body = IF push[q].body = push[q].snap THEN row.body ELSE push[q].body
      BY <3>1 DEF Types, RowType
    <3>3. push[q].snap = row.body
      BY <2>2 DEF Follows
    <3> QED
      BY <3>2, <3>3
  <2>4. UNCHANGED <<provider, log>> /\ edited' = (edited /\ ~push[q].clean)
    BY <1>7 DEF PushCommit
  <2>5. RowFollows'
    BY <2>2, <2>3, <2>4 DEF RowFollows, Follows
  <2>6. \A r \in Pushes : push'[r].st = "idle"
    BY <1>7, <2>1, PushEnds, OthersStay DEF Underway
  <2> QED
    BY <2>5, <2>6 DEF Following, Follows
<1>8. CASE UNCHANGED gitVars
  BY <1>8, FollowingKept DEF gitVars
<1> QED
  BY <1>1, <1>2, <1>3, <1>4, <1>5, <1>6, <1>7, <1>8, NoFileHolds, BodiesHold DEF GitNext

\* Unless a sync or another push ended during a push or a sync, the row says what its
\* source says or was edited since, and with GitHub its source is the file of
\* the commit it names (_apply of github_sync.py, push_test).
THEOREM RowFollowsSourceHolds ==
  ASSUME MaxCommits \in Nat \ {0} PROVE GitSpec => []RowFollowsSource
<1>1. Following => RowFollowsSource
  BY DEF Following, RowFollows, RowFollowsSource
<1> QED
  BY TypesInit, TypesStep, SeeingInit, SeeingStep, FollowingInit, FollowingStep, <1>1, PTL DEF GitSpec

\* All that is promised of a test as code, for any number of pushes, syncs,
\* commits and edits: what the three theorems before say.
THEOREM GitIsKept ==
  ASSUME MaxCommits \in Nat \ {0} PROVE GitSpec => []GitKeeps
<1>1. GitTypeOK /\ NothingOverwrittenUnseen /\ RowFollowsSource => GitKeeps
  BY DEF GitKeeps
<1> QED
  BY GitTypesHold, NothingOverwrittenUnseenHolds, RowFollowsSourceHolds, <1>1, PTL

-----------------------------------------------------------------------------
(* Jira.                                                                      *)

Says    == {0, 1}
AllIds  == {Plain(i) : i \in Issues} \cup {Other(i) : i \in Issues}
ReqRows == [id : AllIds, key : Issues \cup {NoKey}, says : Says]
Talks   == [key : Issues, says : Says]
Entries == [row : [id : AllIds, key : Issues, says : Says], new : Nat]
Shown   == {"active", "error", "disabled"}
Early   == {"paging", "byKey", "byId", "failed"}
Late    == {"stored", "done", "refused", "error"}
Going   == [st : Early \cup Late, job : Jobs, from : Nat, got : Seq(Talks), at : Nat,
            pend : SUBSET Entries, quiet : BOOLEAN, old : Shown]

ReqShape  == reqs \subseteq ReqRows
SyncShape == pull \in [Workers -> {NoSync} \cup Going]
JiraShape == board \in Seq(Issues) /\ IsInjective(board) /\ text \in [Issues -> Says]
JobShape  == jobs \in [Jobs -> [st : {"none", "queued", "processing", "done", "error"},
                                by : Workers \cup {"nobody"}]]
PushShape == report \in [Reports -> {"idle", "loaded", "created"}] /\ bugs \in Nat
Counted   == faults \in Nat

\* A requirement of an issue has one of the two ids of that issue; one of nobody's
\* has the plain id of an issue.
ReqOK(r) ==
  IF r.key = NoKey THEN \E i \in Issues : r.id = Plain(i)
  ELSE r.id = Plain(r.key) \/ r.id = Other(r.key)
ReqsOK == /\ \A r \in reqs : ReqOK(r)
          /\ \A r, s \in reqs : r.id = s.id => r = s

\* Who has looked is alone, and while somebody has there is no active job.
AsksOK ==
  "ask" \notin met =>
    /\ \A a, b \in ask : a = b
    /\ ask # {} => Active = {}
    /\ \A i, j \in Active : i = j

\* How far a sync is in its list.
PlaceOK(s) ==
  /\ s.st = "paging" => s.at = 1 /\ s.pend = {}
  /\ s.st \in {"byKey", "byId"} => s.at \in 1 .. Len(s.got) + 1
  /\ s.st = "byId" => s.at <= Len(s.got)

\* The rows it holds: a new one is that of its place in the list, and one that
\* was found is held once.
PendOK(s) ==
  /\ \A p \in s.pend : ReqOK(p.row)
  /\ \A p \in s.pend : p.new # 0 => /\ p.new \in 1 .. Len(s.got) /\ p.new < s.at
                                    /\ p.row.key = s.got[p.new].key
                                    /\ p.row.says = s.got[p.new].says
  /\ \A p, q \in s.pend : p.new = 0 /\ q.new = 0 /\ p.row.id = q.row.id => p = q

\* In a quiet sync the list is what Jira has, from the first issue on, and each
\* issue that has been dealt with has its row.
Told(n)    == [key |-> board[n], says |-> text[board[n]]]
Dealt(s, n) == \E p \in s.pend : p.row.key = s.got[n].key /\ p.row.says = s.got[n].says
QuietOK(s) ==
  s.quiet /\ s.st # "failed" =>
    /\ Len(s.got) <= Len(board)
    /\ s.st = "paging" => s.from = Len(s.got)
    /\ s.st # "paging" => Len(s.got) = Len(board)
    /\ \A n \in 1 .. Len(s.got) : s.got[n] = Told(n)
    /\ \A n \in 1 .. Len(s.got) : n < s.at => Dealt(s, n)

\* A sync that is alone holds the rows that are there for its issues, and new
\* rows for issues that have none.
IdFor(k) == IF \E r \in reqs : r.id = Plain(k) THEN Other(k) ELSE Plain(k)
AloneOK(s) ==
  /\ \A p \in s.pend : p.new = 0 => \E r \in reqs : r.id = p.row.id /\ r.key = p.row.key
  /\ \A p \in s.pend : p.new # 0 => /\ \A r \in reqs : r.key # p.row.key
                                    /\ p.row.id = IdFor(p.row.key)
  /\ s.st = "byId" => \A r \in reqs : r.key # s.got[s.at].key

\* What the integration shows, unless it was patched: what the sync found, until
\* it wrote it.
ShownOK(s) ==
  /\ s.st \in Early => patched \/ status = s.old
  /\ s.st \in {"stored", "done"} => patched \/ status = "active"
  /\ s.st = "error" => patched \/ status = "error"

RunsOK  == \A w \in Workers : pull[w].st # "idle" =>
             PlaceOK(pull[w]) /\ PendOK(pull[w]) /\ QuietOK(pull[w])

\* While no syncs have overlapped, one is under way at most; the last end is known
\* only between them.
SoleOK ==
  "sync" \notin met =>
    /\ \A v, w \in Syncing : v = w
    /\ \A w \in Syncing : AloneOK(pull[w]) /\ ShownOK(pull[w])
    /\ Syncing # {} => ended = "none"
    /\ ended = "done" => status = "active"
    /\ ended = "error" => status = "error"
    /\ \A r, s \in reqs : r.key = s.key /\ r.key # NoKey => r = s

\* While no pushes have met and none has broken off, there is one issue at most,
\* and the defect is linked once nobody is at it.
PushesOK ==
  "push" \notin met /\ faults = 0 =>
    /\ \A p, q \in Reports : report[p] # "idle" /\ report[q] # "idle" => p = q
    /\ \A p \in Reports : report[p] = "loaded" => bugs = 0
    /\ \A p \in Reports : report[p] = "created" => bugs = 1
    /\ bugs <= 1
    /\ link = NoKey /\ (\A p \in Reports : report[p] = "idle") => bugs = 0

Shapes == ReqShape /\ SyncShape /\ JiraShape /\ JobShape /\ PushShape /\ Counted
          /\ status \in Shown
JiraInv == Shapes /\ ReqsOK /\ AsksOK /\ RunsOK /\ SoleOK /\ PushesOK /\ ~ missed

-----------------------------------------------------------------------------
(* Ids and rows.                                                             *)

LEMMA IdsDiffer ==
  ASSUME NEW a, NEW b
  PROVE  /\ Plain(a) = Plain(b) => a = b
         /\ Other(a) = Other(b) => a = b
         /\ Plain(a) # Other(b) /\ Other(a) # Plain(b)
<1>1. Plain(a)[1] = a /\ Plain(b)[1] = b /\ Other(a)[1] = a /\ Other(b)[1] = b
  BY DEF Plain, Other
<1>2. Len(Plain(a)) = 1 /\ Len(Plain(b)) = 1 /\ Len(Other(a)) = 2 /\ Len(Other(b)) = 2
  BY DEF Plain, Other
<1> QED
  BY <1>1, <1>2

LEMMA IdTellsKey ==
  ASSUME NEW r, NEW s, ReqOK(r), ReqOK(s), r.key # NoKey, s.key # NoKey, r.id = s.id
  PROVE  r.key = s.key
BY IdsDiffer DEF ReqOK

LEMMA IdsHold ==
  ASSUME NEW k \in Issues PROVE Plain(k) \in AllIds /\ Other(k) \in AllIds
BY DEF AllIds

LEMMA IdForHolds ==
  ASSUME NEW k \in Issues
  PROVE  IdFor(k) \in AllIds /\ (IdFor(k) = Plain(k) \/ IdFor(k) = Other(k))
BY IdsHold DEF IdFor

-----------------------------------------------------------------------------
(* What a step leaves alone.                                                 *)

LEMMA SameReqs ==
  ASSUME ReqShape, ReqsOK, UNCHANGED reqs PROVE ReqShape' /\ ReqsOK'
BY DEF ReqShape, ReqsOK

LEMMA SameAsks ==
  ASSUME AsksOK, UNCHANGED <<ask, jobs>>, met \subseteq met' PROVE AsksOK'
BY DEF AsksOK, Active

LEMMA SameRuns ==
  ASSUME SyncShape, RunsOK, UNCHANGED <<board, text, pull>> PROVE SyncShape' /\ RunsOK'
BY DEF SyncShape, RunsOK, QuietOK, Told

LEMMA SameSole ==
  ASSUME SoleOK, UNCHANGED <<reqs, status, pull, ended, patched>>, met \subseteq met'
  PROVE  SoleOK'
<1> SUFFICES ASSUME "sync" \notin met' PROVE SoleOK'
  BY DEF SoleOK
<1>1. "sync" \notin met /\ Syncing' = Syncing
  BY DEF Syncing
<1>2. \A w \in Syncing : AloneOK(pull[w]) /\ ShownOK(pull[w]) => (AloneOK(pull[w]) /\ ShownOK(pull[w]))'
  BY DEF AloneOK, IdFor, ShownOK
<1> QED
  BY <1>1, <1>2 DEF SoleOK

LEMMA SamePushes ==
  ASSUME PushShape, Counted, PushesOK, UNCHANGED <<report, bugs, link>>, met \subseteq met',
         faults' = faults \/ faults' = faults + 1
  PROVE  PushShape' /\ Counted' /\ PushesOK'
<1>1. faults' \in Nat /\ (faults' = 0 => faults = 0)
  BY DEF Counted
<1> QED
  BY <1>1 DEF PushShape, Counted, PushesOK

-----------------------------------------------------------------------------
(* One sync moves on, or ends.                                               *)

LEMMA OneMoves ==
  ASSUME SyncShape, RunsOK, UNCHANGED <<board, text>>, NEW w \in Workers, NEW t \in Going,
         PlaceOK(t), PendOK(t), QuietOK(t), pull' = [pull EXCEPT ![w] = t]
  PROVE  SyncShape' /\ RunsOK'
<1>1. SyncShape'
  BY DEF SyncShape
<1>2. ASSUME NEW v \in Workers, pull'[v].st # "idle"
      PROVE  (PlaceOK(pull[v]) /\ PendOK(pull[v]) /\ QuietOK(pull[v]))'
  <2>1. CASE v = w
    <3>1. pull'[v] = t
      BY <2>1 DEF SyncShape
    <3>2. QuietOK(t)'
      BY DEF QuietOK, Told, Dealt
    <3>3. PlaceOK(pull[v])'
      BY <3>1 DEF PlaceOK
    <3>4. PendOK(pull[v])'
      BY <3>1 DEF PendOK
    <3>5. QuietOK(pull[v])'
      BY <3>1, <3>2 DEF QuietOK, Told, Dealt
    <3> QED
      BY <3>3, <3>4, <3>5
  <2>2. CASE v # w
    <3>1. pull'[v] = pull[v]
      BY <2>2 DEF SyncShape
    <3>2. PlaceOK(pull[v]) /\ PendOK(pull[v]) /\ QuietOK(pull[v])
      BY <1>2, <3>1 DEF RunsOK
    <3>3. PlaceOK(pull[v])'
      BY <3>1, <3>2 DEF PlaceOK
    <3>4. PendOK(pull[v])'
      BY <3>1, <3>2 DEF PendOK
    <3>5. QuietOK(pull[v])'
      BY <3>1, <3>2 DEF QuietOK, Told, Dealt
    <3> QED
      BY <3>3, <3>4, <3>5
  <2> QED
    BY <2>1, <2>2
<1> QED
  BY <1>1, <1>2 DEF RunsOK

LEMMA OneEnds ==
  ASSUME SyncShape, RunsOK, UNCHANGED <<board, text>>, NEW w \in Workers,
         pull' = [pull EXCEPT ![w] = NoSync]
  PROVE  SyncShape' /\ RunsOK' /\ Syncing' = Syncing \ {w}
<1>1. SyncShape'
  BY DEF SyncShape
<1>2. /\ pull'[w].st = "idle"
      /\ \A v \in Workers : v # w => pull'[v] = pull[v]
  BY DEF SyncShape, NoSync
<1>3. RunsOK'
  BY <1>2 DEF RunsOK, PlaceOK, PendOK, QuietOK, Told, Dealt
<1> QED
  BY <1>1, <1>2, <1>3 DEF Syncing

LEMMA SoleMoves ==
  ASSUME SyncShape, SoleOK, UNCHANGED <<reqs, status, ended, patched, met>>, NEW w \in Workers,
         pull[w].st # "idle", NEW t \in Going, "sync" \notin met => AloneOK(t) /\ ShownOK(t),
         pull' = [pull EXCEPT ![w] = t]
  PROVE  SoleOK'
<1>1. pull'[w] = t /\ t.st # "idle" /\ \A v \in Workers : v # w => pull'[v] = pull[v]
  BY DEF SyncShape, Going, Early, Late
<1>2. Syncing' = Syncing
  BY <1>1 DEF Syncing
<1> SUFFICES ASSUME "sync" \notin met PROVE SoleOK'
  BY DEF SoleOK
<1>3. ASSUME NEW v \in Syncing PROVE (AloneOK(pull[v]) /\ ShownOK(pull[v]))'
  <2>1. CASE v = w
    <3>1. AloneOK(t) /\ ShownOK(t)
      OBVIOUS
    <3> QED
      BY <1>1, <2>1, <3>1 DEF AloneOK, IdFor, ShownOK
  <2>2. CASE v # w
    <3>1. AloneOK(pull[v]) /\ ShownOK(pull[v]) /\ pull'[v] = pull[v]
      BY <1>1, <1>3, <2>2 DEF SoleOK, Syncing
    <3> QED
      BY <3>1 DEF AloneOK, IdFor, ShownOK
  <2> QED
    BY <2>1, <2>2
<1> QED
  BY <1>2, <1>3 DEF SoleOK
-----------------------------------------------------------------------------
(* The pages of a search.                                                    *)

More(all, from) == IF all <= from THEN 0 ELSE IF all - from <= Page THEN all - from ELSE Page

LEMMA MoreIs ==
  ASSUME Page \in Nat \ {0}, NEW all \in Nat, NEW from \in Nat
  PROVE  /\ More(all, from) \in Nat
         /\ from <= all => from + More(all, from) <= all
         /\ from <= all /\ (from + Page >= all \/ More(all, from) = 0) => from + More(all, from) = all
         /\ from + Page < all => More(all, from) = Page
         /\ all > from => More(all, from) + from <= all
         /\ all <= from => More(all, from) = 0
BY DEF More

LEMMA AnsweredIs ==
  ASSUME Assumed, JiraShape, NEW from \in Nat
  PROVE  /\ Answered(from) \in Seq(Talks)
         /\ Len(Answered(from)) = More(Len(board), from)
         /\ \A i \in 1 .. More(Len(board), from) : Answered(from)[i] = Told(from + i)
<1> DEFINE all == Len(board)
           m == More(all, from)
           A == Answered(from)
<1>1. A = [i \in 1 .. m |-> [key |-> board[from + i], says |-> text[board[from + i]]]]
  BY DEF Answered, More
<1>2. all \in Nat /\ board \in Seq(Issues) /\ text \in [Issues -> Says]
  BY LenProperties DEF JiraShape
<1> HIDE DEF all
<1>3. m \in Nat /\ (all <= from => m = 0) /\ (all > from => m + from <= all)
  BY <1>2, MoreIs DEF Assumed
<1> HIDE DEF m, A
<1>4. ASSUME NEW i \in 1 .. m PROVE A[i] \in Talks /\ A[i] = Told(from + i)
  <2>1. from + i \in 1 .. all
    BY <1>2, <1>3
  <2>2. board[from + i] \in Issues
    BY <1>2, <2>1, ElementOfSeq DEF all
  <2> QED
    BY <1>1, <1>2, <2>2 DEF Talks, Told
<1>5. A \in Seq(Talks) /\ Len(A) = m
  <2>1. A = [i \in 1 .. m |-> A[i]] /\ \A i \in 1 .. m : A[i] \in Talks
    BY <1>1, <1>4
  <2> HIDE DEF A
  <2>2. A \in Seq(Talks) /\ DOMAIN A = 1 .. m
    BY <1>3, <2>1
  <2> QED
    BY <1>3, <2>2, LenProperties
<1> QED
  BY <1>4, <1>5 DEF m, A, all
\* A sync of which one field changes.
LEMMA Marked ==
  ASSUME NEW s \in Going, NEW x \in Early
  PROVE  LET t == [s EXCEPT !.st = x]
         IN  /\ t \in Going /\ t.st = x /\ t.got = s.got /\ t.from = s.from
             /\ t.at = s.at /\ t.pend = s.pend /\ t.quiet = s.quiet /\ t.old = s.old
BY DEF Going

LEMMA Disturbed ==
  ASSUME NEW s \in Going
  PROVE  LET t == [s EXCEPT !.quiet = FALSE]
         IN  /\ t \in Going /\ t.st = s.st /\ t.got = s.got /\ t.from = s.from
             /\ t.at = s.at /\ t.pend = s.pend /\ ~ t.quiet /\ t.old = s.old
BY DEF Going

\* A sync that holds nothing has nothing to prove.
LEMMA SyncHolds ==
  ASSUME NEW st \in Early \cup Late, NEW j \in Jobs, NEW old \in Shown, NEW q \in BOOLEAN
  PROVE  LET t == Sync(st, j, old, q)
         IN  /\ t \in Going /\ t.st = st /\ t.job = j /\ t.old = old /\ t.quiet = q
             /\ t.at = 1 /\ t.pend = {} /\ t.got = <<>> /\ t.from = 0
BY EmptySeq DEF Going, Sync

LEMMA LateHolds ==
  ASSUME NEW st \in Late, NEW j \in Jobs, NEW old \in Shown
  PROVE  LET t == Sync(st, j, old, FALSE)
         IN  t \in Going /\ PlaceOK(t) /\ PendOK(t) /\ QuietOK(t) /\ AloneOK(t) /\ t.st = st
<1> DEFINE t == Sync(st, j, old, FALSE)
<1>1. t \in Going /\ t.st = st /\ t.pend = {} /\ t.quiet = FALSE
  BY EmptySeq DEF Going, Sync
<1> HIDE DEF t
<1>2. st \notin {"paging", "byKey", "byId"}
  BY DEF Late
<1>3. PlaceOK(t) /\ PendOK(t) /\ QuietOK(t) /\ AloneOK(t)
  BY <1>1, <1>2 DEF PlaceOK, PendOK, QuietOK, AloneOK
<1> QED
  BY <1>1, <1>3 DEF t

\* A page adds to the list; the search is over once there is no more.
LEMMA SearchKeeps ==
  ASSUME Assumed, JiraShape, NEW s \in Going, s.st = "paging", PlaceOK(s), QuietOK(s),
         NEW t \in Going, t.got = s.got \o Answered(s.from), t.from = s.from + Page,
         t.st = IF s.from + Page >= Len(board) \/ Answered(s.from) = <<>> THEN "byKey" ELSE "paging",
         t.at = s.at, t.pend = s.pend, t.quiet = s.quiet
  PROVE  PlaceOK(t) /\ PendOK(t) /\ QuietOK(t) /\ AloneOK(t)
<1> DEFINE all == Len(board)
           m   == More(all, s.from)
           A   == Answered(s.from)
           g   == s.got
           h   == t.got
           lg  == Len(g)
<1>1. /\ s.from \in Nat /\ g \in Seq(Talks) /\ Page \in Nat \ {0} /\ all \in Nat /\ lg \in Nat
      /\ s.pend = {} /\ s.at = 1
  BY LenProperties DEF Going, Assumed, JiraShape, PlaceOK
<1>2. A \in Seq(Talks) /\ Len(A) = m /\ \A i \in 1 .. m : A[i] = Told(s.from + i)
  BY <1>1, AnsweredIs
<1> HIDE DEF all
<1>3. /\ m \in Nat
      /\ s.from <= all => s.from + m <= all
      /\ s.from <= all /\ (s.from + Page >= all \/ m = 0) => s.from + m = all
      /\ s.from + Page < all => m = Page
  BY <1>1, MoreIs
<1>4. /\ t.got = g \o A /\ t.from = s.from + Page /\ t.at = 1 /\ t.pend = {}
      /\ t.quiet = s.quiet
      /\ t.st = IF s.from + Page >= all \/ A = <<>> THEN "byKey" ELSE "paging"
  BY <1>1 DEF all
<1> HIDE DEF m, A, g
<1>5. /\ h \in Seq(Talks) /\ Len(h) = lg + m
      /\ \A i \in 1 .. lg + m : h[i] = IF i <= lg THEN g[i] ELSE A[i - lg]
  <2>1. g \in Seq(Talks) /\ A \in Seq(Talks) /\ Len(A) = m /\ h = g \o A
    BY <1>1, <1>2, <1>4
  <2> HIDE DEF h
  <2> QED
    BY <2>1, ConcatProperties DEF lg
<1>6. PlaceOK(t) /\ PendOK(t) /\ AloneOK(t)
  <2>1. t.st # "byId" /\ t.at = 1 /\ t.pend = {}
    BY <1>4
  <2>2. t.at \in 1 .. Len(t.got) + 1
    <3> HIDE DEF lg
    <3>1. lg + m \in Nat
      BY <1>1, <1>3
    <3> QED
      BY <1>5, <2>1, <3>1
  <2> QED
    BY <2>1, <2>2 DEF PlaceOK, PendOK, AloneOK
<1>7. A = <<>> <=> m = 0
  <2>1. A \in Seq(Talks)
    BY <1>2
  <2>2. A # <<>> => Len(A) # 0
    BY <2>1, EmptySeq
  <2>3. A = <<>> => Len(A) = 0
    OBVIOUS
  <2> QED
    BY <1>2, <2>2, <2>3
<1>8. QuietOK(t)
  <2> SUFFICES ASSUME s.quiet PROVE QuietOK(t)
    BY <1>4 DEF QuietOK
  <2>1. lg <= all /\ s.from = lg /\ \A n \in 1 .. lg : g[n] = Told(n)
    BY DEF QuietOK, all, g
  <2> HIDE DEF lg
  <2>2. /\ lg + m <= all
        /\ t.st = "paging" => t.from = lg + m
        /\ t.st # "paging" => lg + m = all
    BY <1>1, <1>3, <1>4, <1>7, <2>1
  <2>3. ASSUME NEW n \in 1 .. lg + m PROVE h[n] = Told(n)
    <3>1. CASE n <= lg
      BY <1>1, <1>5, <2>1, <3>1
    <3>2. CASE ~ (n <= lg)
      <4>1. n - lg \in 1 .. m /\ s.from + (n - lg) = n
        BY <1>1, <1>3, <2>1, <3>2
      <4> QED
        BY <1>2, <1>5, <3>2, <4>1
    <3> QED
      BY <3>1, <3>2
  <2>4. \A n \in 1 .. lg + m : ~ (n < t.at)
    BY <1>1, <1>3, <1>4
  <2> HIDE DEF h
  <2> QED
    BY <1>5, <2>2, <2>3, <2>4 DEF QuietOK, all, h
<1> QED
  BY <1>6, <1>8
-----------------------------------------------------------------------------
(* The requirement of an issue.                                              *)

LEMMA AtIs ==
  ASSUME NEW s \in Going, PlaceOK(s), s.st \in {"byKey", "byId"}, s.at <= Len(s.got)
  PROVE  /\ s.at \in 1 .. Len(s.got) /\ s.at \in Nat /\ s.at + 1 \in Nat /\ s.at # 0
         /\ s.at + 1 \in 1 .. Len(s.got) + 1
         /\ Len(s.got) \in Nat
         /\ s.got[s.at] \in Talks
<1> DEFINE a == s.at
           m == Len(s.got)
<1>1. a \in Nat /\ m \in Nat /\ a \in 1 .. m + 1 /\ a <= m /\ s.got \in Seq(Talks)
  BY LenProperties DEF Going, PlaceOK
<1> HIDE DEF a, m
<1>2. a \in 1 .. m /\ a + 1 \in Nat /\ a + 1 \in 1 .. m + 1 /\ a # 0
  BY <1>1
<1>3. s.got[a] \in Talks
  BY <1>1, <1>2, ElementOfSeq DEF m
<1> QED
  BY <1>1, <1>2, <1>3 DEF a, m

\* In a quiet sync no issue is listed twice.
LEMMA ListedOnce ==
  ASSUME JiraShape, NEW s \in Going, QuietOK(s), s.quiet, s.st # "failed",
         NEW n \in 1 .. Len(s.got), NEW m \in 1 .. Len(s.got), s.got[n].key = s.got[m].key
  PROVE  n = m
<1>1. s.got[n].key = board[n] /\ s.got[m].key = board[m] /\ Len(s.got) <= Len(board)
  <2>1. s.got[n] = Told(n) /\ s.got[m] = Told(m) /\ Len(s.got) <= Len(board)
    BY DEF QuietOK
  <2> QED
    BY <2>1 DEF Told
<1>2. board \in Seq(Issues) /\ s.got \in Seq(Talks) /\ IsInjective(board)
  BY DEF JiraShape, Going
<1>3. DOMAIN board = 1 .. Len(board) /\ Len(s.got) \in Nat /\ Len(board) \in Nat
  BY <1>2, LenProperties
<1>4. n \in DOMAIN board /\ m \in DOMAIN board
  BY <1>1, <1>3
<1> QED
  BY <1>1, <1>2, <1>4 DEF IsInjective

LEMMA WrittenHolds ==
  ASSUME Assumed, NEW i \in Talks, NEW d \in AllIds, d = Plain(i.key) \/ d = Other(i.key), NEW n \in Nat
  PROVE  LET e == [row |-> Written(d, i), new |-> n]
         IN  /\ e \in Entries /\ e.new = n /\ ReqOK(e.row)
             /\ e.row.id = d /\ e.row.key = i.key /\ e.row.says = i.says
BY DEF Assumed, Talks, Entries, Written, ReqOK

LEMMA FoundKeeps ==
  ASSUME Assumed, JiraShape, ReqShape, ReqsOK, NEW s \in Going, s.st = "byKey", s.at <= Len(s.got),
         PlaceOK(s), PendOK(s), QuietOK(s), NEW r \in reqs, r.key = s.got[s.at].key,
         NEW e \in Entries, e = [row |-> Written(r.id, s.got[s.at]), new |-> 0],
         NEW t \in Going, t.st = s.st, t.got = s.got, t.from = s.from, t.quiet = s.quiet,
         t.at = s.at + 1, t.pend = {p \in s.pend : p.row.id # r.id} \cup {e}
  PROVE  PlaceOK(t) /\ PendOK(t) /\ QuietOK(t) /\ (AloneOK(s) => AloneOK(t))
<1> DEFINE a == s.at
           g == s.got
<1>1. /\ a \in 1 .. Len(g) /\ a \in Nat /\ a + 1 \in 1 .. Len(g) + 1 /\ Len(g) \in Nat
      /\ g[a] \in Talks /\ \A n \in 1 .. Len(g) : n < a + 1 => n < a \/ n = a
  BY AtIs
<1>2. /\ e.row.id = r.id /\ e.row.key = r.key /\ e.row.says = g[a].says /\ e.new = 0
      /\ r.key \in Issues /\ r.key # NoKey
  BY <1>1 DEF Written, Talks, Assumed
<1>3. ReqOK(r) /\ ReqOK(e.row)
  BY <1>2 DEF ReqsOK, ReqOK
<1>4. \A p \in s.pend : p.row.key \in Issues /\ p.row.key # NoKey /\ p.new \in Nat
  BY DEF Going, Entries, Assumed
<1>5. PlaceOK(t)
  BY <1>1 DEF PlaceOK
<1>6. PendOK(t)
  <2>1. \A p \in t.pend : ReqOK(p.row)
    BY <1>3 DEF PendOK
  <2>2. ASSUME NEW p \in t.pend, p.new # 0
        PROVE  /\ p.new \in 1 .. Len(t.got) /\ p.new < t.at
               /\ p.row.key = t.got[p.new].key /\ p.row.says = t.got[p.new].says
    <3>1. p \in s.pend
      BY <1>2, <2>2
    <3>2. p.new \in 1 .. Len(g) /\ p.new < a /\ p.row.key = g[p.new].key /\ p.row.says = g[p.new].says
      BY <2>2, <3>1 DEF PendOK
    <3> QED
      BY <1>1, <3>2
  <2>3. ASSUME NEW p \in t.pend, NEW q \in t.pend, p.new = 0, q.new = 0, p.row.id = q.row.id
        PROVE  p = q
    BY <1>2, <2>3 DEF PendOK
  <2> QED
    BY <2>1, <2>2, <2>3 DEF PendOK
<1>7. QuietOK(t)
  <2> SUFFICES ASSUME s.quiet PROVE QuietOK(t)
    BY DEF QuietOK
  <2>1. ASSUME NEW n \in 1 .. Len(g), n < a + 1 PROVE Dealt(t, n)
    <3>1. CASE n = a
      BY <1>2, <3>1 DEF Dealt
    <3>2. CASE n # a
      <4>1. Dealt(s, n)
        BY <1>1, <2>1, <3>2 DEF QuietOK
      <4>2. PICK p \in s.pend : p.row.key = g[n].key /\ p.row.says = g[n].says
        BY <4>1 DEF Dealt
      <4>3. p.row.id # r.id
        <5> SUFFICES ASSUME p.row.id = r.id PROVE FALSE
          OBVIOUS
        <5>1. ReqOK(p.row) /\ p.row.key # NoKey
          BY <1>4 DEF PendOK
        <5>2. g[n].key = g[a].key
          BY <1>2, <1>3, <4>2, <5>1, IdTellsKey
        <5> QED
          BY <1>1, <3>2, <5>2, ListedOnce
      <4> QED
        BY <4>2, <4>3 DEF Dealt
    <3> QED
      BY <3>1, <3>2
  <2> QED
    BY <2>1 DEF QuietOK
<1>8. ASSUME AloneOK(s) PROVE AloneOK(t)
  <2>1. ASSUME NEW p \in t.pend, p.new = 0 PROVE \E x \in reqs : x.id = p.row.id /\ x.key = p.row.key
    BY <1>2, <1>8, <2>1 DEF AloneOK
  <2>2. ASSUME NEW p \in t.pend, p.new # 0
        PROVE  (\A x \in reqs : x.key # p.row.key) /\ p.row.id = IdFor(p.row.key)
    BY <1>2, <1>8, <2>2 DEF AloneOK
  <2> QED
    BY <2>1, <2>2 DEF AloneOK
<1> QED
  BY <1>5, <1>6, <1>7, <1>8
\* A row is made: the one of its place, with the id that is free if the sync is
\* alone.
LEMMA MadeKeeps ==
  ASSUME Assumed, NEW s \in Going, s.st = "byId", s.at <= Len(s.got),
         PlaceOK(s), PendOK(s), QuietOK(s),
         NEW e \in Entries, e = [row |-> Written(IdFor(s.got[s.at].key), s.got[s.at]), new |-> s.at],
         NEW t \in Going, t.st = "byKey", t.got = s.got, t.from = s.from, t.quiet = s.quiet,
         t.at = s.at + 1, t.pend = s.pend \cup {e}
  PROVE  PlaceOK(t) /\ PendOK(t) /\ QuietOK(t) /\ (AloneOK(s) => AloneOK(t))
<1> DEFINE a == s.at
           g == s.got
<1>1. /\ a \in 1 .. Len(g) /\ a \in Nat /\ a # 0 /\ a + 1 \in 1 .. Len(g) + 1 /\ Len(g) \in Nat
      /\ g[a] \in Talks /\ a < a + 1 /\ \A n \in 1 .. Len(g) : n < a + 1 => n < a \/ n = a
  BY AtIs
<1>2. /\ e.row.id = IdFor(g[a].key) /\ e.row.key = g[a].key /\ e.row.says = g[a].says /\ e.new = a
      /\ g[a].key \in Issues /\ g[a].key # NoKey
  BY <1>1 DEF Written, Talks, Assumed
<1>3. ReqOK(e.row)
  BY <1>2, IdForHolds DEF ReqOK
<1>4. PlaceOK(t)
  BY <1>1 DEF PlaceOK
<1>5. PendOK(t)
  <2>1. \A p \in t.pend : ReqOK(p.row)
    BY <1>3 DEF PendOK
  <2>2. ASSUME NEW p \in t.pend, p.new # 0
        PROVE  /\ p.new \in 1 .. Len(t.got) /\ p.new < t.at
               /\ p.row.key = t.got[p.new].key /\ p.row.says = t.got[p.new].says
    <3>1. CASE p = e
      BY <1>1, <1>2, <3>1
    <3>2. CASE p \in s.pend
      <4>1. p.new \in 1 .. Len(g) /\ p.new < a /\ p.row.key = g[p.new].key /\ p.row.says = g[p.new].says
        BY <2>2, <3>2 DEF PendOK
      <4> QED
        BY <1>1, <4>1
    <3> QED
      BY <3>1, <3>2
  <2>3. ASSUME NEW p \in t.pend, NEW q \in t.pend, p.new = 0, q.new = 0, p.row.id = q.row.id
        PROVE  p = q
    BY <1>1, <1>2, <2>3 DEF PendOK
  <2> QED
    BY <2>1, <2>2, <2>3 DEF PendOK
<1>6. QuietOK(t)
  <2>1. ASSUME s.quiet, NEW n \in 1 .. Len(g), n < a + 1 PROVE Dealt(t, n)
    <3>1. CASE n = a
      BY <1>2, <3>1 DEF Dealt
    <3>2. CASE n # a
      <4>1. Dealt(s, n)
        BY <1>1, <2>1, <3>2 DEF QuietOK
      <4> QED
        BY <4>1 DEF Dealt
    <3> QED
      BY <3>1, <3>2
  <2> QED
    BY <2>1 DEF QuietOK
<1>7. ASSUME AloneOK(s) PROVE AloneOK(t)
  <2>1. ASSUME NEW p \in t.pend, p.new = 0 PROVE \E x \in reqs : x.id = p.row.id /\ x.key = p.row.key
    BY <1>1, <1>2, <1>7, <2>1 DEF AloneOK
  <2>2. ASSUME NEW p \in t.pend, p.new # 0
        PROVE  (\A x \in reqs : x.key # p.row.key) /\ p.row.id = IdFor(p.row.key)
    BY <1>2, <1>7, <2>2 DEF AloneOK
  <2> QED
    BY <2>1, <2>2 DEF AloneOK
<1> QED
  BY <1>4, <1>5, <1>6, <1>7
-----------------------------------------------------------------------------
(* The commit.                                                               *)

\* What collides, and what is stored otherwise.
Clash(s)  == \E p \in s.pend : p.new # 0 /\ (\/ \E r \in reqs : r.id = p.row.id
                                             \/ \E q \in s.pend : q # p /\ q.row.id = p.row.id)
Merged(s) == {r \in reqs : \A p \in s.pend : r.id # p.row.id} \cup {p.row : p \in s.pend}

LEMMA CommitIs ==
  ASSUME NEW w \in Workers
  PROVE  (Collides(w) <=> Clash(pull[w])) /\ Committed(w) = Merged(pull[w])
<1>1. \A d : d \in Ids(reqs) <=> \E r \in reqs : r.id = d
  BY DEF Ids
<1>2. \A d : d \in Ids(Rows(w)) <=> \E p \in pull[w].pend : d = p.row.id
  BY DEF Ids, Rows
<1>3. Collides(w) <=> Clash(pull[w])
  <2>1. ASSUME NEW p \in pull[w].pend
        PROVE  p.row.id \in Ids(reqs) <=> \E r \in reqs : r.id = p.row.id
    BY <1>1
  <2> QED
    BY <2>1, Zenon DEF Collides, Clash
<1>4. Committed(w) = Merged(pull[w])
  BY <1>2 DEF Committed, Merged, Rows
<1> QED
  BY <1>3, <1>4

LEMMA NewIsAlone ==
  ASSUME NEW s, ~ Clash(s), NEW p \in s.pend, NEW q \in s.pend, p.new # 0, q.row.id = p.row.id
  PROVE  q = p
BY Zenon DEF Clash

LEMMA MergedHolds ==
  ASSUME ReqShape, ReqsOK, NEW s \in Going, PendOK(s), ~ Clash(s)
  PROVE  /\ Merged(s) \subseteq ReqRows
         /\ \A r \in Merged(s) : ReqOK(r)
         /\ \A r, x \in Merged(s) : r.id = x.id => r = x
<1>1. \A p \in s.pend : p.row \in ReqRows /\ ReqOK(p.row) /\ p.new \in Nat
  BY DEF Going, Entries, ReqRows, PendOK
<1>2. Merged(s) \subseteq ReqRows /\ \A r \in Merged(s) : ReqOK(r)
  BY <1>1 DEF Merged, ReqShape, ReqsOK
<1>3. ASSUME NEW p \in s.pend, NEW q \in s.pend, p.row.id = q.row.id PROVE p = q
  <2>1. (p.new = 0 /\ q.new = 0) \/ p = q
    BY <1>3, NewIsAlone
  <2> QED
    BY <1>3, <2>1 DEF PendOK
<1>4. ASSUME NEW r \in Merged(s), NEW x \in Merged(s), r.id = x.id PROVE r = x
  <2>1. CASE \E p \in s.pend : p.row = r
    <3>1. PICK p \in s.pend : p.row = r
      BY <2>1
    <3>2. PICK q \in s.pend : q.row = x
      BY <1>4, <3>1 DEF Merged
    <3> QED
      BY <1>3, <1>4, <3>1, <3>2
  <2>2. CASE ~ \E p \in s.pend : p.row = r
    <3>1. r \in reqs /\ \A p \in s.pend : r.id # p.row.id
      BY <1>4, <2>2 DEF Merged
    <3>2. x \in reqs
      BY <1>4, <3>1 DEF Merged
    <3> QED
      BY <1>4, <3>1, <3>2 DEF ReqsOK
  <2> QED
    BY <2>1, <2>2
<1> QED
  BY <1>2, <1>4

LEMMA MergedSole ==
  ASSUME Assumed, ReqShape, ReqsOK, NEW s \in Going, PendOK(s), ~ Clash(s), AloneOK(s),
         \A r, x \in reqs : r.key = x.key /\ r.key # NoKey => r = x,
         NEW r \in Merged(s), NEW x \in Merged(s), r.key = x.key, r.key # NoKey
  PROVE  r = x
<1>1. ASSUME NEW p \in s.pend, NEW y \in reqs, y.key = p.row.key
      PROVE  p.new = 0 /\ y.id = p.row.id
  <2>1. p.row.key # NoKey
    BY DEF Going, Entries, Assumed
  <2>2. p.new = 0
    BY <1>1 DEF AloneOK
  <2>3. PICK z \in reqs : z.id = p.row.id /\ z.key = p.row.key
    BY <2>2 DEF AloneOK
  <2> QED
    BY <1>1, <2>1, <2>2, <2>3
<1>2. ASSUME NEW p \in s.pend, NEW q \in s.pend, p.row.key = q.row.key
      PROVE  p = q
  <2>1. CASE p.new = 0
    <3>1. PICK z \in reqs : z.id = p.row.id /\ z.key = p.row.key
      BY <2>1 DEF AloneOK
    <3>2. q.new = 0 /\ z.id = q.row.id
      BY <1>1, <1>2, <3>1
    <3> QED
      BY <2>1, <3>1, <3>2 DEF PendOK
  <2>2. CASE q.new = 0
    <3>1. PICK z \in reqs : z.id = q.row.id /\ z.key = q.row.key
      BY <2>2 DEF AloneOK
    <3>2. p.new = 0 /\ z.id = p.row.id
      BY <1>1, <1>2, <3>1
    <3> QED
      BY <2>2, <3>1, <3>2 DEF PendOK
  <2>3. CASE p.new # 0 /\ q.new # 0
    <3>1. p.row.id = IdFor(p.row.key) /\ q.row.id = IdFor(q.row.key)
      BY <2>3 DEF AloneOK
    <3>2. p.row.id = q.row.id
      BY <1>2, <3>1
    <3> QED
      BY <2>3, <3>2, NewIsAlone
  <2> QED
    BY <2>1, <2>2, <2>3
<1>3. CASE r \in reqs /\ (\A p \in s.pend : r.id # p.row.id)
  <2>1. CASE \E p \in s.pend : x = p.row
    BY <1>1, <1>3, <2>1
  <2>2. CASE x \in reqs
    BY <1>3, <2>2
  <2> QED
    BY <2>1, <2>2 DEF Merged
<1>4. CASE x \in reqs /\ (\A p \in s.pend : x.id # p.row.id)
  <2>1. CASE \E p \in s.pend : r = p.row
    BY <1>1, <1>4, <2>1
  <2>2. CASE r \in reqs
    BY <1>4, <2>2
  <2> QED
    BY <2>1, <2>2 DEF Merged
<1>5. CASE \E p, q \in s.pend : r = p.row /\ x = q.row
  BY <1>2, <1>5
<1> QED
  BY <1>3, <1>4, <1>5 DEF Merged

\* The rows of a quiet sync that is alone do not collide.
LEMMA QuietIsFree ==
  ASSUME Assumed, JiraShape, ReqShape, ReqsOK, NEW s \in Going, s.st = "byKey", s.quiet,
         PendOK(s), QuietOK(s), AloneOK(s)
  PROVE  ~ Clash(s)
<1> SUFFICES ASSUME NEW p \in s.pend, p.new # 0,
                    \/ \E r \in reqs : r.id = p.row.id
                    \/ \E q \in s.pend : q # p /\ q.row.id = p.row.id
             PROVE  FALSE
  BY DEF Clash
<1>1. /\ \A r \in reqs : r.key # p.row.key
      /\ p.row.id = IdFor(p.row.key) /\ ReqOK(p.row) /\ p.row.key \in Issues /\ p.row.key # NoKey
  BY DEF AloneOK, PendOK, Going, Entries, Assumed
<1>2. CASE \E r \in reqs : r.id = p.row.id
  <2>1. PICK r \in reqs : r.id = p.row.id
    BY <1>2
  <2>2. ReqOK(r) /\ r.key # p.row.key
    BY <1>1 DEF ReqsOK
  <2>3. r.key = NoKey
    BY <1>1, <2>1, <2>2, IdTellsKey
  <2>4. PICK i \in Issues : r.id = Plain(i)
    BY <2>2, <2>3 DEF ReqOK
  <2>5. p.row.id # Other(p.row.key)
    BY <2>1, <2>4, IdsDiffer
  <2>6. p.row.id = Plain(p.row.key)
    BY <1>1, <2>5 DEF IdFor
  <2>7. ~ \E y \in reqs : y.id = Plain(p.row.key)
    BY <1>1, <2>5 DEF IdFor
  <2> QED
    BY <2>1, <2>6, <2>7
<1>3. CASE \E q \in s.pend : q # p /\ q.row.id = p.row.id
  <2>1. PICK q \in s.pend : q # p /\ q.row.id = p.row.id
    BY <1>3
  <2>2. ReqOK(q.row) /\ q.row.key # NoKey
    BY DEF PendOK, Going, Entries, Assumed
  <2>3. q.row.key = p.row.key
    BY <1>1, <2>1, <2>2, IdTellsKey
  <2>4. q.new # 0
    BY <1>1, <2>3 DEF AloneOK
  <2>5. /\ p.new \in 1 .. Len(s.got) /\ p.row.key = s.got[p.new].key /\ p.row.says = s.got[p.new].says
        /\ q.new \in 1 .. Len(s.got) /\ q.row.key = s.got[q.new].key /\ q.row.says = s.got[q.new].says
    BY <2>4 DEF PendOK
  <2>6. s.got[p.new].key = s.got[q.new].key
    BY <2>3, <2>5
  <2>7. p.new = q.new
    BY <2>5, <2>6, ListedOnce
  <2>8. p.row = q.row
    BY <2>1, <2>3, <2>5, <2>7 DEF Going, Entries
  <2> QED
    BY <2>1, <2>7, <2>8 DEF Going, Entries
<1> QED
  BY <1>2, <1>3

\* A quiet sync that is through its list has a row for every issue.
LEMMA QuietIsWhole ==
  ASSUME JiraShape, NEW s \in Going, s.st = "byKey", s.quiet, s.at > Len(s.got), QuietOK(s)
  PROVE  Complete(Merged(s))
<1> SUFFICES ASSUME NEW i \in Range(board) PROVE \E r \in Merged(s) : r.key = i /\ r.says = text[i]
  BY DEF Complete
<1>1. board \in Seq(Issues) /\ s.got \in Seq(Talks) /\ s.at \in Nat
  BY DEF JiraShape, Going
<1>2. DOMAIN board = 1 .. Len(board) /\ Len(board) \in Nat
  BY <1>1, LenProperties
<1>3. PICK n \in 1 .. Len(board) : board[n] = i
  BY <1>2 DEF Range
<1>4. Len(s.got) = Len(board)
  BY DEF QuietOK
<1>5. n \in 1 .. Len(s.got) /\ n < s.at
  BY <1>1, <1>2, <1>3, <1>4
<1>6. s.got[n] = Told(n) /\ Dealt(s, n)
  BY <1>5 DEF QuietOK
<1>7. s.got[n].key = i /\ s.got[n].says = text[i]
  BY <1>3, <1>6 DEF Told
<1>8. PICK p \in s.pend : p.row.key = i /\ p.row.says = text[i]
  BY <1>6, <1>7 DEF Dealt
<1> QED
  BY <1>8 DEF Merged
-----------------------------------------------------------------------------
(* The actions: at Jira, and those who ask.                                  *)

LEMMA ChangeKeeps ==
  ASSUME Assumed, JiraInv, Change PROVE JiraInv'
<1>1. /\ board \in Seq(Issues) /\ IsInjective(board) /\ text \in [Issues -> Says]
      /\ SyncShape /\ RunsOK /\ SoleOK
  BY DEF JiraInv, Shapes, JiraShape
<1>2. JiraShape'
  <2>1. CASE \E i \in Issues \ Range(board) : board' = <<i>> \o board /\ text' = text
    <3>1. PICK i \in Issues : i \notin Range(board) /\ board' = <<i>> \o board /\ text' = text
      BY <2>1
    <3> DEFINE m == Len(board)
               b == <<i>> \o board
    <3>2. m \in Nat /\ DOMAIN board = 1 .. m /\ <<i>> \in Seq(Issues) /\ Len(<<i>>) = 1
      BY <1>1, LenIs
    <3>3. /\ b \in Seq(Issues) /\ Len(b) = 1 + m
          /\ \A n \in 1 .. 1 + m : b[n] = IF n <= 1 THEN <<i>>[n] ELSE board[n - 1]
      BY <1>1, <3>2, ConcatProperties
    <3> HIDE DEF b, m
    <3>4. DOMAIN b = 1 .. 1 + m /\ b[1] = i
      <4>1. 1 \in 1 .. 1 + m /\ <<i>>[1] = i
        BY <3>2
      <4> QED
        BY <3>2, <3>3, <4>1, LenIs
    <3>5. ASSUME NEW n \in 2 .. 1 + m PROVE n - 1 \in 1 .. m /\ b[n] = board[n - 1] /\ b[n] # i
      <4>1. n - 1 \in 1 .. m /\ n \in 1 .. 1 + m /\ ~ (n <= 1)
        BY <3>2
      <4>2. board[n - 1] # i
        BY <3>1, <3>2, <4>1 DEF Range
      <4> QED
        BY <3>3, <4>1, <4>2
    <3>6. ASSUME NEW n \in 1 .. 1 + m, NEW x \in 1 .. 1 + m, b[n] = b[x] PROVE n = x
      <4>1. CASE n = 1 /\ x = 1
        BY <4>1
      <4>2. CASE n = 1 /\ x \in 2 .. 1 + m
        BY <3>4, <3>5, <3>6, <4>2
      <4>3. CASE x = 1 /\ n \in 2 .. 1 + m
        BY <3>4, <3>5, <3>6, <4>3
      <4>4. CASE n \in 2 .. 1 + m /\ x \in 2 .. 1 + m
        <5>1. board[n - 1] = board[x - 1] /\ n - 1 \in DOMAIN board /\ x - 1 \in DOMAIN board
          BY <3>2, <3>5, <3>6, <4>4
        <5>2. n - 1 = x - 1
          BY <1>1, <5>1 DEF IsInjective
        <5> QED
          BY <4>4, <5>2
      <4>5. \A y \in 1 .. 1 + m : y = 1 \/ y \in 2 .. 1 + m
        BY <3>2
      <4> QED
        BY <4>1, <4>2, <4>3, <4>4, <4>5
    <3>7. IsInjective(b)
      BY <3>4, <3>6 DEF IsInjective
    <3> QED
      BY <1>1, <3>1, <3>3, <3>7 DEF JiraShape, b
  <2>2. CASE \E i \in Range(board) : board' = Without(board, {i}) /\ text' = text
    <3>1. PICK i : board' = Without(board, {i}) /\ text' = text
      BY <2>2
    <3>2. board' \in Seq(Issues) /\ IsInjective(board')
      BY <1>1, <3>1, WithoutEmbeds, WithoutInjective
    <3> QED
      BY <1>1, <3>1, <3>2 DEF JiraShape
  <2>3. CASE \E i \in Range(board) : text' = [text EXCEPT ![i] = 1 - @] /\ board' = board
    <3>1. PICK i \in Range(board) : text' = [text EXCEPT ![i] = 1 - @] /\ board' = board
      BY <2>3
    <3>2. i \in Issues
      BY <1>1, <3>1, RangeIn
    <3>3. 1 - text[i] \in Says
      BY <1>1, <3>2 DEF Says
    <3> QED
      BY <1>1, <3>1, <3>2, <3>3 DEF JiraShape
  <2> QED
    BY <2>1, <2>2, <2>3 DEF Change
<1>3. /\ pull' = [w \in Workers |-> IF pull[w].st = "idle" THEN pull[w]
                                    ELSE [pull[w] EXCEPT !.quiet = FALSE]]
      /\ UNCHANGED <<reqs, status, jobs, ask, report, bugs, link, met, ended, missed, patched, faults>>
  BY DEF Change, Unquiet, jobVars, pushVars
<1>4. ASSUME NEW w \in Workers, pull[w].st # "idle"
      PROVE  LET s == pull[w]  t == pull'[w]
             IN  /\ s \in Going /\ t \in Going /\ t.st = s.st /\ t.got = s.got /\ t.from = s.from
                 /\ t.at = s.at /\ t.pend = s.pend /\ ~ t.quiet /\ t.old = s.old
  <2>1. pull[w] \in Going
    BY <1>1, <1>4 DEF SyncShape, NoSync
  <2>2. pull'[w] = [pull[w] EXCEPT !.quiet = FALSE]
    BY <1>3, <1>4
  <2> QED
    BY <2>1, <2>2, Disturbed
<1>5. ASSUME NEW w \in Workers, pull[w].st = "idle" PROVE pull'[w] = pull[w]
  BY <1>3, <1>5
<1>6. SyncShape'
  <2>1. ASSUME NEW w \in Workers PROVE pull'[w] \in {NoSync} \cup Going
    <3>1. CASE pull[w].st = "idle"
      BY <1>1, <1>5, <3>1 DEF SyncShape
    <3>2. CASE pull[w].st # "idle"
      BY <1>4, <3>2
    <3> QED
      BY <3>1, <3>2
  <2>2. pull' = [w \in Workers |-> pull'[w]]
    BY <1>3
  <2> QED
    BY <2>1, <2>2 DEF SyncShape
<1>7. Syncing' = Syncing
  BY <1>4, <1>5 DEF Syncing
<1>8. RunsOK'
  <2>1. ASSUME NEW w \in Workers, pull'[w].st # "idle"
        PROVE  PlaceOK(pull[w])' /\ PendOK(pull[w])' /\ QuietOK(pull[w])'
    <3>1. pull[w].st # "idle"
      BY <1>5, <2>1
    <3>2. PlaceOK(pull[w]) /\ PendOK(pull[w])
      BY <1>1, <3>1 DEF RunsOK
    <3>3. PlaceOK(pull[w])'
      BY <1>4, <3>1, <3>2 DEF PlaceOK
    <3>4. PendOK(pull[w])'
      BY <1>4, <3>1, <3>2 DEF PendOK
    <3>5. QuietOK(pull[w])'
      BY <1>4, <3>1 DEF QuietOK
    <3> QED
      BY <3>3, <3>4, <3>5
  <2> QED
    BY <2>1 DEF RunsOK
<1>9. SoleOK'
  <2> SUFFICES ASSUME "sync" \notin met PROVE SoleOK'
    BY <1>3 DEF SoleOK
  <2>1. ASSUME NEW w \in Syncing PROVE (AloneOK(pull[w]) /\ ShownOK(pull[w]))'
    <3>1. AloneOK(pull[w]) /\ ShownOK(pull[w]) /\ w \in Workers /\ pull[w].st # "idle"
      BY <1>1 DEF SoleOK, Syncing
    <3> QED
      BY <1>3, <1>4, <3>1 DEF AloneOK, IdFor, ShownOK
  <2> QED
    BY <1>1, <1>3, <1>7, <2>1 DEF SoleOK
<1>10. ReqShape' /\ ReqsOK' /\ AsksOK' /\ JobShape' /\ PushShape' /\ Counted' /\ PushesOK'
  BY <1>3, SameReqs, SameAsks, SamePushes DEF JiraInv, Shapes, JobShape
<1> QED
  BY <1>2, <1>3, <1>6, <1>8, <1>9, <1>10 DEF JiraInv, Shapes

LEMMA DisableKeeps ==
  ASSUME JiraInv, Disable PROVE JiraInv'
<1>1. /\ status' = "disabled" /\ ended' = "none" /\ patched'
      /\ UNCHANGED <<board, text, jobs, ask, reqs, pull, missed, report, bugs, link, met, faults>>
  BY DEF Disable, jiraSide, jobVars, pushVars
<1>2. ReqShape' /\ ReqsOK' /\ AsksOK' /\ SyncShape' /\ RunsOK' /\ PushShape' /\ Counted' /\ PushesOK'
  BY <1>1, SameReqs, SameAsks, SameRuns, SamePushes DEF JiraInv, Shapes
<1>3. SoleOK'
  <2> SUFFICES ASSUME "sync" \notin met PROVE SoleOK'
    BY <1>1 DEF SoleOK
  <2>1. SoleOK /\ Syncing' = Syncing
    BY <1>1 DEF JiraInv, Syncing
  <2>2. ASSUME NEW w \in Syncing PROVE (AloneOK(pull[w]) /\ ShownOK(pull[w]))'
    BY <1>1, <2>1 DEF SoleOK, AloneOK, IdFor, ShownOK
  <2> QED
    BY <1>1, <2>1, <2>2 DEF SoleOK
<1> QED
  BY <1>1, <1>2, <1>3 DEF JiraInv, Shapes, JiraShape, JobShape, Shown

LEMMA AskLookKeeps ==
  ASSUME JiraInv, NEW a \in Askers, AskLook(a) PROVE JiraInv'
<1>1. /\ a \notin ask /\ Active = {} /\ ask' = ask \cup {a}
      /\ met' = met \cup (IF ask # {} THEN {"ask"} ELSE {})
      /\ UNCHANGED <<board, text, jobs, reqs, status, pull, ended, missed, patched, report, bugs, link, faults>>
  BY DEF AskLook, jiraSide, pullVars, pushVars
<1>2. met \subseteq met'
  BY <1>1
<1>3. /\ ReqShape' /\ ReqsOK' /\ SyncShape' /\ RunsOK' /\ SoleOK' /\ PushShape' /\ Counted'
      /\ PushesOK'
  BY <1>1, <1>2, SameReqs, SameRuns, SameSole, SamePushes DEF JiraInv, Shapes
<1>4. AsksOK'
  <2> SUFFICES ASSUME "ask" \notin met' PROVE AsksOK'
    BY DEF AsksOK
  <2>1. ask' = {a} /\ Active' = {}
    BY <1>1 DEF Active
  <2> QED
    BY <2>1 DEF AsksOK
<1> QED
  BY <1>1, <1>3, <1>4 DEF JiraInv, Shapes, JiraShape, JobShape

LEMMA AskInsertKeeps ==
  ASSUME JiraInv, NEW a \in Askers, AskInsert(a) PROVE JiraInv'
<1>1. /\ a \in ask /\ ask' = ask \ {a}
      /\ UNCHANGED <<board, text, reqs, status, pull, ended, missed, patched, report, bugs, link, met, faults>>
  BY DEF AskInsert, jiraSide, pullVars, pushVars
<1>2. PICK j \in Jobs : jobs[j].st = "none" /\ jobs' = [jobs EXCEPT ![j].st = "queued"]
  BY DEF AskInsert
<1>3. JobShape /\ AsksOK
  BY DEF JiraInv, Shapes
<1>4. JobShape' /\ Active' = Active \cup {j}
  <2>1. JobShape' /\ jobs'[j].st = "queued" /\ \A i \in Jobs : i # j => jobs'[i] = jobs[i]
    BY <1>2, <1>3 DEF JobShape
  <2> QED
    BY <2>1 DEF Active
<1>5. AsksOK'
  <2> SUFFICES ASSUME "ask" \notin met PROVE AsksOK'
    BY <1>1 DEF AsksOK
  <2>1. ask' = {} /\ Active' = {j}
    BY <1>1, <1>3, <1>4 DEF AsksOK
  <2> QED
    BY <2>1 DEF AsksOK
<1>6. /\ ReqShape' /\ ReqsOK' /\ SyncShape' /\ RunsOK' /\ SoleOK' /\ PushShape' /\ Counted'
      /\ PushesOK'
  BY <1>1, SameReqs, SameRuns, SameSole, SamePushes DEF JiraInv, Shapes
<1> QED
  BY <1>1, <1>4, <1>5, <1>6 DEF JiraInv, Shapes, JiraShape
-----------------------------------------------------------------------------
(* The actions: a sync.                                                      *)

LEMMA NoSyncIsNotGoing ==
  NoSync.st = "idle" /\ \A s \in Going : s.st # "idle"
BY DEF NoSync, Going, Early, Late

LEMMA TakeKeeps ==
  ASSUME JiraInv, NEW w \in Workers, NEW j \in Jobs, Take(w, j) PROVE JiraInv'
<1>1. /\ pull[w].st = "idle" /\ pull' = [pull EXCEPT ![w] = Sync("paging", j, status, TRUE)]
      /\ jobs[j].st \in {"queued", "processing"} /\ faults' \in {faults, faults + 1}
      /\ jobs' = [jobs EXCEPT ![j] = [st |-> "processing", by |-> w]]
      /\ met' = met \cup (IF Syncing # {} THEN {"sync"} ELSE {})
      /\ ended' = "none" /\ patched' = FALSE
      /\ UNCHANGED <<board, text, ask, reqs, status, missed, report, bugs, link>>
  BY DEF Take, PullTo, jiraSide, pushVars
<1>2. /\ SyncShape /\ RunsOK /\ JobShape /\ AsksOK /\ SoleOK /\ met \subseteq met'
      /\ faults' = faults \/ faults' = faults + 1
  BY <1>1 DEF JiraInv, Shapes
<1>3. PICK t \in Going : /\ pull' = [pull EXCEPT ![w] = t]
                         /\ t.st = "paging" /\ t.at = 1 /\ t.pend = {} /\ t.got = <<>> /\ t.from = 0
                         /\ t.old = status
  <2>1. PICK o \in Shown : o = status
    BY DEF JiraInv, Shapes
  <2> DEFINE q == Sync("paging", j, o, TRUE)
  <2>2. /\ q \in Going /\ q.st = "paging" /\ q.at = 1 /\ q.pend = {} /\ q.got = <<>>
        /\ q.from = 0 /\ q.old = o
    BY EmptySeq DEF Going, Sync, Early
  <2>3. pull' = [pull EXCEPT ![w] = q]
    BY <1>1, <2>1
  <2> HIDE DEF q
  <2> QED
    BY <2>1, <2>2, <2>3
<1>4. PlaceOK(t) /\ PendOK(t) /\ AloneOK(t) /\ AloneOK(t)' /\ ShownOK(t)'
  BY <1>1, <1>3 DEF PlaceOK, PendOK, AloneOK, ShownOK
<1>5. QuietOK(t)
  <2>1. Len(board) \in Nat
    BY LenProperties DEF JiraInv, Shapes, JiraShape
  <2> QED
    BY <1>3, <2>1 DEF QuietOK
<1>6. SyncShape' /\ RunsOK'
  BY <1>1, <1>2, <1>3, <1>4, <1>5, OneMoves
<1>7. JobShape' /\ Active' = Active
  <2>1. /\ JobShape' /\ jobs'[j].st = "processing"
        /\ \A i \in Jobs : i # j => jobs'[i] = jobs[i]
    BY <1>1, <1>2 DEF JobShape
  <2> QED
    BY <1>1, <2>1 DEF Active
<1>8. AsksOK'
  BY <1>1, <1>2, <1>7 DEF AsksOK
<1>9. SoleOK'
  <2> SUFFICES ASSUME "sync" \notin met' PROVE SoleOK'
    BY DEF SoleOK
  <2>1. Syncing = {} /\ "sync" \notin met
    BY <1>1
  <2> DOMAIN pull = Workers
    BY <1>2 DEF SyncShape
  <2>2. pull'[w] = t /\ \A v \in Workers : v # w => pull'[v] = pull[v]
    BY <1>3
  <2>3. Syncing' \subseteq {w}
    BY <2>1, <2>2 DEF Syncing
  <2>4. \A r, s \in reqs' : r.key = s.key /\ r.key # NoKey => r = s
    BY <1>1, <1>2, <2>1 DEF SoleOK
  <2>5. \A v \in Syncing' : (AloneOK(pull[v]) /\ ShownOK(pull[v]))'
    BY <1>4, <2>2, <2>3 DEF AloneOK, ShownOK
  <2> QED
    BY <1>1, <2>3, <2>4, <2>5 DEF SoleOK
<1>10. ReqShape' /\ ReqsOK' /\ PushShape' /\ Counted' /\ PushesOK'
  BY <1>1, <1>2, SameReqs, SamePushes DEF JiraInv, Shapes
<1> QED
  BY <1>1, <1>6, <1>7, <1>8, <1>9, <1>10 DEF JiraInv, Shapes, JiraShape

\* A sync that goes on changes nothing else.
LEMMA GoesOn ==
  ASSUME JiraInv, NEW w \in Workers, pull[w].st # "idle", NEW t \in Going,
         PlaceOK(t), PendOK(t), QuietOK(t), AloneOK(pull[w]) => AloneOK(t),
         pull[w].st \in Early, t.st \in Early, t.old = pull[w].old,
         pull' = [pull EXCEPT ![w] = t],
         UNCHANGED <<board, text, jobs, ask, reqs, status, ended, missed, patched, report, bugs, link, met,
                     faults>>
  PROVE  JiraInv'
<1>1. SyncShape /\ RunsOK /\ SoleOK
  BY DEF JiraInv, Shapes
<1>2. SyncShape' /\ RunsOK'
  BY <1>1, OneMoves
<1>3. "sync" \notin met => AloneOK(t) /\ ShownOK(t)
  <2>1. t.st \notin {"stored", "done", "error"}
    BY DEF Early
  <2> QED
    BY <1>1, <2>1 DEF SoleOK, Syncing, ShownOK
<1>4. SoleOK'
  BY <1>1, <1>3, SoleMoves
<1>5. ReqShape' /\ ReqsOK' /\ AsksOK' /\ PushShape' /\ Counted' /\ PushesOK'
  BY SameReqs, SameAsks, SamePushes DEF JiraInv, Shapes
<1> QED
  BY <1>2, <1>4, <1>5 DEF JiraInv, Shapes, JiraShape, JobShape

LEMMA RunIs ==
  ASSUME JiraInv, NEW w \in Workers, pull[w].st # "idle"
  PROVE  /\ pull[w] \in Going /\ PlaceOK(pull[w]) /\ PendOK(pull[w]) /\ QuietOK(pull[w])
         /\ JiraShape /\ ReqShape /\ ReqsOK
BY DEF JiraInv, Shapes, SyncShape, RunsOK, NoSync

LEMMA SearchingKeeps ==
  ASSUME Assumed, JiraInv, NEW w \in Workers, Search(w) PROVE JiraInv'
<1> DEFINE s == pull[w]
           h == s.got \o Answered(s.from)
           f == s.from + Page
           x == IF f >= Len(board) \/ Answered(s.from) = <<>> THEN "byKey" ELSE s.st
           t == [s EXCEPT !.got = h, !.from = f, !.st = x]
<1>1. /\ s.st = "paging" /\ pull' = [pull EXCEPT ![w] = t]
      /\ UNCHANGED <<board, text, jobs, ask, reqs, status, ended, missed, patched, report, bugs, link, met,
                     faults>>
  BY DEF Search, PullTo, jiraSide, jobVars, pushVars
<1>2. s \in Going /\ PlaceOK(s) /\ PendOK(s) /\ QuietOK(s) /\ JiraShape
  BY <1>1, RunIs
<1>3. s.from \in Nat /\ s.got \in Seq(Talks) /\ Page \in Nat
  BY <1>2 DEF Going, Assumed
<1>4. Answered(s.from) \in Seq(Talks)
  BY <1>2, <1>3, AnsweredIs
<1>5. h \in Seq(Talks) /\ f \in Nat /\ x \in Early
  BY <1>1, <1>3, <1>4, ConcatProperties DEF Early
<1>6. x = IF s.from + Page >= Len(board) \/ Answered(s.from) = <<>> THEN "byKey" ELSE "paging"
  BY <1>1
<1>7. h = s.got \o Answered(s.from) /\ f = s.from + Page
  OBVIOUS
<1> HIDE DEF h, f, x
<1>8. /\ t \in Going /\ t.st = x /\ t.got = h /\ t.from = f
      /\ t.at = s.at /\ t.pend = s.pend /\ t.quiet = s.quiet /\ t.old = s.old
  <2> HIDE DEF s
  <2> QED
    BY <1>2, <1>5 DEF Going
<1> HIDE DEF t
<1>9. PlaceOK(t) /\ PendOK(t) /\ QuietOK(t) /\ AloneOK(t)
  <2> HIDE DEF s
  <2> QED
    BY <1>1, <1>2, <1>6, <1>7, <1>8, SearchKeeps
<1> QED
  BY <1>1, <1>5, <1>8, <1>9, GoesOn DEF Early

LEMMA SearchFailsKeeps ==
  ASSUME JiraInv, NEW w \in Workers, SearchFails(w) PROVE JiraInv'
<1> DEFINE s == pull[w]
           t == [s EXCEPT !.st = "failed"]
<1>1. /\ s.st = "paging" /\ pull' = [pull EXCEPT ![w] = t]
      /\ UNCHANGED <<board, text, jobs, ask, reqs, status, ended, missed, patched, report, bugs, link, met,
                     faults>>
  BY DEF SearchFails, PullTo, jiraSide, jobVars, pushVars
<1>2. s \in Going /\ PlaceOK(s) /\ PendOK(s)
  BY <1>1, RunIs
<1>3. /\ t \in Going /\ t.st = "failed" /\ t.got = s.got /\ t.at = s.at /\ t.pend = s.pend
      /\ t.old = s.old
  BY <1>2, Marked DEF Early
<1> HIDE DEF t
<1>4. PlaceOK(t) /\ PendOK(t) /\ QuietOK(t) /\ (AloneOK(s) => AloneOK(t))
  BY <1>2, <1>3 DEF PlaceOK, PendOK, QuietOK, AloneOK
<1> QED
  BY <1>1, <1>3, <1>4, GoesOn DEF Early

LEMMA FindByKeyKeeps ==
  ASSUME Assumed, JiraInv, NEW w \in Workers, FindByKey(w) PROVE JiraInv'
<1> DEFINE s == pull[w]
<1>1. /\ s.st = "byKey" /\ s.at <= Len(s.got)
      /\ UNCHANGED <<board, text, jobs, ask, reqs, status, ended, missed, patched, report, bugs, link, met,
                     faults>>
  BY DEF FindByKey, jiraSide, jobVars, pushVars
<1>2. s \in Going /\ PlaceOK(s) /\ PendOK(s) /\ QuietOK(s) /\ JiraShape /\ ReqShape /\ ReqsOK
  BY <1>1, RunIs
<1>3. s.got[s.at] \in Talks /\ s.at + 1 \in Nat
  BY <1>1, <1>2, AtIs
<1>4. CASE Found(w) = {}
  <2> DEFINE t == [s EXCEPT !.st = "byId"]
  <2>1. pull' = [pull EXCEPT ![w] = t]
    BY <1>4 DEF FindByKey, PullTo
  <2>2. /\ t \in Going /\ t.st = "byId" /\ t.got = s.got /\ t.from = s.from
        /\ t.at = s.at /\ t.pend = s.pend /\ t.quiet = s.quiet /\ t.old = s.old
    BY <1>2, Marked DEF Early
  <2> HIDE DEF t
  <2>3. \A r \in reqs : r.key # t.got[t.at].key
    BY <1>4, <2>2 DEF Found, Issue
  <2>4. PlaceOK(t)
    BY <1>1, <1>2, <2>2 DEF PlaceOK
  <2>5. PendOK(t)
    BY <1>2, <2>2 DEF PendOK
  <2>6. QuietOK(t)
    BY <1>1, <1>2, <2>2 DEF QuietOK, Dealt
  <2>7. AloneOK(s) => AloneOK(t)
    BY <2>2, <2>3 DEF AloneOK
  <2> QED
    BY <1>1, <2>1, <2>2, <2>4, <2>5, <2>6, <2>7, GoesOn DEF Early
<1>5. CASE Found(w) # {}
  <2>1. PICK r \in Found(w) :
          PullTo(w, [s EXCEPT !.at = @ + 1, !.pend = {p \in @ : p.row.id # r.id}
                                             \cup {[row |-> Written(r.id, Issue(w)), new |-> 0]}])
    BY <1>5 DEF FindByKey
  <2> DEFINE e == [row |-> Written(r.id, s.got[s.at]), new |-> 0]
             n == s.at + 1
             pd == {p \in s.pend : p.row.id # r.id} \cup {e}
             t == [s EXCEPT !.at = n, !.pend = pd]
  <2>2. r \in reqs /\ r.key = s.got[s.at].key
    BY DEF Found, Issue
  <2>3. pull' = [pull EXCEPT ![w] = t]
    BY <2>1 DEF PullTo, Issue
  <2>4. e \in Entries
    <3>1. r.id \in AllIds
      BY <1>2, <2>2 DEF ReqShape, ReqRows
    <3>2. r.key # NoKey
      BY <1>3, <2>2 DEF Talks, Assumed
    <3>3. r.id = Plain(s.got[s.at].key) \/ r.id = Other(s.got[s.at].key)
      BY <1>2, <2>2, <3>2 DEF ReqsOK, ReqOK
    <3> HIDE DEF s
    <3> QED
      BY <1>3, <3>1, <3>3, WrittenHolds
  <2>5. pd \in SUBSET Entries /\ n \in Nat
    <3> HIDE DEF e
    <3> QED
      BY <1>2, <1>3, <2>4 DEF Going
  <2>6. e = [row |-> Written(r.id, s.got[s.at]), new |-> 0]
    OBVIOUS
  <2>7. pd = {p \in s.pend : p.row.id # r.id} \cup {e} /\ n = s.at + 1
    OBVIOUS
  <2> HIDE DEF e, n, pd
  <2>8. /\ t \in Going /\ t.st = s.st /\ t.got = s.got /\ t.from = s.from
        /\ t.at = n /\ t.pend = pd /\ t.quiet = s.quiet /\ t.old = s.old
    <3> HIDE DEF s
    <3> QED
      BY <1>2, <2>5 DEF Going
  <2> HIDE DEF t
  <2>9. PlaceOK(t) /\ PendOK(t) /\ QuietOK(t) /\ (AloneOK(s) => AloneOK(t))
    <3> HIDE DEF s
    <3> QED
      BY <1>1, <1>2, <2>2, <2>4, <2>6, <2>7, <2>8, FoundKeeps
  <2> QED
    BY <1>1, <2>3, <2>8, <2>9, GoesOn DEF Early
<1> QED
  BY <1>4, <1>5

LEMMA FindByIdKeeps ==
  ASSUME Assumed, JiraInv, NEW w \in Workers, FindById(w) PROVE JiraInv'
<1> DEFINE s == pull[w]
           d == IdFor(s.got[s.at].key)
           e == [row |-> Written(d, s.got[s.at]), new |-> s.at]
           n == s.at + 1
           pd == s.pend \cup {e}
           t == [s EXCEPT !.st = "byKey", !.at = n, !.pend = pd]
<1>1. /\ s.st = "byId" /\ pull' = [pull EXCEPT ![w] = t]
      /\ UNCHANGED <<board, text, jobs, ask, reqs, status, ended, missed, patched, report, bugs, link, met,
                     faults>>
  BY DEF FindById, PullTo, Issue, IdFor, jiraSide, jobVars, pushVars
<1>2. s \in Going /\ PlaceOK(s) /\ PendOK(s) /\ QuietOK(s) /\ s.at <= Len(s.got)
  BY <1>1, RunIs DEF PlaceOK
<1>3. s.got[s.at] \in Talks /\ s.at + 1 \in Nat /\ s.at \in Nat
  BY <1>1, <1>2, AtIs
<1>4. e \in Entries
  <2>1. d \in AllIds /\ (d = Plain(s.got[s.at].key) \/ d = Other(s.got[s.at].key))
    BY <1>3, IdForHolds DEF Talks
  <2> HIDE DEF s, d
  <2> QED
    BY <1>3, <2>1, WrittenHolds
<1>5. pd \in SUBSET Entries /\ n \in Nat
  <2> HIDE DEF e
  <2> QED
    BY <1>2, <1>3, <1>4 DEF Going
<1>6. /\ e = [row |-> Written(IdFor(s.got[s.at].key), s.got[s.at]), new |-> s.at]
      /\ pd = s.pend \cup {e} /\ n = s.at + 1
  OBVIOUS
<1> HIDE DEF e, n, pd
<1>7. /\ t \in Going /\ t.st = "byKey" /\ t.got = s.got /\ t.from = s.from
      /\ t.at = n /\ t.pend = pd /\ t.quiet = s.quiet /\ t.old = s.old
  <2>1. "byKey" \in Early
    BY DEF Early
  <2> HIDE DEF s
  <2> QED
    BY <1>2, <1>5, <2>1 DEF Going
<1> HIDE DEF t
<1>8. PlaceOK(t) /\ PendOK(t) /\ QuietOK(t) /\ (AloneOK(s) => AloneOK(t))
  <2> HIDE DEF s
  <2> QED
    BY <1>1, <1>2, <1>4, <1>6, <1>7, MadeKeeps
<1> QED
  BY <1>1, <1>7, <1>8, GoesOn DEF Early
\* A sync that was alone is alone with what it does.
LEMMA OnlyOne ==
  ASSUME JiraInv, NEW w \in Workers, pull[w].st # "idle", "sync" \notin met
  PROVE  Syncing = {w} /\ ended = "none" /\ AloneOK(pull[w]) /\ ShownOK(pull[w])
<1>1. SoleOK /\ w \in Syncing
  BY DEF JiraInv, Syncing
<1> QED
  BY <1>1 DEF SoleOK

\* A sync that has written, or failed to, holds nothing any more.
LEMMA WritesOn ==
  ASSUME JiraInv, NEW w \in Workers, pull[w].st # "idle", NEW st \in Late,
         pull' = [pull EXCEPT ![w] = Sync(st, pull[w].job, pull[w].old, FALSE)],
         UNCHANGED <<board, text, jobs, ask, ended, report, bugs, link, met, faults>>,
         ~ missed', status' \in Shown, ReqShape', ReqsOK',
         "sync" \notin met => /\ st \in {"stored", "done"} => patched' \/ status' = "active"
                              /\ st = "error" => patched' \/ status' = "error"
                              /\ \A r, x \in reqs' : r.key = x.key /\ r.key # NoKey => r = x
  PROVE  JiraInv'
<1>1. pull[w] \in Going /\ SyncShape /\ RunsOK
  BY RunIs DEF JiraInv, Shapes
<1>2. PICK t \in Going : /\ pull' = [pull EXCEPT ![w] = t] /\ t.st = st
                         /\ PlaceOK(t) /\ PendOK(t) /\ QuietOK(t) /\ t.pend = {}
  <2>1. pull[w].job \in Jobs /\ pull[w].old \in Shown
    BY <1>1 DEF Going
  <2> DEFINE t == Sync(st, pull[w].job, pull[w].old, FALSE)
  <2>2. t \in Going /\ PlaceOK(t) /\ PendOK(t) /\ QuietOK(t) /\ t.st = st
    BY <2>1, LateHolds
  <2>3. t.pend = {}
    BY DEF Sync
  <2>4. pull' = [pull EXCEPT ![w] = t]
    OBVIOUS
  <2> HIDE DEF t
  <2> QED
    BY <2>2, <2>3, <2>4
<1>3. SyncShape' /\ RunsOK'
  BY <1>1, <1>2, OneMoves
<1>4. SoleOK'
  <2> SUFFICES ASSUME "sync" \notin met PROVE SoleOK'
    BY DEF SoleOK
  <2>1. pull'[w] = t /\ \A v \in Workers : v # w => pull'[v] = pull[v]
    BY <1>1, <1>2 DEF SyncShape
  <2>2. Syncing = {w} /\ ended = "none" /\ t.st \notin Early /\ t.st # "idle" /\ t.st # "byId"
    BY <1>2, OnlyOne DEF Late, Early
  <2>3. Syncing' = {w}
    BY <2>1, <2>2 DEF Syncing
  <2>4. (AloneOK(pull[w]) /\ ShownOK(pull[w]))'
    BY <1>2, <2>1, <2>2 DEF AloneOK, ShownOK
  <2> QED
    BY <2>2, <2>3, <2>4 DEF SoleOK
<1>5. AsksOK' /\ PushShape' /\ Counted' /\ PushesOK'
  BY SameAsks, SamePushes DEF JiraInv, Shapes
<1> QED
  BY <1>3, <1>4, <1>5 DEF JiraInv, Shapes, JiraShape, JobShape

LEMMA CommitKeeps ==
  ASSUME Assumed, JiraInv, NEW w \in Workers, Commit(w) PROVE JiraInv'
<1> DEFINE s == pull[w]
<1>1. /\ s.st = "byKey" /\ s.at > Len(s.got) /\ s.st # "idle"
      /\ UNCHANGED <<board, text, jobs, ask, ended, patched, report, bugs, link, met, faults>>
  BY DEF Commit, jiraSide, jobVars, pushVars
<1>2. /\ s \in Going /\ PlaceOK(s) /\ PendOK(s) /\ QuietOK(s) /\ JiraShape /\ ReqShape /\ ReqsOK
      /\ SoleOK /\ status \in Shown /\ ~ missed
  BY <1>1, RunIs DEF JiraInv, Shapes
<1>3. (Collides(w) <=> Clash(s)) /\ Committed(w) = Merged(s)
  BY CommitIs
<1>4. /\ Clash(s) => /\ UNCHANGED <<reqs, status>>
                     /\ pull' = [pull EXCEPT ![w] = Sync("refused", s.job, s.old, FALSE)]
      /\ ~ Clash(s) => /\ reqs' = Merged(s)
                       /\ status' = IF s.old = "active" THEN status ELSE "active"
                       /\ pull' = [pull EXCEPT ![w] = Sync("stored", s.job, s.old, FALSE)]
      /\ missed' = \/ missed
                   \/ s.quiet /\ Clash(s) /\ "sync" \notin met
                   \/ s.quiet /\ ~ Clash(s) /\ ~ Complete(Merged(s))
  BY <1>3 DEF Commit, PullTo
<1>5. ~ missed'
  <2>1. ~ (s.quiet /\ Clash(s) /\ "sync" \notin met)
    <3> SUFFICES ASSUME s.quiet, "sync" \notin met PROVE ~ Clash(s)
      OBVIOUS
    <3>1. AloneOK(s)
      BY <1>1, OnlyOne
    <3> HIDE DEF s
    <3> QED
      BY <1>1, <1>2, <3>1, QuietIsFree
  <2>2. ~ (s.quiet /\ ~ Clash(s) /\ ~ Complete(Merged(s)))
    <3> SUFFICES ASSUME s.quiet PROVE Complete(Merged(s))
      OBVIOUS
    <3> HIDE DEF s
    <3> QED
      BY <1>1, <1>2, QuietIsWhole
  <2> QED
    BY <1>2, <1>4, <2>1, <2>2
<1>6. "sync" \notin met => \A r, x \in reqs : r.key = x.key /\ r.key # NoKey => r = x
  BY <1>2 DEF SoleOK
<1>7. CASE Clash(s)
  <2>1. ReqShape' /\ ReqsOK' /\ status' \in Shown /\ reqs' = reqs
    BY <1>2, <1>4, <1>7, SameReqs
  <2>2. "refused" \in Late /\ "refused" \notin {"stored", "done"}
    BY DEF Late
  <2> QED
    BY <1>1, <1>4, <1>5, <1>6, <1>7, <2>1, <2>2, WritesOn
<1>8. CASE ~ Clash(s)
  <2>1. /\ Merged(s) \subseteq ReqRows /\ \A r \in Merged(s) : ReqOK(r)
        /\ \A r, x \in Merged(s) : r.id = x.id => r = x
    <3> HIDE DEF s
    <3> QED
      BY <1>2, <1>8, MergedHolds
  <2>2. ReqShape' /\ ReqsOK'
    BY <1>4, <1>8, <2>1 DEF ReqShape, ReqsOK
  <2>3. "stored" \in Late /\ status' \in Shown
    BY <1>2, <1>4, <1>8 DEF Late, Shown
  <2>4. ASSUME "sync" \notin met PROVE patched' \/ status' = "active"
    <3>1. patched \/ status = s.old
      BY <1>1, <2>4, OnlyOne DEF ShownOK, Early
    <3> QED
      BY <1>1, <1>4, <1>8, <3>1
  <2>5. ASSUME "sync" \notin met, NEW r \in reqs', NEW x \in reqs', r.key = x.key, r.key # NoKey
        PROVE  r = x
    <3>1. r \in Merged(s) /\ x \in Merged(s) /\ AloneOK(s)
      BY <1>1, <1>4, <1>8, <2>5, OnlyOne
    <3> HIDE DEF s
    <3> QED
      BY <1>2, <1>6, <1>8, <2>5, <3>1, MergedSole
  <2> QED
    BY <1>1, <1>4, <1>5, <1>8, <2>2, <2>3, <2>4, <2>5, WritesOn
<1> QED
  BY <1>7, <1>8

LEMMA ShowKeeps ==
  ASSUME JiraInv, NEW w \in Workers, Show(w) PROVE JiraInv'
<1>1. /\ pull[w].st # "idle" /\ status' = "active" /\ reqs' = reqs
      /\ pull' = [pull EXCEPT ![w] = Sync("done", pull[w].job, pull[w].old, FALSE)]
      /\ UNCHANGED <<board, text, jobs, ask, reqs, ended, missed, report, bugs, link, met, faults>>
  BY DEF Show, PullTo, jiraSide, jobVars, pushVars
<1>2. ReqShape' /\ ReqsOK' /\ ~ missed' /\ "done" \in Late /\ status' \in Shown
  BY <1>1, SameReqs DEF JiraInv, Shapes, Late, Shown
<1>3. "sync" \notin met => \A r, x \in reqs : r.key = x.key /\ r.key # NoKey => r = x
  BY DEF JiraInv, SoleOK
<1> QED
  BY <1>1, <1>2, <1>3, WritesOn

LEMMA FailedKeeps ==
  ASSUME JiraInv, NEW w \in Workers, Failed(w) PROVE JiraInv'
<1>1. /\ pull[w].st = "failed" /\ pull[w].st # "idle" /\ reqs' = reqs
      /\ status' = IF pull[w].old = "error" THEN status ELSE "error"
      /\ patched' = (patched /\ pull[w].old = "error")
      /\ pull' = [pull EXCEPT ![w] = Sync("error", pull[w].job, pull[w].old, FALSE)]
      /\ UNCHANGED <<board, text, jobs, ask, reqs, ended, missed, report, bugs, link, met, faults>>
  BY DEF Failed, PullTo, jiraSide, jobVars, pushVars
<1>2. ReqShape' /\ ReqsOK' /\ ~ missed' /\ "error" \in Late /\ status' \in Shown
  BY <1>1, SameReqs DEF JiraInv, Shapes, Late, Shown
<1>3. "sync" \notin met => \A r, x \in reqs : r.key = x.key /\ r.key # NoKey => r = x
  BY DEF JiraInv, SoleOK
<1>4. ASSUME "sync" \notin met PROVE patched' \/ status' = "error"
  <2>1. patched \/ status = pull[w].old
    BY <1>1, <1>4, OnlyOne DEF ShownOK, Early
  <2>2. CASE pull[w].old = "error"
    BY <1>1, <2>1, <2>2
  <2>3. CASE pull[w].old # "error"
    BY <1>1, <2>3
  <2> QED
    BY <2>2, <2>3
<1> QED
  BY <1>1, <1>2, <1>3, <1>4, WritesOn

\* The settlement touches the job of the sync alone.
LEMMA EndKeeps ==
  ASSUME JiraInv, NEW w \in Workers, End(w) PROVE JiraInv'
<1> DEFINE s == pull[w]
           j == s.job
           how == IF s.st = "done" THEN "done" ELSE "error"
<1>1. /\ s.st \in {"done", "refused", "error"} /\ s.st # "idle" /\ pull' = [pull EXCEPT ![w] = NoSync]
      /\ jobs' = jobs \/ jobs' = [jobs EXCEPT ![j].st = how]
      /\ ended' = ended \/ ended' = IF patched THEN "none" ELSE s.st
      /\ UNCHANGED <<board, text, ask, reqs, status, missed, patched, report, bugs, link, met, faults>>
  BY DEF End, PullTo, jiraSide, pushVars
<1>2. JobShape /\ AsksOK /\ j \in Jobs /\ how \in {"done", "error"}
  <2>1. s \in Going
    BY <1>1, RunIs
  <2> QED
    BY <2>1 DEF JiraInv, Shapes, Going
<1>3. JobShape' /\ AsksOK'
  <2> HIDE DEF s, j, how
  <2>1. CASE jobs' = jobs
    BY <1>1, <1>2, <2>1, SameAsks DEF JobShape
  <2>2. CASE jobs' = [jobs EXCEPT ![j].st = how]
    <3>1. /\ JobShape' /\ jobs'[j].st = how /\ \A i \in Jobs : i # j => jobs'[i] = jobs[i]
      BY <1>2, <2>2 DEF JobShape
    <3>2. Active' \subseteq Active
      BY <1>2, <3>1 DEF Active
    <3> QED
      BY <1>1, <1>2, <3>1, <3>2 DEF AsksOK
  <2> QED
    BY <1>1, <2>1, <2>2
<1>4. SyncShape' /\ RunsOK' /\ Syncing' = Syncing \ {w}
  BY <1>1, OneEnds DEF JiraInv, Shapes
<1>5. SoleOK'
  <2> SUFFICES ASSUME "sync" \notin met PROVE SoleOK'
    BY <1>1 DEF SoleOK
  <2>1. Syncing' = {} /\ ended = "none" /\ ShownOK(s) /\ SoleOK
    BY <1>1, <1>4, OnlyOne DEF JiraInv
  <2>2. (ended' = "done" => status' = "active") /\ (ended' = "error" => status' = "error")
    BY <1>1, <2>1 DEF ShownOK
  <2> QED
    BY <1>1, <2>1, <2>2 DEF SoleOK
<1>6. ReqShape' /\ ReqsOK' /\ PushShape' /\ Counted' /\ PushesOK'
  BY <1>1, SameReqs, SamePushes DEF JiraInv, Shapes
<1> QED
  BY <1>1, <1>3, <1>4, <1>5, <1>6 DEF JiraInv, Shapes, JiraShape

LEMMA CrashKeeps ==
  ASSUME JiraInv, NEW w \in Workers, Crash(w) PROVE JiraInv'
<1>1. /\ pull[w].st # "idle" /\ faults' = faults + 1
      /\ pull' = [pull EXCEPT ![w] = NoSync]
      /\ UNCHANGED <<board, text, jobs, ask, reqs, status, ended, missed, patched, report, bugs, link, met>>
  BY DEF Crash, PullTo, jiraSide, jobVars, pushVars
<1>2. SyncShape' /\ RunsOK' /\ Syncing' = Syncing \ {w}
  BY <1>1, OneEnds DEF JiraInv, Shapes
<1>3. SoleOK'
  <2> SUFFICES ASSUME "sync" \notin met PROVE SoleOK'
    BY <1>1 DEF SoleOK
  <2>1. Syncing' = {} /\ ended = "none" /\ SoleOK
    BY <1>1, <1>2, OnlyOne DEF JiraInv
  <2> QED
    BY <1>1, <2>1 DEF SoleOK
<1>4. ReqShape' /\ ReqsOK' /\ AsksOK' /\ PushShape' /\ Counted' /\ PushesOK'
  BY <1>1, SameReqs, SameAsks, SamePushes DEF JiraInv, Shapes
<1> QED
  BY <1>1, <1>2, <1>3, <1>4 DEF JiraInv, Shapes, JiraShape, JobShape

-----------------------------------------------------------------------------
(* The actions: a push of the defect.                                        *)

LEMMA PushKeeps ==
  ASSUME JiraInv, NEW p \in Reports, ReportLoad(p) \/ ReportCreate(p) \/ ReportLink(p) \/ ReportFails(p)
  PROVE  JiraInv'
<1>1. /\ UNCHANGED <<board, text, jobs, ask, reqs, status, pull, ended, missed, patched>>
      /\ met \subseteq met'
      /\ "push" \notin met' => "push" \notin met
      /\ faults' = faults \/ faults' = faults + 1
  BY DEF ReportLoad, ReportCreate, ReportLink, ReportFails, jiraSide, jobVars, pullVars
<1>2. PushShape /\ Counted /\ PushesOK
  BY DEF JiraInv, Shapes
<1>3. /\ ReqShape' /\ ReqsOK' /\ AsksOK' /\ SyncShape' /\ RunsOK' /\ SoleOK'
  BY <1>1, SameReqs, SameAsks, SameRuns, SameSole DEF JiraInv, Shapes
<1>4. Counted' /\ (faults' = 0 => faults = 0)
  BY <1>1, <1>2 DEF Counted
<1>5. CASE ReportLoad(p)
  <2>1. /\ report[p] = "idle" /\ link = NoKey /\ report' = [report EXCEPT ![p] = "loaded"]
        /\ UNCHANGED <<bugs, link>>
        /\ "push" \notin met' => \A q \in Reports : report[q] = "idle"
    BY <1>5 DEF ReportLoad, ReportTo
  <2>2. PushShape'
    BY <1>2, <2>1 DEF PushShape
  <2>3. PushesOK'
    <3> SUFFICES ASSUME "push" \notin met', faults' = 0 PROVE PushesOK'
      BY DEF PushesOK
    <3>1. bugs = 0
      BY <1>1, <1>2, <1>4, <2>1 DEF PushesOK
    <3>2. report'[p] = "loaded" /\ \A q \in Reports : q # p => report'[q] = "idle"
      BY <1>2, <2>1 DEF PushShape
    <3> QED
      BY <2>1, <3>1, <3>2 DEF PushesOK
  <2> QED
    BY <1>1, <1>3, <1>4, <2>2, <2>3 DEF JiraInv, Shapes, JiraShape, JobShape
<1>6. CASE ReportCreate(p)
  <2>1. /\ report[p] = "loaded" /\ report' = [report EXCEPT ![p] = "created"]
        /\ bugs' = bugs + 1 /\ link' = link /\ met' = met
    BY <1>6 DEF ReportCreate, ReportTo
  <2>2. PushShape'
    BY <1>2, <2>1 DEF PushShape
  <2>3. PushesOK'
    <3> SUFFICES ASSUME "push" \notin met, faults' = 0 PROVE PushesOK'
      BY <2>1 DEF PushesOK
    <3>1. bugs = 0 /\ \A q \in Reports : q # p => report[q] = "idle"
      BY <1>2, <1>4, <2>1 DEF PushesOK
    <3>2. report'[p] = "created" /\ \A q \in Reports : q # p => report'[q] = "idle"
      BY <1>2, <2>1, <3>1 DEF PushShape
    <3>3. bugs' = 1
      BY <2>1, <3>1
    <3> QED
      BY <3>2, <3>3 DEF PushesOK
  <2> QED
    BY <1>1, <1>3, <1>4, <2>2, <2>3 DEF JiraInv, Shapes, JiraShape, JobShape
<1>7. CASE ReportLink(p)
  <2>1. /\ report[p] = "created" /\ report' = [report EXCEPT ![p] = "idle"]
        /\ link' = "linked" /\ bugs' = bugs /\ met' = met
    BY <1>7 DEF ReportLink, ReportTo
  <2>2. PushShape' /\ link' # NoKey
    BY <1>2, <2>1 DEF PushShape, NoKey
  <2>3. PushesOK'
    <3> SUFFICES ASSUME "push" \notin met, faults' = 0 PROVE PushesOK'
      BY <2>1 DEF PushesOK
    <3>1. bugs = 1 /\ \A q \in Reports : q # p => report[q] = "idle"
      BY <1>2, <1>4, <2>1 DEF PushesOK
    <3>2. \A q \in Reports : report'[q] = "idle"
      BY <1>2, <2>1, <3>1 DEF PushShape
    <3> QED
      BY <2>1, <2>2, <3>1, <3>2 DEF PushesOK
  <2> QED
    BY <1>1, <1>3, <1>4, <2>2, <2>3 DEF JiraInv, Shapes, JiraShape, JobShape
<1>8. CASE ReportFails(p)
  <2>1. report' = [report EXCEPT ![p] = "idle"] /\ faults' = faults + 1 /\ UNCHANGED <<bugs, link, met>>
    BY <1>8 DEF ReportFails, ReportTo
  <2>2. PushShape'
    BY <1>2, <2>1 DEF PushShape
  <2>3. PushesOK'
    BY <1>2, <2>1 DEF PushesOK, Counted
  <2> QED
    BY <1>1, <1>3, <1>4, <2>2, <2>3 DEF JiraInv, Shapes, JiraShape, JobShape
<1> QED
  BY <1>5, <1>6, <1>7, <1>8
-----------------------------------------------------------------------------
(* The invariant.                                                            *)

LEMMA StartHolds ==
  ASSUME Assumed, JiraInit PROVE JiraInv
<1>1. JiraShape
  BY DEF JiraInit, Assumed, JiraShape, Says
<1>2. ReqShape /\ ReqsOK
  <2>1. ASSUME NEW r \in reqs
        PROVE  \E i \in Issues : i \in Taken /\ r = [id |-> Plain(i), key |-> NoKey, says |-> 0]
    BY DEF JiraInit, Assumed
  <2>2. ReqShape
    BY <2>1, IdsHold DEF ReqShape, ReqRows, Says
  <2>3. \A r \in reqs : ReqOK(r)
    BY <2>1 DEF ReqOK
  <2>4. ASSUME NEW r \in reqs, NEW s \in reqs, r.id = s.id PROVE r = s
    BY <2>1, <2>4, IdsDiffer
  <2> QED
    BY <2>2, <2>3, <2>4 DEF ReqsOK
<1>3. SyncShape /\ RunsOK /\ Syncing = {}
  BY DEF JiraInit, SyncShape, RunsOK, Syncing, NoSync
<1>4. JobShape /\ AsksOK
  BY DEF JiraInit, JobShape, AsksOK, Active, NoJob
<1>5. SoleOK
  <2>1. \A r \in reqs : r.key = NoKey
    BY DEF JiraInit
  <2> QED
    BY <1>3, <2>1 DEF JiraInit, SoleOK
<1>6. PushShape /\ PushesOK /\ Counted
  BY DEF JiraInit, PushShape, PushesOK, Counted
<1> QED
  BY <1>1, <1>2, <1>3, <1>4, <1>5, <1>6 DEF JiraInit, JiraInv, Shapes, Shown

LEMMA StillKeeps ==
  ASSUME JiraInv, UNCHANGED jiraVars PROVE JiraInv'
<1>1. UNCHANGED <<board, text, jobs, ask, reqs, status, pull, ended, missed, patched, report, bugs, link, met,
                  faults>>
  BY DEF jiraVars
<1>2. /\ ReqShape' /\ ReqsOK' /\ AsksOK' /\ SyncShape' /\ RunsOK' /\ SoleOK' /\ PushShape' /\ Counted'
      /\ PushesOK'
  BY <1>1, SameReqs, SameAsks, SameRuns, SameSole, SamePushes DEF JiraInv, Shapes
<1> QED
  BY <1>1, <1>2 DEF JiraInv, Shapes, JiraShape, JobShape

LEMMA JiraInductive ==
  ASSUME Assumed, JiraInv, [JiraNext]_jiraVars PROVE JiraInv'
<1>1. CASE Change
  BY <1>1, ChangeKeeps
<1>2. CASE Disable
  BY <1>2, DisableKeeps
<1>3. ASSUME NEW a \in Askers, AskLook(a) \/ AskInsert(a) PROVE JiraInv'
  BY <1>3, AskLookKeeps, AskInsertKeeps
<1>4. ASSUME NEW w \in Workers, NEW j \in Jobs, Take(w, j) PROVE JiraInv'
  BY <1>4, TakeKeeps
<1>5. ASSUME NEW w \in Workers, Search(w) \/ SearchFails(w) PROVE JiraInv'
  BY <1>5, SearchingKeeps, SearchFailsKeeps
<1>6. ASSUME NEW w \in Workers, FindByKey(w) \/ FindById(w) PROVE JiraInv'
  BY <1>6, FindByKeyKeeps, FindByIdKeeps
<1>7. ASSUME NEW w \in Workers, Commit(w) \/ Show(w) \/ Failed(w) \/ End(w) \/ Crash(w) PROVE JiraInv'
  BY <1>7, CommitKeeps, ShowKeeps, FailedKeeps, EndKeeps, CrashKeeps
<1>8. ASSUME NEW p \in Reports, ReportLoad(p) \/ ReportCreate(p) \/ ReportLink(p) \/ ReportFails(p)
      PROVE  JiraInv'
  BY <1>8, PushKeeps
<1>9. CASE UNCHANGED jiraVars
  BY <1>9, StillKeeps
<1> QED
  BY <1>1, <1>2, <1>3, <1>4, <1>5, <1>6, <1>7, <1>8, <1>9 DEF JiraNext

(* The invariant holds in every reachable state, for every board and page,   *)
(* any number of syncs, askers and pushes, and any crashes and lost leases.  *)
THEOREM JiraKeepsInv ==
  ASSUME Assumed PROVE JiraSpec => []JiraInv
<1>1. JiraInit => JiraInv
  BY StartHolds
<1>2. JiraInv /\ [JiraNext]_jiraVars => JiraInv'
  BY JiraInductive
<1> QED
  BY <1>1, <1>2, PTL DEF JiraSpec

(* A requirement has its id alone, and Jira lists an issue once.             *)
THEOREM JiraTypesHold ==
  ASSUME Assumed PROVE JiraSpec => []JiraTypeOK
<1>1. JiraInv => JiraTypeOK
  <2> SUFFICES ASSUME JiraInv PROVE JiraTypeOK
    OBVIOUS
  <2>1. JiraShape /\ JobShape /\ ReqsOK /\ status \in Shown
    BY DEF JiraInv, Shapes
  <2>2. Range(board) \subseteq Issues
    BY <2>1, RangeIn DEF JiraShape
  <2> QED
    BY <2>1, <2>2 DEF JiraTypeOK, JiraShape, JobShape, ReqsOK, Shown
<1> QED
  BY <1>1, JiraKeepsInv, PTL

(* An integration has one active job at most (enqueue_sync_job coalesces     *)
(* onto the one there is), unless two asked at the same time.                *)
THEOREM OneJobIsActive ==
  ASSUME Assumed PROVE JiraSpec => []OneActiveJob
<1>1. JiraInv => OneActiveJob
  <2> SUFFICES ASSUME JiraInv, "ask" \notin met PROVE Cardinality(Active) <= 1
    BY DEF OneActiveJob, Active
  <2>1. \A i, j \in Active : i = j
    BY DEF JiraInv, AsksOK
  <2>2. CASE Active = {}
    BY <2>2, FS_EmptySet
  <2>3. CASE Active # {}
    <3>1. PICK j : Active = {j}
      BY <2>1, <2>3
    <3>2. Cardinality({j}) = 1
      BY FS_Singleton
    <3> QED
      BY <3>1, <3>2
  <2> QED
    BY <2>2, <2>3
<1> QED
  BY <1>1, JiraKeepsInv, PTL

(* An issue has one requirement, unless syncs overlapped (the look-ups by    *)
(* key and by id of sync_jira_requirements, and its commit).                 *)
THEOREM IssuesHaveOneRequirement ==
  ASSUME Assumed PROVE JiraSpec => []OneRequirementPerIssue
<1>1. JiraInv => OneRequirementPerIssue
  BY DEF JiraInv, SoleOK, OneRequirementPerIssue
<1> QED
  BY <1>1, JiraKeepsInv, PTL

(* A sync during which nothing changes at Jira is not refused by its own     *)
(* rows, if no other overlapped it, and where it is not refused it leaves    *)
(* every issue with a requirement that says what the issue says, however     *)
(* many pages the answer has.                                                *)
THEOREM QuietSyncsAreComplete ==
  ASSUME Assumed PROVE JiraSpec => []QuietSyncIsComplete
<1>1. JiraInv => QuietSyncIsComplete
  BY DEF JiraInv, QuietSyncIsComplete
<1> QED
  BY <1>1, JiraKeepsInv, PTL

(* Between jobs the integration shows how the last one ended, unless syncs   *)
(* overlapped (execute_sync_job writes it before the job is settled).        *)
THEOREM StatusIsTold ==
  ASSUME Assumed PROVE JiraSpec => []StatusTells
<1>1. JiraInv => StatusTells
  BY DEF JiraInv, SoleOK, StatusTells
<1> QED
  BY <1>1, JiraKeepsInv, PTL

(* A defect becomes one issue, unless two pushes met or one broke off        *)
(* (push_defect_to_jira).                                                    *)
THEOREM DefectsBecomeOneIssue ==
  ASSUME Assumed PROVE JiraSpec => []OneBugPerDefect
<1>1. JiraInv => OneBugPerDefect
  <2> SUFFICES ASSUME JiraInv, "push" \notin met, ~ (faults > 0) PROVE ~ (bugs > 1)
    BY DEF OneBugPerDefect
  <2>1. faults = 0
    BY DEF JiraInv, Shapes, Counted
  <2> QED
    BY <2>1 DEF JiraInv, Shapes, PushShape, PushesOK
<1> QED
  BY <1>1, JiraKeepsInv, PTL

(* All of it, as the run checks it of two instances: what enqueue_sync_job,  *)
(* execute_sync_job, sync_jira_requirements and push_defect_to_jira promise. *)
THEOREM JiraIsKept ==
  ASSUME Assumed PROVE JiraSpec => []JiraKeeps
<1>1. /\ JiraTypeOK /\ OneActiveJob /\ OneRequirementPerIssue
      /\ QuietSyncIsComplete /\ StatusTells /\ OneBugPerDefect
      => JiraKeeps
  BY DEF JiraKeeps
<1> QED
  BY JiraTypesHold, OneJobIsActive, IssuesHaveOneRequirement, QuietSyncsAreComplete,
     StatusIsTold, DefectsBecomeOneIssue, <1>1, PTL
=============================================================================
