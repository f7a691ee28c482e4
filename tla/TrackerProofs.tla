----------------------------- MODULE TrackerProofs ----------------------------
(***************************************************************************)
(* Proofs about the tracks of a channel, for all boxes, detections, times  *)
(* and limits: lists and the deduplication of them, the geometry, what an  *)
(* update makes of a track and of the history, the invariant, and the one  *)
(* track of an object that nothing else is near.                           *)
(***************************************************************************)
EXTENDS Tracker, FiniteSetTheorems, WellFoundedInduction, TLAPS

-------------------------------------------------------------------------------
(* Parts of lists.                                                         *)

\* Ranks number the positions from one, in their order.
LEMMA RankFacts ==
  ASSUME NEW n \in Nat, NEW I \in SUBSET (1 .. n)
  PROVE  /\ Cardinality(I) \in Nat
         /\ \A i \in I : Rank(I, i) \in 1 .. Cardinality(I)
         /\ \A i, j \in I : i < j => Rank(I, i) < Rank(I, j)
         /\ \A k \in 1 .. Cardinality(I) : \E i \in I : Rank(I, i) = k
<1> DEFINE upTo(i) == {j \in I : j <= i}
           m == Cardinality(I)
           rank == [i \in I |-> Rank(I, i)]
<1>1. IsFiniteSet(I) /\ m \in Nat /\ \A i \in I : i \in Int
  <2>1. IsFiniteSet(1 .. n)
    BY FS_Interval
  <2>2. IsFiniteSet(I)
    BY <2>1, FS_Subset
  <2> QED
    BY <2>2, FS_CardinalityType
<1>2. ASSUME NEW i \in I
      PROVE  IsFiniteSet(upTo(i)) /\ Rank(I, i) = Cardinality(upTo(i)) /\ Rank(I, i) \in 1 .. m
  <2>1. upTo(i) \in SUBSET I /\ i \in upTo(i)
    OBVIOUS
  <2>2. IsFiniteSet(upTo(i)) /\ Cardinality(upTo(i)) \in Nat /\ Cardinality(upTo(i)) <= m
    BY <1>1, <2>1, FS_Subset, FS_CardinalityType
  <2>3. Cardinality(upTo(i)) # 0
    BY <2>1, <2>2, FS_EmptySet
  <2> HIDE DEF m
  <2> QED
    BY <1>1, <2>2, <2>3 DEF Rank
<1>3. ASSUME NEW i \in I, NEW j \in I, i < j
      PROVE  Rank(I, i) < Rank(I, j)
  <2>1. upTo(i) \in SUBSET upTo(j) /\ j \in upTo(j) /\ j \notin upTo(i)
    <3>1. i \in Int /\ j \in Int /\ i < j
      BY <1>1, <1>3
    <3>2. ASSUME NEW k \in upTo(i) PROVE k \in upTo(j)
      <4>1. k \in I /\ k <= i /\ k \in Int
        BY <1>1
      <4> QED
        BY <3>1, <4>1
    <3>3. j \in upTo(j) /\ j \notin upTo(i)
      BY <3>1
    <3> HIDE DEF upTo
    <3> QED
      BY <3>2, <3>3
  <2>2. Cardinality(upTo(i)) <= Cardinality(upTo(j)) /\ Cardinality(upTo(i)) # Cardinality(upTo(j))
    <3> HIDE DEF upTo
    <3> QED
      BY <1>2, <2>1, FS_Subset
  <2> HIDE DEF upTo, m
  <2> QED
    BY <1>1, <1>2, <2>2
<1>4. rank \in Injection(I, 1 .. m)
  <2>1. rank \in [I -> 1 .. m]
    BY <1>2
  <2>2. ASSUME NEW i \in I, NEW j \in I, rank[i] = rank[j] PROVE i = j
    <3>1. Rank(I, i) = Rank(I, j)
      BY <2>2
    <3>2. i \in Int /\ j \in Int /\ Rank(I, i) \in Int
      <4> HIDE DEF upTo
      <4> QED
        BY <1>1, <1>2
    <3> QED
      BY <1>3, <3>1, <3>2
  <2> QED
    BY <2>1, <2>2 DEF Injection, IsInjective
<1>5. rank \in Surjection(I, 1 .. m)
  <2>1. IsFiniteSet(1 .. m) /\ Cardinality(1 .. m) = m
    <3> HIDE DEF m
    <3> QED
      BY <1>1, FS_Interval
  <2> HIDE DEF rank
  <2> QED
    BY <1>4, <2>1, FS_Injection
<1>6. \A k \in 1 .. m : \E i \in I : Rank(I, i) = k
  BY <1>5 DEF Surjection
<1> QED
  BY <1>1, <1>2, <1>3, <1>6

\* A sublist has its elements in their order: position at[k] of the list
\* becomes position k, and every chosen position becomes one.
LEMMA SublistFacts ==
  ASSUME NEW s, NEW n \in Nat, NEW I \in SUBSET (1 .. n)
  PROVE  /\ Cardinality(I) \in Nat
         /\ DOMAIN Sublist(s, I) = 1 .. Cardinality(I)
         /\ \A i \in I : Rank(I, i) \in 1 .. Cardinality(I) /\ Sublist(s, I)[Rank(I, i)] = s[i]
         /\ \A k \in 1 .. Cardinality(I) : \E i \in I : Rank(I, i) = k /\ Sublist(s, I)[k] = s[i]
         /\ \A i, j \in I : i < j => Rank(I, i) < Rank(I, j)
<1>1. /\ Cardinality(I) \in Nat
      /\ \A i \in I : Rank(I, i) \in 1 .. Cardinality(I)
      /\ \A i, j \in I : i < j => Rank(I, i) < Rank(I, j)
      /\ \A k \in 1 .. Cardinality(I) : \E i \in I : Rank(I, i) = k
  BY RankFacts
<1>2. \A i, j \in I : Rank(I, i) = Rank(I, j) => i = j
  <2> SUFFICES ASSUME NEW i \in I, NEW j \in I, Rank(I, i) = Rank(I, j) PROVE i = j
    OBVIOUS
  <2> i \in Int /\ j \in Int /\ Rank(I, i) \in Int /\ Rank(I, j) \in Int
    BY <1>1
  <2> QED
    BY <1>1
<1>3. ASSUME NEW i \in I PROVE Sublist(s, I)[Rank(I, i)] = s[i]
  <2>1. (CHOOSE j \in I : Rank(I, j) = Rank(I, i)) = i
    BY <1>2
  <2> QED
    BY <1>1, <2>1 DEF Sublist
<1>4. DOMAIN Sublist(s, I) = 1 .. Cardinality(I)
  BY DEF Sublist
<1> QED
  BY <1>1, <1>3, <1>4

\* Its elements are the chosen ones; of two, the first was the first before.
LEMMA SublistPairs ==
  ASSUME NEW S, NEW s \in Seq(S), NEW I \in SUBSET (DOMAIN s)
  PROVE  /\ Sublist(s, I) \in Seq(S)
         /\ Len(Sublist(s, I)) <= Len(s)
         /\ \A i \in I : \E k \in DOMAIN Sublist(s, I) : Sublist(s, I)[k] = s[i]
         /\ \A k \in DOMAIN Sublist(s, I) : \E i \in I : Sublist(s, I)[k] = s[i]
         /\ \A k, l \in DOMAIN Sublist(s, I) : k < l =>
              \E i, j \in I : i < j /\ Sublist(s, I)[k] = s[i] /\ Sublist(s, I)[l] = s[j]
<1> DEFINE t == Sublist(s, I)
           m == Cardinality(I)
<1>0. Len(s) \in Nat /\ DOMAIN s = 1 .. Len(s) /\ I \in SUBSET (1 .. Len(s))
  OBVIOUS
<1>1. /\ m \in Nat
      /\ DOMAIN t = 1 .. m
      /\ \A i \in I : Rank(I, i) \in 1 .. m /\ t[Rank(I, i)] = s[i]
      /\ \A k \in 1 .. m : \E i \in I : Rank(I, i) = k /\ t[k] = s[i]
      /\ \A i, j \in I : i < j => Rank(I, i) < Rank(I, j)
  BY <1>0, SublistFacts, Zenon
<1>2. m <= Len(s)
  <2>1. IsFiniteSet(1 .. Len(s)) /\ Cardinality(1 .. Len(s)) = Len(s)
    <3> DEFINE n == Len(s)
    <3>1. n \in Nat
      OBVIOUS
    <3> HIDE DEF n
    <3>2. IsFiniteSet(1 .. n) /\ Cardinality(1 .. n) = IF 1 > n THEN 0 ELSE n - 1 + 1
      BY <3>1, FS_Interval
    <3>3. IsFiniteSet(1 .. n) /\ Cardinality(1 .. n) = n
      BY <3>1, <3>2
    <3> QED
      BY <3>3 DEF n
  <2> QED
    BY <1>0, <2>1, FS_Subset
<1>3. t = [k \in 1 .. m |-> t[k]]
  BY DEF Sublist
<1> HIDE DEF t, m
<1>4. t \in Seq(S) /\ Len(t) = m
  <2>1. \A k \in 1 .. m : t[k] \in S
    BY <1>0, <1>1
  <2> QED
    BY <1>1, <1>3, <2>1
<1>5. ASSUME NEW k \in DOMAIN t, NEW l \in DOMAIN t, k < l
      PROVE  \E i, j \in I : i < j /\ t[k] = s[i] /\ t[l] = s[j]
  <2>1. PICK i \in I : Rank(I, i) = k /\ t[k] = s[i]
    BY <1>1
  <2>2. PICK j \in I : Rank(I, j) = l /\ t[l] = s[j]
    BY <1>1
  <2>3. i < j
    <3>1. i \in Int /\ j \in Int /\ k \in Int /\ l \in Int
      BY <1>0, <1>1
    <3>2. i # j
      BY <1>5, <2>1, <2>2, <3>1
    <3>3. ASSUME j < i PROVE FALSE
      BY SMTT(20), <1>1, <1>5, <2>1, <2>2, <3>1, <3>3
    <3> QED
      BY <3>1, <3>2, <3>3
  <2> QED
    BY <2>1, <2>2, <2>3
<1>6. \A i \in I : \E k \in DOMAIN t : t[k] = s[i]
  BY <1>1
<1>7. \A k \in DOMAIN t : \E i \in I : t[k] = s[i]
  BY <1>1
<1> QED
  BY <1>2, <1>4, <1>5, <1>6, <1>7 DEF t

-------------------------------------------------------------------------------
(* The geometry of duplicates.                                             *)

\* Multiplying by something positive keeps the order.
LEMMA Scaled ==
  ASSUME NEW a \in Int, NEW b \in Int, NEW c \in Nat, a <= b
  PROVE  a * c <= b * c /\ c * a <= c * b /\ a * c \in Int /\ (a < b /\ c > 0 => a * c < b * c)
OBVIOUS

\* The common part of two intervals is no longer than either; if it is half of one,
\* the middle of that one lies in the other.
LEMMA SharedPart ==
  ASSUME NEW a1 \in Int, NEW a2 \in Int, NEW b1 \in Int, NEW b2 \in Int, a1 <= a2, b1 <= b2
  PROVE  LET shared == Larger(0, Smaller(a2, b2) - Larger(a1, b1)) IN
         /\ shared \in Nat /\ shared <= a2 - a1 /\ shared <= b2 - b1
         /\ shared > 0 /\ 2 * shared >= a2 - a1 => a1 + a2 \in 2 * b1 .. 2 * b2
         /\ shared > 0 /\ 2 * shared >= b2 - b1 => b1 + b2 \in 2 * a1 .. 2 * a2
BY DEF Larger, Smaller

\* Areas are products of the sides, and the common one is common to both.
LEMMA Areas ==
  ASSUME NEW a, NEW b, IsBox(a), IsBox(b)
  PROVE  /\ Area(a) = Width(a) * Height(a) /\ Area(a) \in Nat
         /\ Width(a) \in Nat /\ Height(a) \in Nat
         /\ Area(b) = Width(b) * Height(b) /\ Area(b) \in Nat
         /\ Width(b) \in Nat /\ Height(b) \in Nat
         /\ Intersection(a, b) \in Nat /\ Intersection(a, b) = Intersection(b, a)
<1>1. Width(a) \in Nat /\ Height(a) \in Nat /\ Width(b) \in Nat /\ Height(b) \in Nat
  BY DEF IsBox, Width, Height
<1>2. Area(a) = Width(a) * Height(a) /\ Area(b) = Width(b) * Height(b)
  BY <1>1 DEF Area, Larger
<1>3. /\ Larger(0, Smaller(a.x2, b.x2) - Larger(a.x1, b.x1)) \in Nat
      /\ Larger(0, Smaller(a.y2, b.y2) - Larger(a.y1, b.y1)) \in Nat
      /\ Smaller(a.x2, b.x2) = Smaller(b.x2, a.x2) /\ Larger(a.x1, b.x1) = Larger(b.x1, a.x1)
      /\ Smaller(a.y2, b.y2) = Smaller(b.y2, a.y2) /\ Larger(a.y1, b.y1) = Larger(b.y1, a.y1)
  BY DEF IsBox, Larger, Smaller
<1> QED
  BY <1>1, <1>2, <1>3 DEF Intersection

\* A share of at least half of a product of two sides is one of either side.
LEMMA HalfOfBoth ==
  ASSUME NEW w \in Nat, NEW h \in Nat, NEW iw \in Nat, NEW ih \in Nat,
         iw <= w, ih <= h, w * h > 0, 2 * (iw * ih) >= w * h
  PROVE  /\ iw > 0 /\ ih > 0
         /\ 2 * iw >= w /\ 2 * ih >= h
<1>1. w > 0 /\ h > 0
  OBVIOUS
<1>2. iw > 0 /\ ih > 0
  OBVIOUS
<1>3. 2 * iw >= w
  <2> SUFFICES ASSUME 2 * iw < w PROVE FALSE
    OBVIOUS
  <2>1. (2 * iw) * h < w * h
    BY <1>1, Scaled
  <2>2. iw * ih <= iw * h
    BY Scaled
  <2>3. (2 * iw) * h = 2 * (iw * h)
    OBVIOUS
  <2>4. w * h \in Int /\ iw * h \in Int /\ iw * ih \in Int
    OBVIOUS
  <2> QED
    BY <2>1, <2>2, <2>3, <2>4
<1>4. 2 * ih >= h
  <2> SUFFICES ASSUME 2 * ih < h PROVE FALSE
    OBVIOUS
  <2>1. w * (2 * ih) < w * h
    BY <1>1, Scaled
  <2>2. iw * ih <= w * ih
    BY Scaled
  <2>3. w * (2 * ih) = 2 * (w * ih)
    OBVIOUS
  <2>4. w * h \in Int /\ w * ih \in Int /\ iw * ih \in Int
    OBVIOUS
  <2> QED
    BY <2>1, <2>2, <2>3, <2>4
<1> QED
  BY <1>2, <1>3, <1>4

\* Half of the smaller box in common puts its centre into the other one: the
\* condition on the centres in is_cross_class_competitor follows from the first.
LEMMA HalfIsNested ==
  ASSUME NEW a, NEW b, IsBox(a), IsBox(b), NEW percent \in 50 .. 100,
         ContainmentAtLeast(a, b, percent)
  PROVE  Nested(a, b)
<1> DEFINE iw == Larger(0, Smaller(a.x2, b.x2) - Larger(a.x1, b.x1))
           ih == Larger(0, Smaller(a.y2, b.y2) - Larger(a.y1, b.y1))
           smaller == Smaller(Area(a), Area(b))
<1>1. /\ a.x1 \in Int /\ a.x2 \in Int /\ a.y1 \in Int /\ a.y2 \in Int /\ a.x1 <= a.x2 /\ a.y1 <= a.y2
      /\ b.x1 \in Int /\ b.x2 \in Int /\ b.y1 \in Int /\ b.y2 \in Int /\ b.x1 <= b.x2 /\ b.y1 <= b.y2
  BY DEF IsBox
<1>2. /\ iw \in Nat /\ iw <= a.x2 - a.x1 /\ iw <= b.x2 - b.x1
      /\ iw > 0 /\ 2 * iw >= a.x2 - a.x1 => a.x1 + a.x2 \in 2 * b.x1 .. 2 * b.x2
      /\ iw > 0 /\ 2 * iw >= b.x2 - b.x1 => b.x1 + b.x2 \in 2 * a.x1 .. 2 * a.x2
  BY <1>1, SharedPart
<1>3. /\ ih \in Nat /\ ih <= a.y2 - a.y1 /\ ih <= b.y2 - b.y1
      /\ ih > 0 /\ 2 * ih >= a.y2 - a.y1 => a.y1 + a.y2 \in 2 * b.y1 .. 2 * b.y2
      /\ ih > 0 /\ 2 * ih >= b.y2 - b.y1 => b.y1 + b.y2 \in 2 * a.y1 .. 2 * a.y2
  BY <1>1, SharedPart
<1>4. Intersection(a, b) = iw * ih
  BY DEF Intersection
<1> HIDE DEF iw, ih
<1>5. smaller > 0 /\ 2 * (iw * ih) >= smaller /\ smaller \in Nat
  <2>1. smaller \in Nat
    BY Areas DEF Smaller
  <2>2. smaller > 0 /\ 100 * (iw * ih) >= percent * smaller
    BY <1>4 DEF ContainmentAtLeast
  <2>3. percent * smaller >= 50 * smaller
    <3> HIDE DEF smaller
    <3> QED
      BY <2>1, Scaled
  <2>4. iw * ih \in Int
    BY <1>2, <1>3
  <2> HIDE DEF smaller
  <2> QED
    BY <2>1, <2>2, <2>3, <2>4
<1>6. CASE Area(a) <= Area(b)
  <2>1. smaller = Width(a) * Height(a)
    BY <1>6, Areas DEF Smaller
  <2>2. iw > 0 /\ ih > 0 /\ 2 * iw >= Width(a) /\ 2 * ih >= Height(a)
    BY <1>2, <1>3, <1>5, <2>1, Areas, HalfOfBoth DEF Width, Height
  <2> QED
    BY <1>2, <1>3, <1>6, <2>2 DEF Nested, CenterInside, Width, Height
<1>7. CASE ~(Area(a) <= Area(b))
  <2>1. smaller = Width(b) * Height(b)
    BY <1>7, Areas DEF Smaller
  <2>2. iw > 0 /\ ih > 0 /\ 2 * iw >= Width(b) /\ 2 * ih >= Height(b)
    BY <1>2, <1>3, <1>5, <2>1, Areas, HalfOfBoth DEF Width, Height
  <2> QED
    BY <1>2, <1>3, <1>7, <2>2 DEF Nested, CenterInside, Width, Height
<1> QED
  BY <1>6, <1>7

\* The relations between boxes are symmetric.
LEMMA GeometrySymmetric ==
  ASSUME NEW a, NEW b, IsBox(a), IsBox(b)
  PROVE  /\ ContainmentAtLeast(a, b, 70) => ContainmentAtLeast(b, a, 70) /\ Nested(b, a)
         /\ Rivals(a, b) => Rivals(b, a)
<1>1. /\ Intersection(a, b) = Intersection(b, a) /\ Smaller(Area(a), Area(b)) = Smaller(Area(b), Area(a))
      /\ Area(a) + Area(b) - Intersection(a, b) = Area(b) + Area(a) - Intersection(b, a)
  BY Areas DEF Smaller
<1>2. \A p : ContainmentAtLeast(a, b, p) => ContainmentAtLeast(b, a, p)
  BY <1>1 DEF ContainmentAtLeast
<1>3. \A p : OverlapAtLeast(a, b, p) => OverlapAtLeast(b, a, p)
  BY <1>1 DEF OverlapAtLeast
<1>4. ContainmentAtLeast(b, a, 50) => Nested(b, a)
  BY HalfIsNested
<1>5. ContainmentAtLeast(b, a, 70) => Nested(b, a)
  BY HalfIsNested
<1> QED
  BY <1>2, <1>3, <1>4, <1>5 DEF Rivals

-------------------------------------------------------------------------------
(* Removing duplicates.                                                    *)

\* Induction over the naturals, by their well-foundedness.
LEMMA Induction ==
  ASSUME NEW T, 0 \in T, \A n \in Nat : n \in T => n + 1 \in T
  PROVE  Nat \subseteq T
<1> DEFINE R == OpToRel(<, Nat)
           Rest == Nat \ T
<1>0. \A x, y \in Nat : x < y => <<x, y>> \in R
  BY DEF OpToRel
<1> HIDE DEF R
<1> SUFFICES ASSUME Rest # {} PROVE FALSE
  OBVIOUS
<1>1. PICK x \in Rest : \A y \in Rest : ~(<<y, x>> \in R)
  <2>1. IsWellFoundedOn(R, Nat)
    BY NatLessThanWellFounded DEF R
  <2>2. Rest \subseteq Nat
    OBVIOUS
  <2> HIDE DEF Rest
  <2> QED
    BY <2>1, <2>2, WFMin
<1>2. x # 0
  BY <1>1
<1>3. x - 1 \in Nat /\ x - 1 < x
  BY <1>1, <1>2
<1>4. x - 1 \notin Rest
  BY <1>0, <1>1, <1>3
<1> QED
  BY <1>1, <1>3, <1>4

\* The turn at which the loops of the deduplication compare positions i and j.
LEMMA TurnOf ==
  ASSUME NEW n \in Nat, NEW i \in 1 .. n, NEW j \in 1 .. n
  PROVE  \E k \in 1 .. n * n : <<1 + ((k - 1) \div n), 1 + ((k - 1) % n)>> = <<i, j>>
<1> DEFINE q == i - 1
           r == j - 1
           k == q * n + r + 1
<1>1. n > 0 /\ q \in 0 .. n - 1 /\ r \in 0 .. n - 1
  OBVIOUS
<1> HIDE DEF q, r
<1>2. q * n \in Nat /\ n * n \in Nat /\ q * n <= (n - 1) * n /\ (n - 1) * n = n * n - n
  BY <1>1
<1>3. k \in 1 .. n * n /\ k - 1 = q * n + r
  BY <1>1, <1>2
<1>4. (q * n + r) \div n = q /\ (q * n + r) % n = r
  BY <1>1, <1>2
<1> HIDE DEF k
<1>5. (k - 1) \div n = q /\ (k - 1) % n = r /\ 1 + q = i /\ 1 + r = j
  BY <1>3, <1>4 DEF q, r
<1>6. <<1 + ((k - 1) \div n), 1 + ((k - 1) % n)>> = <<i, j>>
  BY <1>5
<1> QED
  BY <1>3, <1>6

\* What occurs in some of the pairs.
InPairs(pairs) == {p[1] : p \in pairs} \cup {p[2] : p \in pairs}

\* Of every pair of duplicates the loops drop one, and nothing else.
LEMMA OneOfEachPairDropped ==
  ASSUME NEW n \in Nat, NEW duplicates \in SUBSET ((1 .. n) \X (1 .. n)), NEW keepSecond
  PROVE  /\ \A i, j \in 1 .. n : <<i, j>> \in duplicates =>
              i \in Dropped(n, duplicates, keepSecond) \/ j \in Dropped(n, duplicates, keepSecond)
         /\ Dropped(n, duplicates, keepSecond) \subseteq InPairs(duplicates)
<1> DEFINE N == n * n
           pair(k) == <<1 + ((k - 1) \div n), 1 + ((k - 1) % n)>>
           Step(gone, k) ==
             IF pair(k) \in duplicates /\ pair(k)[1] \notin gone /\ pair(k)[2] \notin gone
             THEN gone \cup {IF pair(k) \in keepSecond THEN pair(k)[1] ELSE pair(k)[2]}
             ELSE gone
           Run(f, m) == f = [k \in 0 .. m |-> IF k = 0 THEN {} ELSE Step(f[k - 1], k)]
           run == CHOOSE f : Run(f, N)
<1>0. N \in Nat
  OBVIOUS
<1>1. Dropped(n, duplicates, keepSecond) = run[N]
  BY DEF Dropped
<1>2. \A gone, k : gone \subseteq Step(gone, k)
  OBVIOUS
<1>3. \A gone, k : pair(k) \in duplicates =>
        pair(k)[1] \in Step(gone, k) \/ pair(k)[2] \in Step(gone, k)
  OBVIOUS
<1>10. ASSUME NEW gone \in SUBSET InPairs(duplicates), NEW k
       PROVE  Step(gone, k) \subseteq InPairs(duplicates)
  <2>1. CASE pair(k) \in duplicates
    <3> HIDE DEF pair
    <3>1. pair(k)[1] \in InPairs(duplicates) /\ pair(k)[2] \in InPairs(duplicates)
      BY <2>1 DEF InPairs
    <3> QED
      BY <3>1
  <2> QED
    BY <2>1
<1> HIDE DEF Step, N, pair
<1>4. \E f : Run(f, N)
  <2> DEFINE T == {m \in Nat : \E f : Run(f, m)}
  <2>1. 0 \in T
    <3>1. Run([k \in 0 .. 0 |-> {}], 0)
      OBVIOUS
    <3> QED
      BY <3>1
  <2>2. ASSUME NEW m \in Nat, m \in T PROVE m + 1 \in T
    <3>1. PICK f : Run(f, m)
      BY <2>2
    <3>0. \A k \in 0 .. m : f[k] = IF k = 0 THEN {} ELSE Step(f[k - 1], k)
      <4> DEFINE h == [k \in 0 .. m |-> IF k = 0 THEN {} ELSE Step(f[k - 1], k)]
      <4>1. \A k \in 0 .. m : h[k] = IF k = 0 THEN {} ELSE Step(f[k - 1], k)
        OBVIOUS
      <4> QED
        BY <3>1, <4>1
    <3> HIDE DEF Run
    <3> DEFINE g == [k \in 0 .. m + 1 |-> IF k <= m THEN f[k] ELSE Step(f[m], m + 1)]
    <3>2. \A k \in 0 .. m + 1 : g[k] = IF k = 0 THEN {} ELSE Step(g[k - 1], k)
      <4> TAKE k \in 0 .. m + 1
      <4>1. CASE k = 0
        BY <3>0, <4>1
      <4>2. CASE k \in 1 .. m
        <5>1. k - 1 \in 0 .. m /\ k \in 0 .. m /\ k # 0 /\ g[k] = f[k] /\ g[k - 1] = f[k - 1]
          BY <4>2
        <5> HIDE DEF g
        <5> QED
          BY <3>0, <5>1
      <4>3. CASE k = m + 1
        BY <4>3
      <4> QED
        BY <4>1, <4>2, <4>3
    <3>3. g = [k \in 0 .. m + 1 |-> g[k]]
      OBVIOUS
    <3> HIDE DEF g
    <3>4. Run(g, m + 1)
      <4>1. [k \in 0 .. m + 1 |-> g[k]] =
              [k \in 0 .. m + 1 |-> IF k = 0 THEN {} ELSE Step(g[k - 1], k)]
        BY <3>2
      <4> QED
        BY <3>3, <4>1 DEF Run
    <3> QED
      BY <3>4
  <2> HIDE DEF T
  <2>3. Nat \subseteq T
    BY <2>1, <2>2, Induction
  <2> QED
    BY <1>0, <2>3 DEF T
<1>5. Run(run, N)
  BY <1>4
<1> HIDE DEF run
<1>6. \A k \in 1 .. N : run[k] = Step(run[k - 1], k)
  <2> DEFINE h == [k \in 0 .. N |-> IF k = 0 THEN {} ELSE Step(run[k - 1], k)]
  <2>1. \A k \in 0 .. N : h[k] = IF k = 0 THEN {} ELSE Step(run[k - 1], k)
    OBVIOUS
  <2>2. run = h
    BY <1>5
  <2> HIDE DEF h
  <2> QED
    BY <1>0, <2>1, <2>2
<1>7. ASSUME NEW k \in 1 .. N PROVE run[k] \subseteq run[N]
  <2> DEFINE T == {m \in Nat : k <= m /\ m <= N => run[k] \subseteq run[m]}
  <2>1. 0 \in T
    OBVIOUS
  <2>2. ASSUME NEW m \in Nat, m \in T PROVE m + 1 \in T
    <3> SUFFICES ASSUME k <= m + 1, m + 1 <= N PROVE run[k] \subseteq run[m + 1]
      OBVIOUS
    <3>1. CASE k = m + 1
      BY <3>1
    <3>2. CASE k <= m
      <4>1. m + 1 \in 1 .. N /\ m <= N /\ (m + 1) - 1 = m
        BY <1>0, <3>2
      <4>2. run[m + 1] = Step(run[m], m + 1)
        BY <1>6, <4>1
      <4> QED
        BY <1>2, <2>2, <3>2, <4>1, <4>2
    <3> QED
      BY <3>1, <3>2
  <2> HIDE DEF T
  <2>3. Nat \subseteq T
    BY <2>1, <2>2, Induction
  <2> QED
    BY <1>0, <2>3 DEF T
<1>8. ASSUME NEW i \in 1 .. n, NEW j \in 1 .. n, <<i, j>> \in duplicates
      PROVE  i \in run[N] \/ j \in run[N]
  <2>1. PICK k \in 1 .. N : pair(k) = <<i, j>>
    <3>1. \E k \in 1 .. n * n : <<1 + ((k - 1) \div n), 1 + ((k - 1) % n)>> = <<i, j>>
      BY <1>0, <1>8, TurnOf
    <3> QED BY <3>1 DEF N, pair
  <2>2. i \in run[k] \/ j \in run[k]
    BY <1>3, <1>6, <1>8, <2>1
  <2> QED
    BY <1>7, <2>2
<1>9. run[N] \subseteq InPairs(duplicates)
  <2> DEFINE T == {m \in Nat : m <= N => run[m] \subseteq InPairs(duplicates)}
  <2>1. 0 \in T
    <3>1. run[0] = {}
      BY <1>0, <1>5
    <3> QED
      BY <3>1
  <2>2. ASSUME NEW m \in Nat, m \in T PROVE m + 1 \in T
    <3> SUFFICES ASSUME m + 1 <= N PROVE run[m + 1] \subseteq InPairs(duplicates)
      OBVIOUS
    <3>1. m + 1 \in 1 .. N /\ m <= N /\ (m + 1) - 1 = m
      BY <1>0
    <3>2. run[m + 1] = Step(run[m], m + 1) /\ run[m] \subseteq InPairs(duplicates)
      BY <1>6, <2>2, <3>1
    <3> QED
      BY <1>10, <3>2
  <2> HIDE DEF T
  <2>3. Nat \subseteq T
    BY <2>1, <2>2, Induction
  <2> QED
    BY <1>0, <2>3 DEF T
<1> QED
  BY <1>1, <1>8, <1>9

Paired(i, j, pairs) == <<i, j>> \in pairs

\* What the deduplications leave comes from the list, and of no two elements left
\* was the second a duplicate of the first.
LEMMA NoDuplicatesLeft ==
  ASSUME NEW S, NEW s \in Seq(S), NEW duplicates \in SUBSET Pairs(s), NEW keepSecond,
         NEW r, r = Deduplicated(s, duplicates, keepSecond)
  PROVE  /\ r \in Seq(S)
         /\ \A k \in DOMAIN r : \E i \in DOMAIN s : r[k] = s[i]
         /\ \A k, l \in DOMAIN r : k < l =>
              \E i, j \in DOMAIN s : i < j /\ r[k] = s[i] /\ r[l] = s[j] /\ ~Paired(i, j, duplicates)
<1> DEFINE gone == Dropped(Len(s), duplicates, keepSecond)
<1>1. Len(s) \in Nat /\ DOMAIN s = 1 .. Len(s)
  OBVIOUS
<1>2. CASE duplicates = {}
  <2>1. r = s
    BY <1>2 DEF Deduplicated
  <2> QED
    BY <1>2, <2>1 DEF Paired
<1>3. CASE duplicates # {}
  <2> DEFINE I == DOMAIN s \ gone
  <2>1. r = Sublist(s, I)
    BY <1>3 DEF Deduplicated
  <2>2. \A i, j \in DOMAIN s : <<i, j>> \in duplicates => i \in gone \/ j \in gone
    <3>1. duplicates \in SUBSET ((1 .. Len(s)) \X (1 .. Len(s)))
      BY <1>1 DEF Pairs
    <3> HIDE DEF gone
    <3> QED
      BY <1>1, <3>1, OneOfEachPairDropped DEF gone
  <2> HIDE DEF gone
  <2>3. I \in SUBSET (DOMAIN s) /\ \A i, j \in I : ~Paired(i, j, duplicates)
    BY <2>2 DEF Paired
  <2> HIDE DEF I
  <2>4. /\ r \in Seq(S)
        /\ \A k \in DOMAIN r : \E i \in I : r[k] = s[i]
        /\ \A k, l \in DOMAIN r : k < l => \E i, j \in I : i < j /\ r[k] = s[i] /\ r[l] = s[j]
    BY <2>1, <2>3, SublistPairs
  <2> QED
    BY <2>3, <2>4 DEF Paired
<1> QED
  BY <1>2, <1>3

-------------------------------------------------------------------------------
(* Detections, and what is drawn.                                          *)

BoxType ==
  [cls : {d.cls : d \in Dets}, box : {d.box : d \in Dets}, score : {d.score : d \in Dets}]

\* Detections are among the boxes that tracks can have.
LEMMA DetsAreBoxes ==
  /\ Dets \subseteq BoxType
  /\ \A d \in BoxType : d.box \in DOMAIN BoxAt /\ d.score \in Nat
  /\ \A b \in DOMAIN BoxAt : IsBox(BoxAt[b])
<1>1. \A d \in Dets : d \in [cls : {e.cls : e \in Dets}, box : DOMAIN BoxAt, score : Nat]
  BY TrackerAssumption
<1>2. ASSUME NEW d \in Dets PROVE d \in BoxType
  <2>1. d = [cls |-> d.cls, box |-> d.box, score |-> d.score]
    BY <1>1
  <2> QED
    BY <2>1 DEF BoxType
<1>3. \A d \in BoxType : d.box \in DOMAIN BoxAt /\ d.score \in Nat
  BY <1>1 DEF BoxType
<1> QED
  BY <1>2, <1>3, TrackerAssumption

\* Which of two boxes is looked at first does not matter to their being rivals,
LEMMA RivalSymmetric ==
  ASSUME NEW a \in DOMAIN BoxAt, NEW b \in DOMAIN BoxAt, Rival[a][b]
  PROVE  Rival[b][a]
<1>1. Rivals(BoxAt[a], BoxAt[b])
  BY DEF Rival
<1>2. IsBox(BoxAt[a]) /\ IsBox(BoxAt[b])
  BY DetsAreBoxes, Zenon
<1>3. Rivals(BoxAt[b], BoxAt[a])
  BY <1>1, <1>2, GeometrySymmetric
<1> QED
  BY <1>3 DEF Rival

\* to one being inside the other,
LEMMA InsideSymmetric ==
  ASSUME NEW a \in DOMAIN BoxAt, NEW b \in DOMAIN BoxAt, Inside[a][b]
  PROVE  Inside[b][a]
<1>1. ContainmentAtLeast(BoxAt[a], BoxAt[b], 70)
  BY DEF Inside
<1>2. IsBox(BoxAt[a]) /\ IsBox(BoxAt[b])
  BY DetsAreBoxes, Zenon
<1>3. ContainmentAtLeast(BoxAt[b], BoxAt[a], 70) /\ Nested(BoxAt[b], BoxAt[a])
  BY <1>1, <1>2, GeometrySymmetric
<1> QED
  BY <1>3 DEF Inside

\* or to their being duplicates.
LEMMA DuplicatesSymmetric ==
  ASSUME NEW d \in BoxType, NEW e \in BoxType, Duplicates(d, e)
  PROVE  Duplicates(e, d)
BY DetsAreBoxes, RivalSymmetric, InsideSymmetric DEF Duplicates

\* Whatever the list, what deduplicate_display_detections leaves of it is apart.
LEMMA DisplayedApart ==
  ASSUME NEW S, \A d \in S : d \in BoxType, NEW ds \in Seq(S)
  PROVE  LET r == DisplayDeduplicated(ds) IN
         /\ r \in Seq(S)
         /\ \A k \in DOMAIN r : \E i \in DOMAIN ds : r[k] = ds[i]
         /\ \A k, l \in DOMAIN r : k # l => ~Duplicates(r[k], r[l])
<1> DEFINE r == DisplayDeduplicated(ds)
           same == {p \in Pairs(ds) : Duplicates(ds[p[1]], ds[p[2]])}
<1>1. \E second : r = Deduplicated(ds, same, second)
  BY DEF DisplayDeduplicated
<1>2. same \in SUBSET Pairs(ds)
  OBVIOUS
<1>3. \A i, j \in DOMAIN ds : i < j /\ ~Paired(i, j, same) => ~Duplicates(ds[i], ds[j])
  BY DEF Pairs, Paired
<1> HIDE DEF r, same
<1>4. /\ r \in Seq(S)
      /\ \A k \in DOMAIN r : \E i \in DOMAIN ds : r[k] = ds[i]
      /\ \A k, l \in DOMAIN r : k < l =>
           \E i, j \in DOMAIN ds : i < j /\ r[k] = ds[i] /\ r[l] = ds[j] /\ ~Paired(i, j, same)
  BY <1>1, <1>2, NoDuplicatesLeft
<1>5. \A k, l \in DOMAIN r : k < l => ~Duplicates(r[k], r[l])
  <2> SUFFICES ASSUME NEW k \in DOMAIN r, NEW l \in DOMAIN r, k < l
               PROVE  ~Duplicates(r[k], r[l])
    OBVIOUS
  <2>1. PICK i \in DOMAIN ds, j \in DOMAIN ds :
          i < j /\ r[k] = ds[i] /\ r[l] = ds[j] /\ ~Paired(i, j, same)
    BY <1>4
  <2> QED
    BY <1>3, <2>1
<1>6. ASSUME NEW k \in DOMAIN r, NEW l \in DOMAIN r, k # l PROVE ~Duplicates(r[k], r[l])
  <2>1. k \in Int /\ l \in Int /\ r[k] \in BoxType /\ r[l] \in BoxType
    BY <1>4
  <2>2. CASE k < l
    BY <1>5, <2>2
  <2>3. CASE l < k
    BY <1>5, <2>1, <2>3, DuplicatesSymmetric
  <2> QED
    BY <1>6, <2>1, <2>2, <2>3
<1> QED
  BY <1>4, <1>6 DEF r

\* So are the tracks that deduplicate_tracks leaves.
LEMMA TracksApart ==
  ASSUME NEW S, \A t \in S : t.smooth \in BoxType, NEW ts \in Seq(S), NEW secondHasMore
  PROVE  LET r == TracksDeduplicated(ts, secondHasMore) IN
         /\ r \in Seq(S)
         /\ \A k, l \in DOMAIN r : k # l => ~Duplicates(r[k].smooth, r[l].smooth)
<1> DEFINE r == TracksDeduplicated(ts, secondHasMore)
           same == {p \in Pairs(ts) : Duplicates(ts[p[1]].smooth, ts[p[2]].smooth)}
<1>1. \E second : r = Deduplicated(ts, same, second)
  BY DEF TracksDeduplicated
<1>2. same \in SUBSET Pairs(ts)
  OBVIOUS
<1>3. \A i, j \in DOMAIN ts : i < j /\ ~Paired(i, j, same) => ~Duplicates(ts[i].smooth, ts[j].smooth)
  BY DEF Pairs, Paired
<1> HIDE DEF r, same
<1>4. /\ r \in Seq(S)
      /\ \A k, l \in DOMAIN r : k < l =>
           \E i, j \in DOMAIN ts : i < j /\ r[k] = ts[i] /\ r[l] = ts[j] /\ ~Paired(i, j, same)
  BY <1>1, <1>2, NoDuplicatesLeft
<1>5. \A k, l \in DOMAIN r : k < l => ~Duplicates(r[k].smooth, r[l].smooth)
  <2> SUFFICES ASSUME NEW k \in DOMAIN r, NEW l \in DOMAIN r, k < l
               PROVE  ~Duplicates(r[k].smooth, r[l].smooth)
    OBVIOUS
  <2>1. PICK i \in DOMAIN ts, j \in DOMAIN ts :
          i < j /\ r[k] = ts[i] /\ r[l] = ts[j] /\ ~Paired(i, j, same)
    BY <1>4
  <2> QED
    BY <1>3, <2>1
<1>6. ASSUME NEW k \in DOMAIN r, NEW l \in DOMAIN r, k # l PROVE ~Duplicates(r[k].smooth, r[l].smooth)
  <2>1. k \in Int /\ l \in Int /\ r[k].smooth \in BoxType /\ r[l].smooth \in BoxType
    BY <1>4
  <2>2. CASE k < l
    BY <1>5, <2>2
  <2>3. CASE l < k
    BY <1>5, <2>1, <2>3, DuplicatesSymmetric
  <2> QED
    BY <1>6, <2>1, <2>2, <2>3
<1> QED
  BY <1>4, <1>6 DEF r

\* The boxes of the tracks that may be drawn are apart if the tracks are.
LEMMA ShownFacts ==
  ASSUME NEW S, \A t \in S : t.smooth \in BoxType, NEW ts \in Seq(S), NEW later
  PROVE  LET r == Shown(ts, later) IN
         /\ r \in Seq(BoxType)
         /\ \A k \in DOMAIN r : \E i \in DOMAIN ts : r[k] = ts[i].smooth /\ Displayable(ts[i], later)
         /\ \A k, l \in DOMAIN r : k < l =>
              \E i, j \in DOMAIN ts : i < j /\ r[k] = ts[i].smooth /\ r[l] = ts[j].smooth
<1> DEFINE r == Shown(ts, later)
           s == [i \in DOMAIN ts |-> ts[i].smooth]
           I == {i \in DOMAIN ts : Displayable(ts[i], later)}
<1>1. r = Sublist(s, I)
  BY DEF Shown
<1>2. s \in Seq(BoxType) /\ DOMAIN s = DOMAIN ts /\ \A i \in DOMAIN ts : s[i] = ts[i].smooth
  OBVIOUS
<1>3. I \in SUBSET (DOMAIN s) /\ \A i \in I : Displayable(ts[i], later)
  OBVIOUS
<1> HIDE DEF r, s, I
<1>4. /\ r \in Seq(BoxType)
      /\ \A k \in DOMAIN r : \E i \in I : r[k] = s[i]
      /\ \A k, l \in DOMAIN r : k < l => \E i, j \in I : i < j /\ r[k] = s[i] /\ r[l] = s[j]
  BY <1>1, <1>2, <1>3, SublistPairs
<1>5. I \subseteq DOMAIN ts
  BY <1>2, <1>3
<1> QED
  BY SMTT(20), <1>2, <1>3, <1>4, <1>5 DEF r

-------------------------------------------------------------------------------
(* What an update makes of a track.                                        *)

TrackShape ==
  [smooth : BoxType, age : Int, hits : 1 .. ConfirmHits + 1,
   jump : Dets \cup {None}, rival : Dets \cup {None}, missed : BOOLEAN,
   state : {"Tentative", "Active", "Shadow"}]

\* A class at a box where it was detected.
Known(b) == b \in BoxType /\ \E e \in Dets : e.cls = b.cls /\ e.box = b.box

\* A track shows what is known, and is Tentative until it is confirmed.
Tracked ==
  {t \in TrackShape :
     Known(t.smooth) /\ (t.state = "Tentative" <=> t.hits < ConfirmHits)}

\* At most two of the sightings that confirm are needed.
LEMMA HitsToConfirm ==
  ConfirmHits \in Nat /\ ConfirmHits >= 1 /\ Enough \in 1 .. 2 /\ Enough <= ConfirmHits
BY TrackerAssumption DEF Enough, Smaller

\* What a track consists of.
LEMMA TrackedFields ==
  ASSUME NEW t \in Tracked
  PROVE  /\ Known(t.smooth) /\ t.smooth \in BoxType
         /\ t.age \in Int /\ t.hits \in 1 .. ConfirmHits + 1
         /\ t.rival \in Dets \cup {None} /\ t.missed \in BOOLEAN
         /\ t.state \in {"Tentative", "Active", "Shadow"}
         /\ (t.state = "Tentative" <=> t.hits < ConfirmHits)
<1>1. t \in TrackShape /\ Known(t.smooth) /\ (t.state = "Tentative" <=> t.hits < ConfirmHits)
  BY DEF Tracked
<1> QED
  BY <1>1 DEF TrackShape

\* With an accepted measurement the track goes to the place of the detection; or
\* it stays at its own, if the class is the same or the box in the dead zone.
LEMMA AcceptedFacts ==
  ASSUME NEW t \in Tracked, NEW d \in Dets, NEW stays,
         NEW r, r = Accepted(t, d, t.smooth.cls # d.cls, stays)
  PROVE  /\ r \in Tracked
         /\ r.age = 0 /\ r.rival = None
         /\ \/ PlaceOf(r.smooth) = PlaceOf(d)
            \/ /\ PlaceOf(r.smooth) = PlaceOf(t.smooth)
               /\ t.smooth.cls = d.cls \/ Still[t.smooth.box][d.box]
<1> DEFINE reset == t.state # "Active" \/ t.smooth.cls # d.cls \/ ~Overlap20[t.smooth.box][d.box]
           box == IF reset THEN d.box ELSE Filtered(t.smooth.box, d.box, stays)
           smooth == IF Still[t.smooth.box][d.box] THEN [t.smooth EXCEPT !.score = d.score]
                     ELSE [d EXCEPT !.box = box]
           hits == Smaller(t.hits + 1, ConfirmHits + 1)
           state == IF hits >= ConfirmHits THEN "Active" ELSE t.state
<1>1. r = [smooth |-> smooth, age |-> 0, hits |-> hits, jump |-> None, rival |-> None,
           missed |-> FALSE, state |-> state]
  BY DEF Accepted
<1>2. /\ t.smooth \in BoxType /\ d \in BoxType /\ Known(t.smooth)
      /\ t.hits \in 1 .. ConfirmHits + 1
      /\ t.state \in {"Tentative", "Active", "Shadow"}
      /\ (t.state = "Tentative" <=> t.hits < ConfirmHits)
  BY TrackedFields, DetsAreBoxes
<1>3. /\ Known([t.smooth EXCEPT !.score = d.score])
      /\ PlaceOf([t.smooth EXCEPT !.score = d.score]) = PlaceOf(t.smooth)
  BY <1>2 DEF Known, BoxType, PlaceOf
<1>4. /\ Known([d EXCEPT !.box = box])
      /\ \/ PlaceOf([d EXCEPT !.box = box]) = PlaceOf(d)
         \/ PlaceOf([d EXCEPT !.box = box]) = PlaceOf(t.smooth) /\ t.smooth.cls = d.cls
  <2>1. CASE box = d.box
    BY <1>2, <2>1 DEF Known, BoxType, PlaceOf
  <2>2. CASE box # d.box
    <3>1. t.smooth.cls = d.cls /\ box = t.smooth.box
      BY <2>2 DEF Filtered
    <3> HIDE DEF box
    <3> QED
      BY <1>2, <3>1 DEF Known, BoxType, PlaceOf
  <2> QED
    BY <2>1, <2>2
<1>5. hits \in 1 .. ConfirmHits + 1 /\ (hits < ConfirmHits => t.hits < ConfirmHits)
  BY <1>2, HitsToConfirm DEF Smaller
<1>6. /\ Known(smooth)
      /\ \/ PlaceOf(smooth) = PlaceOf(d)
         \/ /\ PlaceOf(smooth) = PlaceOf(t.smooth)
            /\ t.smooth.cls = d.cls \/ Still[t.smooth.box][d.box]
  <2> HIDE DEF box
  <2> QED
    BY <1>3, <1>4
<1> HIDE DEF smooth, hits
<1>7. state \in {"Tentative", "Active", "Shadow"} /\ (state = "Tentative" <=> hits < ConfirmHits)
  <2>1. CASE hits >= ConfirmHits
    BY <1>5, <2>1, HitsToConfirm
  <2>2. CASE ~(hits >= ConfirmHits)
    BY <1>2, <1>5, <2>2, HitsToConfirm
  <2> QED
    BY <2>1, <2>2
<1> HIDE DEF state
<1>8. r \in TrackShape
  <2>1. smooth \in BoxType /\ None \in Dets \cup {None} /\ 0 \in Int /\ FALSE \in BOOLEAN
    BY <1>6 DEF Known
  <2>2. \A x \in Int : [smooth |-> smooth, age |-> x, hits |-> hits, jump |-> None, rival |-> None,
                       missed |-> FALSE, state |-> state] \in TrackShape
    BY <1>5, <1>7, <2>1 DEF TrackShape
  <2> QED
    BY <1>1, <2>1, <2>2, Zenon
<1> QED
  BY <1>1, <1>5, <1>6, <1>7, <1>8 DEF Tracked

\* Its age is 0 or what it was.  It waits; or it goes to the place of a detection
\* of its class or of its rival, detected again; or it stays at its own.
LEMMA MatchedFacts ==
  ASSUME NEW t \in Tracked, NEW d \in Dets, NEW stays, NEW r, r = Matched(t, d, stays)
  PROVE  /\ r \in Tracked /\ r.age \in {0, t.age}
         /\ \/ r.smooth = t.smooth /\ r.hits = t.hits
            \/ /\ t.smooth.cls = d.cls \/ RivalConfirmed(t, d)
               /\ PlaceOf(r.smooth) = PlaceOf(d)
            \/ /\ PlaceOf(r.smooth) = PlaceOf(t.smooth)
               /\ t.smooth.cls = d.cls \/ Still[t.smooth.box][d.box]
         /\ r.rival \in {None, d}
<1>0. t \in TrackShape /\ t.hits \in Int
  BY HitsToConfirm, TrackedFields DEF Tracked
<1>1. CASE t.smooth.cls # d.cls /\ ~RivalConfirmed(t, d)
  <2>1. r = [t EXCEPT !.rival = d, !.age = 0, !.missed = FALSE]
    BY <1>1 DEF Matched
  <2>2. r.smooth = t.smooth /\ r.hits = t.hits /\ r.state = t.state /\ r.age = 0 /\ r.rival = d
    BY <1>0, <2>1 DEF TrackShape
  <2>3. r \in TrackShape
    <3>1. \A x \in Int : [t EXCEPT !.rival = d, !.age = x, !.missed = FALSE] \in TrackShape
      BY <1>0 DEF TrackShape
    <3>2. 0 \in Int
      OBVIOUS
    <3> QED
      BY <2>1, <3>1, <3>2, Zenon
  <2> QED
    BY <1>0, <2>2, <2>3 DEF Tracked
<1>2. CASE ~(t.smooth.cls # d.cls /\ ~RivalConfirmed(t, d))
  <2>1. r = Measured(t, d, t.smooth.cls # d.cls, stays)
    BY <1>2 DEF Matched
  <2>2. CASE r = Waiting(t, d)
    <3>1. /\ r \in TrackShape /\ r.smooth = t.smooth /\ r.hits = t.hits /\ r.state = t.state
          /\ r.age = t.age /\ r.rival = None
      BY <1>0, <2>2 DEF TrackShape, Waiting
    <3> QED
      BY <1>0, <3>1 DEF Tracked
  <2>3. CASE r = Accepted(t, d, t.smooth.cls # d.cls, stays)
    <3>1. /\ r \in Tracked
          /\ r.age = 0 /\ r.rival = None
          /\ \/ PlaceOf(r.smooth) = PlaceOf(d)
             \/ /\ PlaceOf(r.smooth) = PlaceOf(t.smooth)
                /\ t.smooth.cls = d.cls \/ Still[t.smooth.box][d.box]
      BY <2>3, AcceptedFacts
    <3> QED
      BY <1>2, <3>1
  <2> QED
    BY <2>1, <2>2, <2>3 DEF Measured
<1> QED
  BY <1>1, <1>2

-------------------------------------------------------------------------------
(* What has been seen around the places.                                   *)

\* Places are akin to themselves and in both directions, and a detection that may
\* be associated with a track is akin to it.
LEMMA AkinFacts ==
  ASSUME NEW a \in DOMAIN BoxAt, NEW b \in DOMAIN BoxAt
  PROVE  /\ Akin[a][a]
         /\ Akin[a][b] => Akin[b][a]
         /\ Overlap20[a][b] \/ Near[a][b] \/ Inside[a][b] \/ Rival[a][b] => Akin[a][b]
BY DEF Akin, Near

\* What is known lies at one of the places, and at its own.
LEMMA PlaceFacts ==
  ASSUME NEW d, Known(d)
  PROVE  /\ PlaceOf(d) \in Places /\ d.box \in DOMAIN BoxAt
         /\ PlaceOf(d).cls = d.cls /\ PlaceOf(d).box = d.box
         /\ Lies(d, PlaceOf(d))
<1>1. d.box \in DOMAIN BoxAt
  BY DetsAreBoxes DEF Known
<1>2. PlaceOf(d) \in Places
  BY DEF Known, Places, PlaceOf
<1> QED
  BY <1>1, <1>2, AkinFacts DEF Lies, PlaceOf

\* Everything around d has been seen.
SeenAround(d, sup) == \A q \in Places : Lies(d, q) => sup[q] >= 1

\* Around what a track shows and around its rival the class has been seen, and at
\* what it shows often enough for a track hit as often.
Supported(t, sup) ==
  /\ SeenAround(t.smooth, sup)
  /\ t.hits >= Enough => sup[PlaceOf(t.smooth)] >= Enough
  /\ t.rival # None => SeenAround(t.rival, sup)

LEMMA SupportType ==
  ASSUME support \in [Places -> Nat], NEW ds \in Seq(Dets)
  PROVE  SupportAfter(ds) \in [Places -> Nat]
<1> DEFINE more(q) == Smaller(support[q] + 1, Enough)
<1>1. \A q \in Places : support[q] \in Nat /\ more(q) \in Nat
  BY HitsToConfirm DEF Smaller
<1> HIDE DEF more
<1> QED
  BY <1>1 DEF SupportAfter, more

\* A place seen counts; one that was seen before has then been seen often enough,
\* also if it was a rival that was seen there.  Where a track or its rival is,
\* nothing is lost.
LEMMA SupportFacts ==
  ASSUME support \in [Places -> Nat], NEW ds \in Seq(Dets), NEW q \in Places
  PROVE  /\ SupportAfter(ds)[q] \in Nat
         /\ \A j \in DOMAIN ds : Lies(ds[j], q) =>
              SupportAfter(ds)[q] >= 1 /\ (support[q] >= 1 => SupportAfter(ds)[q] >= Enough)
         /\ \A j \in DOMAIN ds :
              support[q] >= 1 /\ Rival[q.box][ds[j].box] /\ Still[q.box][ds[j].box] =>
                SupportAfter(ds)[q] >= Enough
         /\ \A i \in DOMAIN tracks :
              Lies(tracks[i].smooth, q) \/ (tracks[i].rival # None /\ Lies(tracks[i].rival, q)) =>
                /\ support[q] >= 1 => SupportAfter(ds)[q] >= 1
                /\ support[q] >= Enough => SupportAfter(ds)[q] >= Enough
<1> DEFINE Sighted == \E j \in DOMAIN ds : Lies(ds[j], q)
           Rivalled == \E j \in DOMAIN ds : Rival[q.box][ds[j].box] /\ Still[q.box][ds[j].box]
           Held == \E i \in DOMAIN tracks :
                     \/ Lies(tracks[i].smooth, q)
                     \/ tracks[i].rival # None /\ Lies(tracks[i].rival, q)
           n == support[q]
           m == SupportAfter(ds)[q]
<1>1. m = IF Sighted \/ (n > 0 /\ Rivalled) THEN Smaller(n + 1, Enough)
          ELSE IF Held THEN n ELSE 0
  BY DEF SupportAfter
<1>2. n \in Nat /\ m \in Nat
  <2>1. SupportAfter(ds) \in [Places -> Nat]
    BY SupportType
  <2> QED
    BY <2>1
<1>3. Enough \in 1 .. 2
  BY HitsToConfirm
<1>4. /\ \A j \in DOMAIN ds : Lies(ds[j], q) => Sighted
      /\ \A j \in DOMAIN ds : Rival[q.box][ds[j].box] /\ Still[q.box][ds[j].box] => Rivalled
      /\ \A i \in DOMAIN tracks :
           Lies(tracks[i].smooth, q) \/ (tracks[i].rival # None /\ Lies(tracks[i].rival, q)) => Held
  OBVIOUS
<1> HIDE DEF Sighted, Rivalled, Held, m, n
<1>5. /\ Sighted => m >= 1 /\ (n >= 1 => m >= Enough)
      /\ n >= 1 /\ Rivalled => m >= Enough
      /\ Held => (n >= 1 => m >= 1) /\ (n >= Enough => m >= Enough)
  <2>1. CASE Sighted \/ (n > 0 /\ Rivalled)
    <3>1. m = Smaller(n + 1, Enough)
      BY <1>1, <2>1
    <3>2. m >= 1 /\ (n >= 1 => m >= Enough)
      BY <1>2, <1>3, <3>1 DEF Smaller
    <3> QED
      BY <1>2, <1>3, <2>1, <3>2
  <2>2. CASE ~(Sighted \/ (n > 0 /\ Rivalled))
    BY <1>1, <1>2, <1>3, <2>2
  <2> QED
    BY <2>1, <2>2
<1> QED
  BY <1>2, <1>4, <1>5 DEF m, n

\* What surrounds a detection has been seen after it.
LEMMA SightedAround ==
  ASSUME support \in [Places -> Nat], NEW ds \in Seq(Dets), NEW j \in DOMAIN ds
  PROVE  SeenAround(ds[j], SupportAfter(ds))
BY SupportFacts DEF SeenAround

\* What a track keeps from before the update stays supported.
LEMMA HeldFacts ==
  ASSUME support \in [Places -> Nat], NEW ds \in Seq(Dets), NEW i \in DOMAIN tracks
  PROVE  /\ SeenAround(tracks[i].smooth, support) =>
              SeenAround(tracks[i].smooth, SupportAfter(ds))
         /\ tracks[i].rival # None /\ SeenAround(tracks[i].rival, support) =>
              SeenAround(tracks[i].rival, SupportAfter(ds))
         /\ Known(tracks[i].smooth) /\ support[PlaceOf(tracks[i].smooth)] >= Enough =>
              SupportAfter(ds)[PlaceOf(tracks[i].smooth)] >= Enough
<1>1. \A q \in Places :
        Lies(tracks[i].smooth, q) \/ (tracks[i].rival # None /\ Lies(tracks[i].rival, q)) =>
          /\ support[q] >= 1 => SupportAfter(ds)[q] >= 1
          /\ support[q] >= Enough => SupportAfter(ds)[q] >= Enough
  BY SupportFacts
<1>2. Known(tracks[i].smooth) =>
        PlaceOf(tracks[i].smooth) \in Places /\ Lies(tracks[i].smooth, PlaceOf(tracks[i].smooth))
  BY PlaceFacts
<1> QED
  BY <1>1, <1>2 DEF SeenAround

\* A track that was matched is supported again: it waits with the support it had;
\* or what was seen makes its place one that has been seen often enough, because
\* it had been seen before.
LEMMA MatchedSupported ==
  ASSUME support \in [Places -> Nat], NEW ds \in Seq(Dets), NEW j \in DOMAIN ds,
         NEW t \in Tracked, Supported(t, support), Candidate(t, ds[j]),
         NEW i \in DOMAIN tracks, tracks[i].smooth = t.smooth,
         NEW stays, NEW r, r = Matched(t, ds[j], stays)
  PROVE  Supported(r, SupportAfter(ds))
<1> DEFINE d == ds[j]
           sup == SupportAfter(ds)
           here == PlaceOf(t.smooth)
           there == PlaceOf(d)
<1>1. d \in Dets /\ Known(d) /\ Known(t.smooth)
  BY DetsAreBoxes, TrackedFields DEF Known
<1>2. /\ r \in Tracked
      /\ \/ r.smooth = t.smooth /\ r.hits = t.hits
         \/ /\ t.smooth.cls = d.cls \/ RivalConfirmed(t, d)
            /\ PlaceOf(r.smooth) = there
         \/ /\ PlaceOf(r.smooth) = here
            /\ t.smooth.cls = d.cls \/ Still[t.smooth.box][d.box]
      /\ r.rival \in {None, d}
  BY <1>1, MatchedFacts
<1>3. /\ here \in Places /\ t.smooth.box \in DOMAIN BoxAt /\ Lies(t.smooth, here)
      /\ here.cls = t.smooth.cls /\ here.box = t.smooth.box
  BY <1>1, PlaceFacts
<1>4. /\ there \in Places /\ d.box \in DOMAIN BoxAt /\ Lies(d, there)
      /\ there.cls = d.cls /\ there.box = d.box
  BY <1>1, PlaceFacts
<1>5. SeenAround(d, sup) /\ SeenAround(t.smooth, sup)
  BY SightedAround, HeldFacts DEF Supported
<1>6. support[here] >= 1
  BY <1>3 DEF Supported, SeenAround
<1>7. Akin[t.smooth.box][d.box] /\ Akin[d.box][t.smooth.box]
  BY <1>3, <1>4, AkinFacts DEF Candidate
<1> HIDE DEF d, sup, here, there
<1>8. r.rival # None => SeenAround(r.rival, sup)
  BY <1>2, <1>5
<1>9. CASE r.smooth = t.smooth /\ r.hits = t.hits
  <2>1. t.hits >= Enough => sup[here] >= Enough
    BY <1>1, HeldFacts DEF Supported, here, sup
  <2> QED
    BY <1>5, <1>8, <1>9, <2>1 DEF Supported, here, sup
<1>10. CASE PlaceOf(r.smooth) = there /\ (t.smooth.cls = d.cls \/ RivalConfirmed(t, d))
  <2>1. support[there] >= 1
    <3>1. CASE t.smooth.cls = d.cls
      <4>1. Lies(t.smooth, there)
        BY <1>4, <1>7, <3>1 DEF Lies
      <4> QED
        BY <1>4, <4>1 DEF Supported, SeenAround
    <3>2. CASE RivalConfirmed(t, d)
      <4>1. t.rival # None /\ t.rival.cls = d.cls /\ Rival[t.rival.box][d.box]
        BY <3>2 DEF RivalConfirmed
      <4>2. t.rival.box \in DOMAIN BoxAt
        BY <4>1, TrackedFields, DetsAreBoxes
      <4>3. Lies(t.rival, there)
        BY <1>4, <4>1, <4>2, AkinFacts DEF Lies
      <4> QED
        BY <1>4, <4>1, <4>3 DEF Supported, SeenAround
    <3> QED
      BY <1>10, <3>1, <3>2
  <2>2. sup[there] >= Enough
    BY <1>4, <2>1, SupportFacts DEF d, sup
  <2>3. r.smooth.cls = d.cls /\ r.smooth.box = d.box
    BY <1>10 DEF PlaceOf, there
  <2>4. SeenAround(r.smooth, sup)
    BY <1>5, <2>3 DEF SeenAround, Lies
  <2> QED
    BY <1>8, <1>10, <2>2, <2>4 DEF Supported, sup
<1>11. CASE PlaceOf(r.smooth) = here /\ (t.smooth.cls = d.cls \/ Still[t.smooth.box][d.box])
  <2>1. sup[here] >= Enough
    <3>1. CASE t.smooth.cls = d.cls
      <4>1. Lies(d, here)
        BY <1>3, <1>7, <3>1 DEF Lies
      <4> QED
        BY <1>3, <1>6, <4>1, SupportFacts DEF d, sup
    <3>2. CASE t.smooth.cls # d.cls
      <4>1. Rival[here.box][d.box] /\ Still[here.box][d.box]
        BY <1>3, <1>11, <3>2 DEF Candidate, d
      <4> QED
        BY <1>3, <1>6, <4>1, SupportFacts DEF d, sup
    <3> QED
      BY <3>1, <3>2
  <2>2. r.smooth.cls = t.smooth.cls /\ r.smooth.box = t.smooth.box
    BY <1>11 DEF PlaceOf, here
  <2>3. SeenAround(r.smooth, sup)
    BY <1>5, <2>2 DEF SeenAround, Lies
  <2> QED
    BY <1>8, <1>11, <2>1, <2>3 DEF Supported, sup
<1> QED
  BY <1>2, <1>9, <1>10, <1>11

-------------------------------------------------------------------------------
(* The tracks an update leaves.                                            *)

\* No track is older than the connection could have made it: it was hit after the
\* time `since` the start or before a restart, which throws the ages back by
\* `thrown` at most, and not in the quiet time.
Old(t, since, quiet, thrown) == t.age >= since - MaxElapsed /\ t.age >= quiet - thrown

Kept(sup, since, quiet, thrown) ==
  {t \in Tracked : t.age <= Ttl /\ Old(t, since, quiet, thrown) /\ Supported(t, sup)}

\* Before the lost tracks are erased: one that was missed before it was confirmed
\* need not be supported.
Pending(sup, since, quiet, thrown) ==
  {t \in Tracked :
     Old(t, since, quiet, thrown) /\ (Supported(t, sup) \/ (t.hits < ConfirmHits /\ t.missed))}

\* A track that is not erased is kept, in the shadow if nothing was seen of it.
LEMMA ShadowedFacts ==
  ASSUME NEW sup, NEW since, NEW quiet, NEW thrown,
         NEW t \in Pending(sup, since, quiet, thrown), ~Lost(Shadowed(t))
  PROVE  Shadowed(t) \in Kept(sup, since, quiet, thrown)
<1> DEFINE r == Shadowed(t)
<1>1. t \in Tracked /\ Old(t, since, quiet, thrown)
  BY DEF Pending
<1>2. t \in TrackShape /\ Known(t.smooth) /\ (t.state = "Tentative" <=> t.hits < ConfirmHits)
  BY <1>1 DEF Tracked
<1>3. /\ r \in TrackShape /\ r.smooth = t.smooth /\ r.age = t.age /\ r.hits = t.hits
      /\ r.rival = t.rival /\ r.missed = t.missed
      /\ (r.state = t.state \/ (t.state = "Active" /\ r.state = "Shadow"))
  BY <1>2 DEF Shadowed, TrackShape
<1>4. r.age <= Ttl /\ ~(r.hits < ConfirmHits /\ r.missed)
  <2>1. ~(r.age > Ttl) /\ ~(r.hits < ConfirmHits /\ r.missed)
    BY DEF Lost
  <2>2. r.age \in Int /\ Ttl \in Int
    BY <1>3, TrackerAssumption DEF TrackShape
  <2> HIDE DEF r
  <2> QED
    BY <2>1, <2>2
<1> HIDE DEF r
<1>5. r \in Tracked
  BY <1>2, <1>3 DEF Tracked
<1>6. Old(r, since, quiet, thrown)
  BY <1>1, <1>3 DEF Old
<1>7. Supported(t, sup)
  BY <1>3, <1>4 DEF Pending
<1>8. Supported(r, sup)
  BY <1>3, <1>7 DEF Supported
<1> QED
  BY <1>4, <1>5, <1>6, <1>8 DEF Kept, r

\* Shadowing, erasing and deduplication leave tracks to keep, no two of them
\* duplicates.
LEMMA SettledFacts ==
  ASSUME NEW sup, NEW since, NEW quiet, NEW thrown,
         NEW ts \in Seq(Pending(sup, since, quiet, thrown)), NEW secondHasMore,
         NEW r, r = Settled(ts, secondHasMore)
  PROVE  /\ r \in Seq(Kept(sup, since, quiet, thrown))
         /\ \A k, l \in DOMAIN r : k # l => ~Duplicates(r[k].smooth, r[l].smooth)
<1> DEFINE S == Pending(sup, since, quiet, thrown)
           T == Kept(sup, since, quiet, thrown)
           shadowed == [i \in DOMAIN ts |-> Shadowed(ts[i])]
           I == {i \in DOMAIN ts : ~Lost(shadowed[i])}
           left == Sublist(shadowed, I)
           U == {Shadowed(t) : t \in S}
<1>1. r = TracksDeduplicated(left, secondHasMore)
  BY DEF Settled
<1>2. shadowed \in Seq(U) /\ DOMAIN shadowed = DOMAIN ts /\ \A i \in DOMAIN ts : shadowed[i] = Shadowed(ts[i])
  <2>1. ts \in Seq(S) /\ \A i \in DOMAIN ts : ts[i] \in S
    OBVIOUS
  <2> HIDE DEF S
  <2> QED
    BY <2>1
<1>3. \A i \in I : shadowed[i] \in T
  <2> SUFFICES ASSUME NEW i \in I PROVE shadowed[i] \in T
    OBVIOUS
  <2>1. i \in DOMAIN ts /\ ts[i] \in S /\ shadowed[i] = Shadowed(ts[i]) /\ ~Lost(shadowed[i])
    OBVIOUS
  <2> HIDE DEF I, shadowed
  <2> QED
    BY <2>1, ShadowedFacts
<1>4. I \in SUBSET (DOMAIN shadowed)
  OBVIOUS
<1>5. left \in Seq(T)
  <2> HIDE DEF I, shadowed, T, U
  <2>1. /\ left \in Seq(U) /\ \A k \in DOMAIN left : \E i \in I : left[k] = shadowed[i]
    BY <1>2, <1>4, SublistPairs
  <2> HIDE DEF left
  <2>2. \A k \in DOMAIN left : left[k] \in T
    BY <1>3, <2>1
  <2> QED
    BY <2>1, <2>2
<1>6. \A t \in T : t.smooth \in BoxType
  BY TrackedFields DEF Kept
<1> HIDE DEF left, T
<1> QED
  BY <1>1, <1>5, <1>6, TracksApart DEF T

\* The detection that an association gives a track.
LEMMA AssociationFacts ==
  ASSUME NEW ts, NEW ds, NEW a \in Associations(ts, ds), NEW i, \E p \in a : p[1] = i
  PROVE  /\ (CHOOSE p \in a : p[1] = i)[2] \in DOMAIN ds
         /\ Candidate(ts[i], ds[(CHOOSE p \in a : p[1] = i)[2]])
<1> DEFINE q == CHOOSE p \in a : p[1] = i
<1>1. q \in a /\ q[1] = i
  OBVIOUS
<1>2. a \subseteq {p \in (DOMAIN ts) \X (DOMAIN ds) : Candidate(ts[p[1]], ds[p[2]])}
  BY DEF Associations
<1> HIDE DEF q
<1>3. q[2] \in DOMAIN ds /\ Candidate(ts[q[1]], ds[q[2]])
  BY <1>1, <1>2
<1> QED
  BY <1>1, <1>3 DEF q

\* The ages of tracks or snapshots move by as much.
Moved(s, by) == [i \in DOMAIN s |-> [s[i] EXCEPT !.age = @ + by]]

\* A track that grows older keeps the rest.
LEMMA OlderFacts ==
  ASSUME NEW t \in Tracked, NEW step \in Int, NEW u, u = [t EXCEPT !.age = @ + step]
  PROVE  /\ u \in Tracked /\ u.age = t.age + step /\ u.smooth = t.smooth
         /\ u.hits = t.hits /\ u.rival = t.rival /\ u.missed = t.missed
<1>1. t \in TrackShape
  BY DEF Tracked
<1>2. /\ u \in TrackShape /\ u.age = t.age + step /\ u.smooth = t.smooth
      /\ u.hits = t.hits /\ u.rival = t.rival /\ u.missed = t.missed /\ u.state = t.state
  BY <1>1 DEF TrackShape
<1> QED
  BY <1>2 DEF Tracked

\* What the tracks become before the erasing, when the times have moved on.
LEMMA UpdatedFacts ==
  ASSUME support \in [Places -> Nat], NEW ds \in Seq(Dets),
         NEW since \in Nat, NEW quiet \in Nat, NEW thrown \in 0 .. MaxElapsed,
         NEW since2 \in 0 .. MaxElapsed, NEW quiet2 \in Nat,
         NEW step \in Nat, since2 <= since + step, quiet2 <= quiet + step,
         ds # <<>> => quiet2 = 0,
         tracks \in Seq(Kept(support, since, quiet, thrown)),
         NEW a \in Associations(tracks, ds), NEW stay
  PROVE  Updated(Moved(tracks, step), ds, a, stay) \in Seq(Pending(SupportAfter(ds), since2, quiet2, thrown))
<1> DEFINE S == Kept(support, since, quiet, thrown)
           T == Pending(SupportAfter(ds), since2, quiet2, thrown)
           aged == Moved(tracks, step)
           r == Updated(aged, ds, a, stay)
<1>1. ASSUME NEW i \in DOMAIN tracks PROVE r[i] \in T
  <2> DEFINE t == tracks[i]
             u == aged[i]
             matched == \E p \in a : p[1] = i
             j == (CHOOSE p \in a : p[1] = i)[2]
  <2>1. t \in Tracked /\ Old(t, since, quiet, thrown) /\ Supported(t, support)
    <3>1. t \in S
      OBVIOUS
    <3> HIDE DEF t
    <3> QED
      BY <3>1 DEF Kept
  <2>2. u = [t EXCEPT !.age = @ + step]
    BY DEF Moved
  <2>3. r[i] = IF matched THEN Matched(u, ds[j], i \in stay) ELSE Unmatched(u)
    BY DEF Updated, Moved
  <2>4. matched => j \in DOMAIN ds /\ Candidate(t, ds[j])
    BY AssociationFacts
  <2> HIDE DEF t, u, matched, j, r
  <2>5. /\ u \in Tracked /\ u.age = t.age + step /\ u.smooth = t.smooth
        /\ u.hits = t.hits /\ u.rival = t.rival /\ u.missed = t.missed
    BY <2>1, <2>2, OlderFacts
  <2>6. Supported(u, support)
    BY <2>1, <2>5 DEF Supported
  <2>7. u.age \in Int /\ u.age >= since2 - MaxElapsed /\ u.age >= quiet2 - thrown
        /\ 0 >= since2 - MaxElapsed
    <3>1. t.age \in Int /\ MaxElapsed \in Nat
      BY <2>1, TrackedFields, TrackerAssumption
    <3>2. t.age >= since - MaxElapsed /\ t.age >= quiet - thrown
      BY <2>1 DEF Old
    <3>3. since2 \in Int /\ quiet2 \in Int /\ thrown \in Int /\ step \in Int /\ since \in Int
          /\ quiet \in Int /\ since2 <= MaxElapsed
      BY <3>1
    <3>4. u.age = t.age + step /\ u.age \in Int
      BY <2>5, <3>1
    <3>5. u.age >= since2 - MaxElapsed
      BY <3>1, <3>2, <3>3, <3>4
    <3>6. u.age >= quiet2 - thrown
      BY <3>1, <3>2, <3>3, <3>4
    <3>7. 0 >= since2 - MaxElapsed
      BY <3>1, <3>3
    <3> QED
      BY <3>4, <3>5, <3>6, <3>7
  <2>8. CASE matched
    <3>1. ds[j] \in Dets /\ quiet2 = 0
      BY <2>4, <2>8
    <3>2. Candidate(u, ds[j])
      BY <2>4, <2>5, <2>8 DEF Candidate
    <3>3. r[i] = Matched(u, ds[j], i \in stay)
      BY <2>3, <2>8
    <3> DEFINE stays == i \in stay
               m == r[i]
    <3>4. m = Matched(u, ds[j], stays)
      BY <3>3
    <3> HIDE DEF stays, m
    <3>5. m \in Tracked /\ m.age \in {0, u.age}
      BY <2>5, <3>1, <3>4, MatchedFacts
    <3>6. Supported(m, SupportAfter(ds))
      <4>1. tracks[i].smooth = u.smooth
        BY <2>5 DEF t
      <4> QED
        BY <2>4, <2>5, <2>6, <2>8, <3>2, <3>4, <4>1, MatchedSupported
    <3>7. Old(m, since2, quiet2, thrown)
      BY <2>7, <3>1, <3>5 DEF Old
    <3> QED
      BY <3>5, <3>6, <3>7 DEF Pending, m
  <2>9. CASE ~matched
    <3> DEFINE m == r[i]
    <3>0. m = [u EXCEPT !.missed = TRUE]
      BY <2>3, <2>9 DEF Unmatched
    <3> HIDE DEF m
    <3>1. m \in Tracked /\ m.age = u.age /\ m.smooth = u.smooth /\ m.hits = u.hits
          /\ m.rival = u.rival /\ m.missed
      <4>1. u \in TrackShape
        BY <2>5 DEF Tracked
      <4>2. /\ m \in TrackShape /\ m.age = u.age /\ m.smooth = u.smooth /\ m.hits = u.hits
            /\ m.rival = u.rival /\ m.missed /\ m.state = u.state
        BY <3>0, <4>1 DEF TrackShape
      <4> QED
        BY <2>5, <4>2 DEF Tracked
    <3>2. Old(m, since2, quiet2, thrown)
      BY <2>7, <3>1 DEF Old
    <3>3. ASSUME ~(m.hits < ConfirmHits) PROVE Supported(m, SupportAfter(ds))
      <4>1. Enough \in 1 .. 2 /\ Enough <= ConfirmHits /\ ConfirmHits \in Nat /\ u.hits \in Int
            /\ Known(u.smooth)
        BY <2>5, HitsToConfirm, TrackedFields
      <4>2. u.hits >= Enough
        BY <3>1, <3>3, <4>1
      <4>3. tracks[i].smooth = u.smooth /\ tracks[i].rival = u.rival
        BY <2>5 DEF t
      <4>4. /\ SeenAround(u.smooth, SupportAfter(ds))
            /\ SupportAfter(ds)[PlaceOf(u.smooth)] >= Enough
            /\ u.rival # None => SeenAround(u.rival, SupportAfter(ds))
        BY <2>6, <4>1, <4>2, <4>3, HeldFacts DEF Supported
      <4> QED
        BY <3>1, <4>4 DEF Supported
    <3> QED
      BY <3>1, <3>2, <3>3 DEF Pending, m
  <2> QED
    BY <2>8, <2>9
<1>2. r = [i \in DOMAIN tracks |-> r[i]] /\ DOMAIN tracks = 1 .. Len(tracks) /\ Len(tracks) \in Nat
  BY DEF Updated, Moved
<1> HIDE DEF r, T
<1>3. r \in Seq(T)
  BY <1>1, <1>2
<1> QED
  BY <1>3 DEF r, T

\* A new track has been seen once.
LEMMA NewTrackFacts ==
  ASSUME support \in [Places -> Nat], NEW ds \in Seq(Dets), NEW j \in DOMAIN ds,
         NEW t, t = NewTrack(ds[j])
  PROVE  t \in Tracked /\ t.age = 0 /\ Supported(t, SupportAfter(ds))
<1> DEFINE d == ds[j]
           state == IF ConfirmHits <= 1 THEN "Active" ELSE "Tentative"
<1>1. d \in Dets /\ d \in BoxType /\ Known(d)
  BY DetsAreBoxes DEF Known
<1>2. ConfirmHits \in Nat /\ ConfirmHits >= 1 /\ Enough \in 1 .. 2
  BY HitsToConfirm
<1>3. SeenAround(d, SupportAfter(ds)) /\ SupportAfter(ds)[PlaceOf(d)] >= 1
  <2>1. SeenAround(d, SupportAfter(ds))
    BY SightedAround
  <2>2. PlaceOf(d) \in Places /\ Lies(d, PlaceOf(d))
    BY <1>1, PlaceFacts
  <2> QED
    BY <2>1, <2>2 DEF SeenAround
<1> HIDE DEF d
<1>4. t = [smooth |-> d, age |-> 0, hits |-> 1, jump |-> None, rival |-> None,
           missed |-> FALSE, state |-> state]
  BY DEF NewTrack, d
<1>5. state \in {"Tentative", "Active", "Shadow"} /\ (state = "Tentative" <=> 1 < ConfirmHits)
  <2>1. CASE ConfirmHits <= 1
    BY <1>2, <2>1
  <2>2. CASE ~(ConfirmHits <= 1)
    BY <1>2, <2>2
  <2> QED
    BY <2>1, <2>2
<1> HIDE DEF state
<1>6. t \in TrackShape
  <2>1. 0 \in Int /\ 1 \in 1 .. ConfirmHits + 1
    BY <1>2
  <2>2. \A x \in Int, h \in 1 .. ConfirmHits + 1 :
          [smooth |-> d, age |-> x, hits |-> h, jump |-> None, rival |-> None,
           missed |-> FALSE, state |-> state] \in TrackShape
    BY <1>1, <1>5 DEF TrackShape
  <2> QED
    BY <1>4, <2>1, <2>2, Zenon
<1>7. t.smooth = d /\ t.age = 0 /\ t.hits = 1 /\ t.rival = None /\ t.state = state
  BY <1>4
<1>8. t \in Tracked
  BY <1>1, <1>5, <1>6, <1>7 DEF Tracked
<1>9. t.hits >= Enough => Enough = 1
  BY <1>2, <1>7
<1> QED
  BY <1>3, <1>7, <1>8, <1>9 DEF Supported, d

\* So tracks and new ones are all supported.
LEMMA CreatedFacts ==
  ASSUME support \in [Places -> Nat], NEW ds \in Seq(Dets), NEW a,
         NEW since \in 0 .. MaxElapsed, NEW quiet \in Nat, NEW thrown \in 0 .. MaxElapsed,
         ds # <<>> => quiet = 0
  PROVE  Created(ds, a) \in Seq(Pending(SupportAfter(ds), since, quiet, thrown))
<1> DEFINE T == Pending(SupportAfter(ds), since, quiet, thrown)
           I == {j \in DOMAIN ds : \A p \in a : p[2] # j}
           unmatched == Sublist(ds, I)
           r == Created(ds, a)
<1>1. r = [k \in DOMAIN unmatched |-> NewTrack(unmatched[k])]
  BY DEF Created
<1>2. I \in SUBSET (DOMAIN ds)
  OBVIOUS
<1>3. unmatched \in Seq(Dets) /\ \A k \in DOMAIN unmatched : \E j \in I : unmatched[k] = ds[j]
  <2> HIDE DEF I
  <2> QED
    BY <1>2, SublistPairs
<1> HIDE DEF I, unmatched, r
<1>4. ASSUME NEW k \in DOMAIN unmatched PROVE r[k] \in T
  <2>1. PICK j \in DOMAIN ds : unmatched[k] = ds[j]
    BY <1>2, <1>3
  <2> DEFINE t == r[k]
  <2>2. t = NewTrack(ds[j])
    BY <1>1, <2>1
  <2> HIDE DEF t
  <2>3. t \in Tracked /\ t.age = 0 /\ Supported(t, SupportAfter(ds))
    BY <2>2, NewTrackFacts
  <2>4. quiet = 0
    OBVIOUS
  <2>5. 0 >= since - MaxElapsed /\ 0 >= quiet - thrown
    <3>1. MaxElapsed \in Nat
      BY TrackerAssumption
    <3>2. since \in Int /\ since <= MaxElapsed /\ thrown \in Int /\ 0 <= thrown
      BY <3>1
    <3> QED
      BY <2>4, <3>1, <3>2
  <2>6. Old(t, since, quiet, thrown)
    BY <2>3, <2>5 DEF Old
  <2> QED
    BY <2>3, <2>6 DEF Pending, t
<1> HIDE DEF T
<1>5. r \in Seq(T)
  BY SMTT(20), <1>1, <1>3, <1>4
<1> QED
  BY <1>5 DEF r, T

-------------------------------------------------------------------------------
(* Snapshots.                                                              *)

SnapshotType == [age : Int, conn : Nat, dets : Seq(BoxType)]

\* Later snapshots are of later connections or younger, and none of connection
\* `conn` lies ahead of the last update.
Ordered(s, conn) ==
  /\ s \in Seq(SnapshotType)
  /\ Len(s) <= MaxSnapshots
  /\ \A i \in DOMAIN s : s[i].conn <= conn /\ (s[i].conn = conn => s[i].age >= 0)
  /\ \A i, j \in DOMAIN s : i < j =>
       s[i].conn <= s[j].conn /\ (s[i].conn = s[j].conn => s[j].age <= s[i].age)

\* The ages of all snapshots move by as much.
LEMMA MovedFacts ==
  ASSUME NEW s, NEW conn \in Nat, Ordered(s, conn), NEW by \in Int,
         NEW r, r = Moved(s, by)
  PROVE  /\ r \in Seq(SnapshotType) /\ Len(r) = Len(s) /\ Len(r) <= MaxSnapshots
         /\ \A i \in DOMAIN r : /\ i \in DOMAIN s
                                /\ r[i].age = s[i].age + by /\ r[i].conn = s[i].conn
                                /\ r[i].dets = s[i].dets
         /\ \A i, j \in DOMAIN r : i < j =>
              r[i].conn <= r[j].conn /\ (r[i].conn = r[j].conn => r[j].age <= r[i].age)
<1>1. s \in Seq(SnapshotType) /\ Len(s) <= MaxSnapshots
  BY DEF Ordered
<1>2. ASSUME NEW i \in DOMAIN s
      PROVE  /\ r[i] \in SnapshotType /\ s[i].age \in Int
             /\ r[i].age = s[i].age + by /\ r[i].conn = s[i].conn /\ r[i].dets = s[i].dets
  <2>1. s[i] \in SnapshotType /\ r[i] = [s[i] EXCEPT !.age = @ + by]
    BY <1>1 DEF Moved
  <2> QED
    BY <2>1 DEF SnapshotType
<1>3. r \in Seq(SnapshotType) /\ DOMAIN r = DOMAIN s /\ Len(r) = Len(s)
  <2>1. DOMAIN s = 1 .. Len(s) /\ Len(s) \in Nat
    BY <1>1
  <2>2. DOMAIN r = DOMAIN s /\ r = [i \in DOMAIN s |-> r[i]]
    BY DEF Moved
  <2> QED
    BY <1>2, <2>1, <2>2
<1>4. ASSUME NEW i \in DOMAIN r, NEW j \in DOMAIN r, i < j
      PROVE  r[i].conn <= r[j].conn /\ (r[i].conn = r[j].conn => r[j].age <= r[i].age)
  <2>1. i \in DOMAIN s /\ j \in DOMAIN s
    BY <1>3
  <2>2. s[i].conn <= s[j].conn /\ (s[i].conn = s[j].conn => s[j].age <= s[i].age)
    BY <1>4, <2>1 DEF Ordered
  <2> QED
    BY <1>2, <2>1, <2>2
<1> QED
  BY <1>1, <1>2, <1>3, <1>4

NewestDets(s) == s[Len(s)].dets

\* The new snapshot comes last, and the first makes room for it.
LEMMA PublishedFacts ==
  ASSUME NEW s, restarts \in Nat, Ordered(s, restarts), NEW step \in Nat,
         NEW ds \in Seq(BoxType),
         NEW r, r = Published(Moved(s, step), ds)
  PROVE  Ordered(r, restarts) /\ r # <<>> /\ NewestDets(r) = ds
<1> DEFINE old == Moved(s, step)
           new == [age |-> 0, conn |-> restarts, dets |-> ds]
           all == Append(old, new)
<1>1. /\ old \in Seq(SnapshotType) /\ Len(old) = Len(s) /\ Len(old) <= MaxSnapshots
      /\ \A i \in DOMAIN old : /\ i \in DOMAIN s
                               /\ old[i].age = s[i].age + step /\ old[i].conn = s[i].conn
                               /\ old[i].dets = s[i].dets
      /\ \A i, j \in DOMAIN old : i < j =>
           old[i].conn <= old[j].conn /\ (old[i].conn = old[j].conn => old[j].age <= old[i].age)
  <2>1. step \in Int
    OBVIOUS
  <2> HIDE DEF old
  <2>2. old = Moved(s, step)
    BY DEF old
  <2> QED
    BY <2>1, <2>2, MovedFacts
<1>2. new \in SnapshotType /\ new.age = 0 /\ new.conn = restarts /\ new.dets = ds
  <2>1. \A x \in Int : [age |-> x, conn |-> restarts, dets |-> ds] \in SnapshotType
    BY DEF SnapshotType
  <2>2. 0 \in Int
    OBVIOUS
  <2>3. new \in SnapshotType
    BY <2>1, <2>2, Zenon
  <2> QED
    BY <2>3
<1>3. \A i \in DOMAIN old : /\ old[i].conn <= restarts /\ old[i].age \in Int
                            /\ (old[i].conn = restarts => old[i].age >= 0)
  <2> SUFFICES ASSUME NEW i \in DOMAIN old
               PROVE  /\ old[i].conn <= restarts /\ old[i].age \in Int
                      /\ (old[i].conn = restarts => old[i].age >= 0)
    OBVIOUS
  <2>1. s[i].conn <= restarts /\ (s[i].conn = restarts => s[i].age >= 0) /\ s[i] \in SnapshotType
    BY <1>1 DEF Ordered
  <2>2. old[i].age = s[i].age + step /\ old[i].conn = s[i].conn
    BY <1>1
  <2>3. s[i].age \in Int
    BY <2>1 DEF SnapshotType
  <2> QED
    BY <2>1, <2>2, <2>3
<1> HIDE DEF new, old
<1>4. /\ all \in Seq(SnapshotType) /\ Len(all) = Len(old) + 1 /\ all[Len(all)] = new
      /\ DOMAIN all = 1 .. Len(old) + 1 /\ DOMAIN old = 1 .. Len(old) /\ Len(old) \in Nat
      /\ \A i \in DOMAIN old : all[i] = old[i]
  BY <1>1, <1>2
<1> HIDE DEF all
<1>5. \A i \in DOMAIN all : all[i].conn <= restarts /\ (all[i].conn = restarts => all[i].age >= 0)
  <2> SUFFICES ASSUME NEW i \in DOMAIN all
               PROVE  all[i].conn <= restarts /\ (all[i].conn = restarts => all[i].age >= 0)
    OBVIOUS
  <2>1. CASE i \in DOMAIN old
    BY <1>3, <1>4, <2>1
  <2>2. CASE i \notin DOMAIN old
    <3>1. all[i] = new
      BY <1>4, <2>2
    <3> QED
      BY <1>2, <3>1
  <2> QED
    BY <2>1, <2>2
<1>6. ASSUME NEW i \in DOMAIN all, NEW j \in DOMAIN all, i < j
      PROVE  all[i].conn <= all[j].conn /\ (all[i].conn = all[j].conn => all[j].age <= all[i].age)
  <2>1. i \in DOMAIN old
    BY <1>4, <1>6
  <2>2. CASE j \in DOMAIN old
    BY <1>1, <1>4, <1>6, <2>1, <2>2
  <2>3. CASE j \notin DOMAIN old
    <3>1. all[j] = new
      BY <1>4, <2>3
    <3> QED
      BY <1>2, <1>3, <1>4, <2>1, <3>1
  <2> QED
    BY <2>2, <2>3
<1>7. MaxSnapshots \in Nat /\ MaxSnapshots >= 1
  BY TrackerAssumption
<1>8. CASE Len(all) > MaxSnapshots
  <2>1. r = Tail(all)
    BY <1>8 DEF Published, all, new, old
  <2>2. /\ r \in Seq(SnapshotType) /\ Len(r) = Len(old) /\ DOMAIN r = 1 .. Len(old) /\ Len(old) >= 1
        /\ \A i \in DOMAIN r : r[i] = all[i + 1] /\ i + 1 \in DOMAIN all
    <3>1. Len(old) >= 1 /\ all # <<>>
      BY <1>4, <1>7, <1>8
    <3>2. r \in Seq(SnapshotType) /\ Len(r) = Len(all) - 1 /\ \A i \in 1 .. Len(r) : r[i] = all[i + 1]
      BY <1>4, <2>1, <3>1
    <3>3. Len(r) = Len(old)
      BY <1>4, <3>2
    <3>4. DOMAIN r = 1 .. Len(r)
      BY <3>2
    <3>5. \A i \in 1 .. Len(old) : i + 1 \in 1 .. Len(old) + 1
      BY <1>4
    <3> QED
      BY <1>4, <3>1, <3>2, <3>3, <3>4, <3>5
  <2>3. \A i \in DOMAIN r : r[i].conn <= restarts /\ (r[i].conn = restarts => r[i].age >= 0)
    BY <1>5, <2>2
  <2>4. ASSUME NEW i \in DOMAIN r, NEW j \in DOMAIN r, i < j
        PROVE  r[i].conn <= r[j].conn /\ (r[i].conn = r[j].conn => r[j].age <= r[i].age)
    <3>1. i + 1 \in DOMAIN all /\ j + 1 \in DOMAIN all /\ i + 1 < j + 1
      BY <1>4, <2>2, <2>4
    <3>2. r[i] = all[i + 1] /\ r[j] = all[j + 1]
      BY <2>2
    <3> QED
      BY <1>6, <3>1, <3>2
  <2>5. r[Len(r)] = new /\ r # <<>>
    BY <1>4, <2>2
  <2> QED
    BY <1>1, <1>2, <2>2, <2>3, <2>4, <2>5 DEF Ordered, NewestDets
<1>9. CASE ~(Len(all) > MaxSnapshots)
  <2>1. r = all
    BY <1>9 DEF Published, all, new, old
  <2>2. r # <<>> /\ Len(r) <= MaxSnapshots
    BY <1>4, <1>7, <1>9, <2>1
  <2> QED
    BY <1>2, <1>4, <1>5, <1>6, <2>1, <2>2 DEF Ordered, NewestDets
<1> QED
  BY <1>8, <1>9

\* Some position of a list is the last of those chosen.
LEMMA LastOf ==
  ASSUME NEW n \in Nat, NEW I \in SUBSET (1 .. n), I # {}
  PROVE  \E i \in I : \A j \in I : j <= i
<1>1. /\ Cardinality(I) \in Nat
      /\ \A i \in I : Rank(I, i) \in 1 .. Cardinality(I)
      /\ \A i, j \in I : i < j => Rank(I, i) < Rank(I, j)
      /\ \A k \in 1 .. Cardinality(I) : \E i \in I : Rank(I, i) = k
  BY RankFacts
<1>2. Cardinality(I) \in 1 .. Cardinality(I)
  <2>1. PICK i \in I : TRUE
    OBVIOUS
  <2>2. Rank(I, i) \in 1 .. Cardinality(I)
    BY <1>1
  <2> DEFINE m == Cardinality(I)
  <2>3. m \in Nat /\ 1 .. m # {}
    BY <1>1, <2>2
  <2> HIDE DEF m
  <2>4. m \in 1 .. m
    BY <2>3
  <2> QED
    BY <2>4 DEF m
<1>3. PICK i \in I : Rank(I, i) = Cardinality(I)
  BY <1>1, <1>2
<1>4. ASSUME NEW j \in I PROVE j <= i
  <2>1. i \in Int /\ j \in Int
    OBVIOUS
  <2>2. ASSUME i < j PROVE FALSE
    <3>1. Rank(I, i) < Rank(I, j) /\ Rank(I, j) \in 1 .. Cardinality(I)
      BY <1>1, <2>2
    <3> QED
      BY <1>1, <1>3, <3>1
  <2> QED
    BY <2>1, <2>2
<1> QED
  BY <1>4

-------------------------------------------------------------------------------
(* The invariant.                                                          *)

Thrown == IF restarts > 0 THEN MaxElapsed ELSE 0

SceneType == [dets : SUBSET Dets, again : BOOLEAN, quiet : Nat]

IndInv ==
  /\ tracks \in Seq(Kept(support, elapsed, scene.quiet, Thrown))
  /\ \A i, j \in DOMAIN tracks : i # j => ~Duplicates(tracks[i].smooth, tracks[j].smooth)
  /\ Ordered(snapshots, restarts)
  /\ elapsed \in 0 .. MaxElapsed
  /\ restarts \in Nat
  /\ scene \in SceneType
  /\ support \in [Places -> Nat]
  /\ DrawnIsConfirmed
  /\ GhostsVanish

\* What is drawn of the tracks kept has been seen often enough, and is nothing after
\* a quiet time that is long enough.
LEMMA DrawableFacts ==
  ASSUME NEW sup \in [Places -> Nat], NEW since \in Int, NEW quiet \in Int, NEW thrown \in Int,
         NEW ts \in Seq(Kept(sup, since, quiet, thrown)),
         NEW r, r = Drawable(ts)
  PROVE  /\ r \in Seq(BoxType)
         /\ \A k \in DOMAIN r : sup[PlaceOf(r[k])] >= Enough
         /\ quiet > Hold + thrown => r = <<>>
<1> DEFINE S == Kept(sup, since, quiet, thrown)
           shown == Shown(ts, 0)
<1>1. \A t \in S : t.smooth \in BoxType
  BY TrackedFields DEF Kept
<1>2. /\ shown \in Seq(BoxType)
      /\ \A k \in DOMAIN shown : \E i \in DOMAIN ts : shown[k] = ts[i].smooth /\ Displayable(ts[i], 0)
  <2> HIDE DEF S
  <2>1. ts \in Seq(S)
    BY DEF S
  <2> QED
    BY <1>1, <2>1, ShownFacts
<1>3. r = DisplayDeduplicated(shown)
  BY DEF Drawable
<1> HIDE DEF shown
<1>4. r \in Seq(BoxType) /\ \A k \in DOMAIN r : \E i \in DOMAIN shown : r[k] = shown[i]
  <2>1. \A d \in BoxType : d \in BoxType
    OBVIOUS
  <2> QED
    BY <1>2, <1>3, <2>1, DisplayedApart
<1>5. ASSUME NEW k \in DOMAIN r
      PROVE  sup[PlaceOf(r[k])] >= Enough /\ ~(quiet > Hold + thrown)
  <2>1. PICK i \in DOMAIN ts : r[k] = ts[i].smooth /\ Displayable(ts[i], 0)
    BY <1>2, <1>4
  <2> DEFINE t == ts[i]
  <2>2. t \in S
    OBVIOUS
  <2> HIDE DEF t
  <2>3. t \in Tracked /\ Old(t, since, quiet, thrown) /\ Supported(t, sup)
    BY <2>2 DEF Kept
  <2>4. t.age \in Int /\ t.hits \in 1 .. ConfirmHits + 1 /\ Known(t.smooth)
    BY <2>3, TrackedFields
  <2>6. t.hits >= ConfirmHits /\ t.age + 0 <= Hold
    BY <2>1 DEF Displayable, t
  <2>7. Enough \in 1 .. 2 /\ Enough <= ConfirmHits /\ ConfirmHits \in Nat /\ Hold \in Nat
    BY HitsToConfirm, TrackerAssumption
  <2>9. sup[PlaceOf(t.smooth)] >= Enough
    <3>1. t.hits >= Enough
      BY <2>4, <2>6, <2>7
    <3> QED
      BY <2>3, <3>1 DEF Supported
  <2>10. ~(quiet > Hold + thrown)
    BY <2>3, <2>4, <2>6, <2>7 DEF Old
  <2> QED
    BY <2>1, <2>9, <2>10 DEF t
<1>6. ASSUME quiet > Hold + thrown PROVE r = <<>>
  BY <1>4, <1>5, <1>6
<1> QED
  BY <1>4, <1>5, <1>6

\* No track, no snapshot at first.
LEMMA InitHolds == Init => IndInv
<1> SUFFICES ASSUME Init PROVE IndInv
  OBVIOUS
<1> USE DEF Init
<1>1. tracks \in Seq(Kept(support, elapsed, scene.quiet, Thrown))
  OBVIOUS
<1>2. Ordered(snapshots, restarts)
  BY TrackerAssumption DEF Ordered
<1>3. scene \in SceneType /\ scene.quiet = 0
  BY DEF SceneType
<1>4. support \in [Places -> Nat]
  OBVIOUS
<1>5. elapsed \in 0 .. MaxElapsed /\ restarts \in Nat
  BY TrackerAssumption
<1>6. Latest = <<>>
  BY DEF Latest
<1>7. DrawnIsConfirmed /\ GhostsVanish
  BY <1>6 DEF DrawnIsConfirmed, GhostsVanish
<1> QED
  BY <1>1, <1>2, <1>3, <1>4, <1>5, <1>7 DEF IndInv

\* The quiet time grows with the time or ends.
LEMMA SceneFacts ==
  ASSUME scene \in SceneType, restarts \in Nat, NEW step \in Nat, NEW ds \in Seq(Dets),
         NEW r, r = SceneAfter(step, ds)
  PROVE  r \in SceneType /\ r.quiet <= scene.quiet + step /\ (ds # <<>> => r.quiet = 0)
<1> DEFINE now == {ds[j] : j \in DOMAIN ds}
           again == (now = scene.dets)
           quiet == IF now = {} THEN Smaller(scene.quiet + step, GhostTime + 1) ELSE 0
<1>1. r = [dets |-> now, again |-> again, quiet |-> quiet]
  BY DEF SceneAfter
<1>2. scene.quiet \in Nat /\ GhostTime \in Nat
  BY SMTT(20), TrackerAssumption DEF SceneType, GhostTime
<1>3. now \in SUBSET Dets /\ (ds # <<>> => now # {})
  <2>1. \A j \in DOMAIN ds : ds[j] \in Dets /\ ds[j] \in now
    OBVIOUS
  <2>2. now \in SUBSET Dets
    OBVIOUS
  <2>3. ds # <<>> => 1 \in DOMAIN ds
    OBVIOUS
  <2> HIDE DEF now
  <2> QED
    BY <2>1, <2>2, <2>3
<1> HIDE DEF now
<1>4. again \in BOOLEAN
  OBVIOUS
<1>5. quiet \in Nat /\ quiet <= scene.quiet + step /\ (ds # <<>> => quiet = 0)
  BY <1>2, <1>3 DEF Smaller
<1> HIDE DEF again, quiet
<1>6. r.quiet = quiet /\ r \in SceneType
  BY <1>1, <1>3, <1>4, <1>5 DEF SceneType
<1> QED
  BY <1>5, <1>6

\* An update keeps the invariant, whatever was detected.
LEMMA UpdateKeepsIndInv ==
  ASSUME IndInv, NEW step \in Steps, NEW ds \in Seq(Dets), Update(step, ds)
  PROVE  IndInv' /\ Latest' = Drawable(tracks')
<1> DEFINE aged == Moved(tracks, step)
           since == Smaller(elapsed + step, MaxElapsed)
           sup == SupportAfter(ds)
           after == SceneAfter(step, ds)
           quiet == after.quiet
           thrown == Thrown
<1>1. /\ tracks \in Seq(Kept(support, elapsed, scene.quiet, Thrown))
      /\ Ordered(snapshots, restarts)
      /\ elapsed \in 0 .. MaxElapsed /\ restarts \in Nat
      /\ scene \in SceneType /\ support \in [Places -> Nat]
  BY DEF IndInv
<1>2. step \in Nat /\ MaxElapsed \in Nat /\ Hold \in Nat
  BY TrackerAssumption
<1>3. thrown \in 0 .. MaxElapsed
  BY <1>2 DEF Thrown
<1>4. PICK a \in Associations(tracks, ds) : \E stay \in SUBSET Filterable(a, ds) :
        \E secondHasMore \in {FALSE, ManyHits(Updated(aged, ds, a, stay))} :
          /\ tracks' = Settled(Updated(aged, ds, a, stay) \o Created(ds, a), secondHasMore)
          /\ snapshots' = Published(Moved(snapshots, step), Drawable(tracks'))
          /\ elapsed' = since
          /\ scene' = after
          /\ support' = sup
          /\ UNCHANGED restarts
  BY DEF Update, Moved
<1>5. PICK stay, secondHasMore :
          /\ tracks' = Settled(Updated(aged, ds, a, stay) \o Created(ds, a), secondHasMore)
          /\ snapshots' = Published(Moved(snapshots, step), Drawable(tracks'))
          /\ elapsed' = since
          /\ scene' = after
          /\ support' = sup
          /\ restarts' = restarts
  BY <1>4
<1>6. after \in SceneType /\ quiet <= scene.quiet + step /\ (ds # <<>> => quiet = 0)
  <2> HIDE DEF after
  <2> QED
    BY <1>1, <1>2, SceneFacts DEF after
<1>7. quiet \in Nat /\ scene.quiet \in Nat
  BY <1>1, <1>6 DEF SceneType
<1>8. since \in 0 .. MaxElapsed /\ since <= elapsed + step
  BY <1>1, <1>2 DEF Smaller
<1>9. sup \in [Places -> Nat]
  BY <1>1, SupportType
<1> DEFINE updated == Updated(aged, ds, a, stay)
           created == Created(ds, a)
           P == Pending(sup, since, quiet, thrown)
           K == Kept(sup, since, quiet, thrown)
<1>10. updated \in Seq(P)
  <2>1. elapsed \in Nat
    BY <1>1
  <2>2. tracks \in Seq(Kept(support, elapsed, scene.quiet, thrown))
    BY <1>1
  <2> DEFINE was == scene.quiet
  <2>3. was \in Nat /\ quiet <= was + step /\ tracks \in Seq(Kept(support, elapsed, was, thrown))
    BY <1>6, <1>7, <2>2
  <2> HIDE DEF since, quiet, thrown, was
  <2>4. support \in [Places -> Nat] /\ step \in Nat
    BY <1>1, <1>2
  <2>5. since \in 0 .. MaxElapsed /\ since <= elapsed + step /\ quiet \in Nat
        /\ (ds # <<>> => quiet = 0)
    BY <1>6, <1>7, <1>8
  <2> QED
    BY <1>3, <2>1, <2>3, <2>4, <2>5, UpdatedFacts
<1>11. created \in Seq(P)
  <2> HIDE DEF since, quiet, thrown
  <2> QED
    BY <1>1, <1>3, <1>6, <1>7, <1>8, CreatedFacts
<1> HIDE DEF P, K, updated, created, sup, since, quiet, thrown, after
<1>12. tracks' \in Seq(K) /\ \A k, l \in DOMAIN tracks' : k # l => ~Duplicates(tracks'[k].smooth, tracks'[l].smooth)
  <2>1. updated \o created \in Seq(P)
    BY <1>10, <1>11
  <2>2. tracks' = Settled(updated \o created, secondHasMore)
    BY <1>5 DEF updated, created
  <2> QED
    BY <2>1, <2>2, SettledFacts DEF P, K
<1>13. /\ Drawable(tracks') \in Seq(BoxType)
       /\ \A k \in DOMAIN Drawable(tracks') : sup[PlaceOf(Drawable(tracks')[k])] >= Enough
       /\ quiet > Hold + thrown => Drawable(tracks') = <<>>
  <2>1. since \in Int /\ quiet \in Int /\ thrown \in Int
    BY <1>2, <1>3, <1>7, <1>8
  <2> QED
    BY <1>9, <1>12, <2>1, DrawableFacts DEF K
<1>14. Ordered(snapshots', restarts) /\ snapshots' # <<>> /\ snapshots'[Len(snapshots')].dets = Drawable(tracks')
  <2> DEFINE drawn == Drawable(tracks')
             new == snapshots'
  <2>1. drawn \in Seq(BoxType) /\ new = Published(Moved(snapshots, step), drawn)
    BY <1>5, <1>13
  <2> HIDE DEF drawn, new
  <2>2. restarts \in Nat /\ Ordered(snapshots, restarts) /\ step \in Nat
    BY <1>1, <1>2
  <2>3. Ordered(new, restarts)
    BY <2>1, <2>2, PublishedFacts
  <2>4. new # <<>>
    BY <2>1, <2>2, PublishedFacts
  <2>5. new[Len(new)].dets = drawn
    <3>1. NewestDets(new) = drawn
      BY <2>1, <2>2, PublishedFacts
    <3> QED
      BY <3>1 DEF NewestDets
  <2> QED
    BY <2>3, <2>4, <2>5 DEF drawn, new
<1>15. Latest' = Drawable(tracks')
  BY <1>14 DEF Latest, Last
<1>16. thrown' = thrown /\ GhostTime' = Hold + thrown
  BY <1>5 DEF thrown, Thrown, GhostTime
<1>17. scene' \in SceneType /\ scene'.quiet = quiet
  BY <1>5, <1>6 DEF quiet
<1>18. DrawnIsConfirmed'
  BY <1>5, <1>13, <1>15 DEF DrawnIsConfirmed
<1>19. GhostsVanish'
  BY <1>13, <1>15, <1>16, <1>17 DEF GhostsVanish
<1>20. (tracks \in Seq(Kept(support, elapsed, scene.quiet, Thrown)))'
  BY <1>5, <1>12, <1>16, <1>17 DEF K, thrown
<1>21. IndInv'
  BY <1>1, <1>5, <1>8, <1>9, <1>12, <1>14, <1>17, <1>18, <1>19, <1>20 DEF IndInv
<1> QED
  BY <1>15, <1>21

\* So does a restart of the timestamps.
LEMMA RestartKeepsIndInv ==
  ASSUME IndInv, Restart
  PROVE  IndInv' /\ Latest' = Latest
<1>1. /\ tracks \in Seq(Kept(support, elapsed, scene.quiet, Thrown))
      /\ \A i, j \in DOMAIN tracks : i # j => ~Duplicates(tracks[i].smooth, tracks[j].smooth)
      /\ Ordered(snapshots, restarts)
      /\ elapsed \in 0 .. MaxElapsed /\ restarts \in Nat
      /\ scene \in SceneType /\ support \in [Places -> Nat]
      /\ DrawnIsConfirmed
  BY DEF IndInv
<1>2. /\ tracks' = [i \in DOMAIN tracks |-> [tracks[i] EXCEPT !.age = @ - elapsed]]
      /\ snapshots' = [i \in DOMAIN snapshots |-> [snapshots[i] EXCEPT !.age = @ - elapsed]]
      /\ elapsed' = 0 /\ restarts' = restarts + 1
      /\ scene' = [scene EXCEPT !.quiet = 0]
      /\ support' = support
  BY DEF Restart
<1>3. MaxElapsed \in Nat /\ Hold \in Nat /\ elapsed \in Nat /\ Ttl \in Nat
  BY <1>1, TrackerAssumption
<1>4. Thrown' = MaxElapsed /\ restarts' \in Nat
  BY <1>1, <1>2 DEF Thrown
<1>5. scene' \in SceneType /\ scene'.quiet = 0
  BY <1>1, <1>2 DEF SceneType
<1>6. ASSUME NEW i \in DOMAIN tracks
      PROVE  tracks'[i] \in Kept(support, 0, 0, MaxElapsed) /\ tracks'[i].smooth = tracks[i].smooth
  <2> DEFINE t == tracks[i]
             u == tracks'[i]
  <2>1. t \in Kept(support, elapsed, scene.quiet, Thrown)
    BY <1>1
  <2>2. u = [t EXCEPT !.age = @ - elapsed]
    BY <1>2
  <2> HIDE DEF t, u
  <2>3. t \in Tracked /\ t.age <= Ttl /\ Old(t, elapsed, scene.quiet, Thrown) /\ Supported(t, support)
    BY <2>1 DEF Kept
  <2>4. t \in TrackShape
    BY <2>3 DEF Tracked
  <2>5. /\ u \in TrackShape /\ u.age = t.age - elapsed /\ u.smooth = t.smooth /\ t.age \in Int
        /\ u.hits = t.hits /\ u.rival = t.rival /\ u.state = t.state
    BY <1>3, <2>2, <2>4 DEF TrackShape
  <2>6. u \in Tracked
    BY <2>3, <2>5 DEF Tracked
  <2>7. t.age >= elapsed - MaxElapsed
    BY <2>3 DEF Old
  <2>8. u.age <= Ttl /\ u.age >= 0 - MaxElapsed
    BY <1>3, <2>3, <2>5, <2>7
  <2>9. Supported(u, support)
    BY <2>3, <2>5 DEF Supported
  <2> QED
    BY <2>5, <2>6, <2>8, <2>9 DEF Kept, Old, t, u
<1>7. DOMAIN tracks' = DOMAIN tracks /\ tracks' \in Seq(Kept(support, 0, 0, MaxElapsed))
  <2>1. DOMAIN tracks = 1 .. Len(tracks) /\ Len(tracks) \in Nat
    BY <1>1
  <2>2. DOMAIN tracks' = DOMAIN tracks /\ tracks' = [i \in DOMAIN tracks |-> tracks'[i]]
    BY <1>2
  <2> QED
    BY <1>6, <2>1, <2>2
<1>8. /\ (tracks \in Seq(Kept(support, elapsed, scene.quiet, Thrown)))'
      /\ (\A i, j \in DOMAIN tracks : i # j => ~Duplicates(tracks[i].smooth, tracks[j].smooth))'
  BY SMTT(20), <1>1, <1>2, <1>4, <1>5, <1>6, <1>7
<1>9. /\ snapshots' \in Seq(SnapshotType) /\ Len(snapshots') = Len(snapshots) /\ Len(snapshots') <= MaxSnapshots
      /\ \A i \in DOMAIN snapshots' : /\ i \in DOMAIN snapshots
                                      /\ snapshots'[i].conn = snapshots[i].conn
                                      /\ snapshots'[i].dets = snapshots[i].dets
      /\ \A i, j \in DOMAIN snapshots' : i < j =>
           snapshots'[i].conn <= snapshots'[j].conn
             /\ (snapshots'[i].conn = snapshots'[j].conn => snapshots'[j].age <= snapshots'[i].age)
  <2> DEFINE by == -elapsed
  <2>1. by \in Int
    BY <1>3
  <2>2. snapshots' = Moved(snapshots, by)
    <3>1. ASSUME NEW i \in DOMAIN snapshots
          PROVE  [snapshots[i] EXCEPT !.age = @ - elapsed] = [snapshots[i] EXCEPT !.age = @ + by]
      <4>1. snapshots[i] \in SnapshotType
        BY <1>1 DEF Ordered
      <4>2. snapshots[i].age \in Int
        BY <4>1 DEF SnapshotType
      <4>3. snapshots[i].age - elapsed = snapshots[i].age + by
        BY <1>3, <4>2
      <4> HIDE DEF by
      <4> QED
        BY <4>3
    <3> HIDE DEF by
    <3> QED
      BY <1>2, <3>1 DEF Moved
  <2> HIDE DEF by
  <2> QED
    BY <1>1, <2>1, <2>2, MovedFacts
<1>10. Ordered(snapshots', restarts')
  <2>1. \A i \in DOMAIN snapshots' :
          snapshots'[i].conn <= restarts' /\ (snapshots'[i].conn = restarts' => snapshots'[i].age >= 0)
    <3> SUFFICES ASSUME NEW i \in DOMAIN snapshots' PROVE snapshots'[i].conn \in Int /\ snapshots'[i].conn < restarts'
      BY <1>4
    <3>1. i \in DOMAIN snapshots /\ snapshots'[i].conn = snapshots[i].conn
      BY <1>9
    <3>2. snapshots[i].conn <= restarts /\ snapshots[i] \in SnapshotType
      BY <1>1, <3>1 DEF Ordered
    <3>3. snapshots[i].conn \in Int
      BY <3>2 DEF SnapshotType
    <3> QED
      BY <1>1, <1>2, <3>1, <3>2, <3>3
  <2> QED
    BY <1>9, <2>1 DEF Ordered
<1>11. Latest' = Latest
  <2>1. CASE snapshots = <<>>
    <3>1. snapshots' = <<>>
      BY <1>9, <2>1
    <3> QED
      BY <2>1, <3>1 DEF Latest
  <2>2. CASE snapshots # <<>>
    <3>1. snapshots \in Seq(SnapshotType)
      BY <1>1 DEF Ordered
    <3>2. snapshots' # <<>> /\ Len(snapshots') \in DOMAIN snapshots'
      BY <1>9, <2>2, <3>1
    <3> QED
      BY <1>9, <2>2, <3>2 DEF Latest, Last
  <2> QED
    BY <2>1, <2>2
<1>12. DrawnIsConfirmed'
  BY <1>1, <1>2, <1>11 DEF DrawnIsConfirmed
<1>13. GhostsVanish'
  <2>1. GhostTime' \in Nat
    BY <1>3, <1>4 DEF GhostTime, Thrown
  <2> QED
    BY <1>5, <2>1 DEF GhostsVanish
<1>14. elapsed' \in 0 .. MaxElapsed /\ support' \in [Places -> Nat]
  BY <1>1, <1>2, <1>3
<1>15. IndInv'
  BY <1>4, <1>5, <1>8, <1>10, <1>12, <1>13, <1>14 DEF IndInv
<1> QED
  BY <1>11, <1>15

\* Every step keeps it.
LEMMA NextKeepsIndInv == IndInv /\ [Next]_vars => IndInv'
<1> SUFFICES ASSUME IndInv, [Next]_vars PROVE IndInv'
  OBVIOUS
<1>1. CASE Inferred
  <2>1. PICK step \in Steps, ds \in SeqOf(Dets, MaxDets) : Update(step, ds)
    BY <1>1 DEF Inferred
  <2>2. ds \in Seq(Dets)
    BY <2>1 DEF SeqOf
  <2> QED
    BY <2>1, <2>2, UpdateKeepsIndInv
<1>2. CASE Restart
  BY <1>2, RestartKeepsIndInv
<1>3. CASE UNCHANGED vars
  BY <1>3 DEF vars, IndInv, DrawnIsConfirmed, GhostsVanish, GhostTime, Latest, Thrown
<1> QED
  BY <1>1, <1>2, <1>3 DEF Next

\* The invariant has the types in it,
LEMMA TypeFollows == IndInv => TypeOK
<1> SUFFICES ASSUME IndInv PROVE TypeOK
  OBVIOUS
<1>1. MaxElapsed \in Nat /\ Ttl \in Nat /\ elapsed \in Nat /\ restarts \in Nat
  BY TrackerAssumption DEF IndInv
<1>2. ASSUME NEW i \in DOMAIN tracks
      PROVE  tracks[i] \in TrackType /\ (tracks[i].state = "Tentative" <=> tracks[i].hits < ConfirmHits)
  <2> DEFINE t == tracks[i]
  <2>1. t \in Kept(support, elapsed, scene.quiet, Thrown)
    BY DEF IndInv
  <2> HIDE DEF t
  <2>2. t \in Tracked /\ t.age <= Ttl /\ t.age >= elapsed - MaxElapsed
    BY <2>1 DEF Kept, Old
  <2>3. t \in TrackShape /\ (t.state = "Tentative" <=> t.hits < ConfirmHits)
    BY <2>2 DEF Tracked
  <2>4. t.age \in -MaxElapsed .. Ttl
    <3>1. t.age \in Int
      BY <2>3 DEF TrackShape
    <3> QED
      BY <1>1, <2>2, <3>1
  <2>5. t \in TrackType
    BY <2>3, <2>4 DEF TrackShape, TrackType, BoxType
  <2> QED
    BY <2>3, <2>5 DEF t
<1>3. ASSUME NEW i \in DOMAIN snapshots PROVE snapshots[i].conn \in 0 .. restarts
  <2>1. snapshots[i] \in SnapshotType /\ snapshots[i].conn <= restarts
    BY DEF IndInv, Ordered
  <2>2. snapshots[i].conn \in Nat
    BY <2>1 DEF SnapshotType
  <2> QED
    BY <1>1, <2>1, <2>2
<1>4. Len(snapshots) <= MaxSnapshots
  BY DEF IndInv, Ordered
<1> QED
  BY <1>2, <1>3, <1>4 DEF TypeOK

\* The snapshot drawn is the last of those that are due.
LEMMA AlignedFacts ==
  ASSUME IndInv, NEW later, NEW i, i = AlignedSnapshot(later)
  PROVE  LET due == {j \in DOMAIN snapshots : -snapshots[j].age <= later} IN
         /\ due = {} => i = 0
         /\ due # {} => i \in due /\ \A j \in due : j <= i
<1> DEFINE due == {j \in DOMAIN snapshots : -snapshots[j].age <= later}
<1>1. i = IF due = {} THEN 0 ELSE CHOOSE k \in due : \A j \in due : j <= k
  BY DEF AlignedSnapshot
<1>2. Len(snapshots) \in Nat /\ due \in SUBSET (1 .. Len(snapshots))
  BY DEF IndInv, Ordered
<1> HIDE DEF due
<1>3. due # {} => \E k \in due : \A j \in due : j <= k
  BY <1>2, LastOf
<1>4. due # {} => i \in due /\ \A j \in due : j <= i
  <2> SUFFICES ASSUME due # {} PROVE i \in due /\ \A j \in due : j <= i
    OBVIOUS
  <2>1. i = CHOOSE k \in due : \A j \in due : j <= k
    BY <1>1
  <2> QED
    BY <1>3, <2>1
<1> QED
  BY <1>1, <1>4 DEF due

\* no two boxes of one object,
LEMMA OneBoxFollows == IndInv => OneBoxPerObject
<1> SUFFICES ASSUME IndInv, NEW later \in FrameTimes
             PROVE  /\ \A i, j \in DOMAIN GetForPtsAligned(later) :
                         i # j => ~Duplicates(GetForPtsAligned(later)[i], GetForPtsAligned(later)[j])
                    /\ \A i, j \in DOMAIN GetForPtsLive(later) :
                         i # j => ~Duplicates(GetForPtsLive(later)[i], GetForPtsLive(later)[j])
  BY DEF OneBoxPerObject
<1>1. ASSUME NEW i \in DOMAIN GetForPtsAligned(later), NEW j \in DOMAIN GetForPtsAligned(later), i # j
      PROVE  ~Duplicates(GetForPtsAligned(later)[i], GetForPtsAligned(later)[j])
  <2> DEFINE at == AlignedSnapshot(later)
             ds == snapshots[at].dets
             r == DisplayDeduplicated(ds)
  <2>1. at # 0
    BY <1>1 DEF GetForPtsAligned
  <2>2. at \in DOMAIN snapshots
    BY <2>1, AlignedFacts
  <2>3. snapshots[at] \in SnapshotType
    BY <2>2 DEF IndInv, Ordered
  <2>4. ds \in Seq(BoxType)
    BY <2>3 DEF SnapshotType
  <2>5. GetForPtsAligned(later) = r
    BY <2>1 DEF GetForPtsAligned
  <2> HIDE DEF ds
  <2>6. \A k, l \in DOMAIN r : k # l => ~Duplicates(r[k], r[l])
    <3>1. \A d \in BoxType : d \in BoxType
      OBVIOUS
    <3> QED
      BY <2>4, <3>1, DisplayedApart
  <2> HIDE DEF r
  <2> QED
    BY <1>1, <2>5, <2>6
<1>2. ASSUME NEW i \in DOMAIN GetForPtsLive(later), NEW j \in DOMAIN GetForPtsLive(later), i # j
      PROVE  ~Duplicates(GetForPtsLive(later)[i], GetForPtsLive(later)[j])
  <2> DEFINE S == Kept(support, elapsed, scene.quiet, Thrown)
             r == Shown(tracks, later)
  <2>1. tracks \in Seq(S) /\ \A k, l \in DOMAIN tracks : k # l => ~Duplicates(tracks[k].smooth, tracks[l].smooth)
    BY DEF IndInv
  <2>2. \A t \in S : t.smooth \in BoxType
    BY TrackedFields DEF Kept
  <2>3. GetForPtsLive(later) = r
    BY DEF GetForPtsLive
  <2> HIDE DEF S
  <2>4. /\ r \in Seq(BoxType)
        /\ \A k, l \in DOMAIN r : k < l =>
             \E x, y \in DOMAIN tracks : x < y /\ r[k] = tracks[x].smooth /\ r[l] = tracks[y].smooth
    BY <2>1, <2>2, ShownFacts
  <2> HIDE DEF r
  <2>5. DOMAIN tracks \subseteq Int /\ DOMAIN r \subseteq Int
    BY <2>1, <2>4
  <2>6. \A k, l \in DOMAIN r : k < l => ~Duplicates(r[k], r[l]) /\ ~Duplicates(r[l], r[k])
    <3> SUFFICES ASSUME NEW k \in DOMAIN r, NEW l \in DOMAIN r, k < l
                 PROVE  ~Duplicates(r[k], r[l]) /\ ~Duplicates(r[l], r[k])
      OBVIOUS
    <3>1. PICK x \in DOMAIN tracks, y \in DOMAIN tracks :
            x < y /\ r[k] = tracks[x].smooth /\ r[l] = tracks[y].smooth
      BY <2>4
    <3>2. x # y
      BY <2>5, <3>1
    <3> QED
      BY <2>1, <3>1, <3>2
  <2> QED
    BY <1>2, <2>3, <2>5, <2>6
<1> QED
  BY <1>1, <1>2

\* and the order of the snapshots by connections.
LEMMA ConnectionFollows == IndInv => FrameGetsItsConnectionsBoxes
<1> SUFFICES ASSUME IndInv, NEW later \in FrameTimes,
                    NEW o \in DOMAIN snapshots, snapshots[o].conn = restarts, -snapshots[o].age <= later,
                    NEW i, i = AlignedSnapshot(later)
             PROVE  /\ i \in DOMAIN snapshots /\ snapshots[i].conn = restarts /\ -snapshots[i].age <= later
                    /\ \A j \in DOMAIN snapshots :
                         snapshots[j].conn = restarts /\ -snapshots[j].age <= later =>
                           snapshots[i].age <= snapshots[j].age
  BY DEF FrameGetsItsConnectionsBoxes
<1>1. /\ \A j \in DOMAIN snapshots : snapshots[j].conn <= restarts /\ snapshots[j] \in SnapshotType /\ j \in Int
      /\ \A j, k \in DOMAIN snapshots : j < k =>
           snapshots[j].conn <= snapshots[k].conn
             /\ (snapshots[j].conn = snapshots[k].conn => snapshots[k].age <= snapshots[j].age)
      /\ restarts \in Nat
  BY DEF IndInv, Ordered
<1>2. \A j \in DOMAIN snapshots : snapshots[j].conn \in Nat /\ snapshots[j].age \in Int
  BY <1>1 DEF SnapshotType
<1>3. /\ i \in DOMAIN snapshots /\ -snapshots[i].age <= later
      /\ \A j \in DOMAIN snapshots : -snapshots[j].age <= later => j <= i
  BY AlignedFacts
<1>4. snapshots[i].conn = restarts
  <2>1. o <= i
    BY <1>3
  <2>2. CASE o = i
    BY <2>2
  <2>3. CASE o < i
    BY <1>1, <1>2, <1>3, <2>3
  <2> QED
    BY <1>1, <1>3, <2>1, <2>2, <2>3
<1>5. ASSUME NEW j \in DOMAIN snapshots, snapshots[j].conn = restarts, -snapshots[j].age <= later
      PROVE  snapshots[i].age <= snapshots[j].age
  <2>1. j <= i
    BY <1>3, <1>5
  <2>2. CASE j = i
    BY <1>2, <1>3, <2>2
  <2>3. CASE j < i
    BY <1>1, <1>3, <1>4, <1>5, <2>3
  <2> QED
    BY <1>1, <1>3, <2>1, <2>2, <2>3
<1> QED
  BY <1>3, <1>4, <1>5

-------------------------------------------------------------------------------
(* The theorems.                                                           *)

\* The inductive invariant holds throughout.
THEOREM Invariance == Spec => []IndInv
<1>1. Init => IndInv
  BY InitHolds
<1>2. IndInv /\ [Next]_vars => IndInv'
  BY NextKeepsIndInv
<1> QED
  BY <1>1, <1>2, PTL DEF Spec

\* No track outlives its time to live, a track is Tentative exactly until it is
\* confirmed, and no more snapshots are kept than max_snapshots_.
THEOREM TypeCorrect == Spec => []TypeOK
BY Invariance, TypeFollows, PTL

\* get_for_pts never answers with two boxes of one object, from the snapshots or
\* from the tracks.
THEOREM ObjectsAreDrawnOnce == Spec => []OneBoxPerObject
BY Invariance, OneBoxFollows, PTL

\* publish_snapshot never shows a class where it, or after its first sighting a
\* rival, was not seen often enough: what is associated with a track or its rival
\* lies around it, where the class had been seen before, and a track keeps that
\* support while a rival, a jump or a miss interrupts it.
THEOREM OnlyConfirmedIsDrawn == Spec => []DrawnIsConfirmed
<1>1. IndInv => DrawnIsConfirmed
  BY DEF IndInv
<1> QED
  BY <1>1, Invariance, PTL

\* With track_align_to_video_pts a frame never gets the boxes of an earlier
\* connection, or older ones, while the current connection has some for it.
THEOREM SnapshotsAreOfTheConnection == Spec => []FrameGetsItsConnectionsBoxes
BY Invariance, ConnectionFollows, PTL

\* What is drawn disappears after the display hold, also what timestamps from before
\* a restart keep young.
THEOREM GhostsDisappear == Spec => []GhostsVanish
<1>1. IndInv => GhostsVanish
  BY DEF IndInv
<1> QED
  BY <1>1, Invariance, PTL

-------------------------------------------------------------------------------
(***************************************************************************)
(* Lone objects.  As long as a detection comes with nothing near it, one   *)
(* track shows exactly it, and no other track is near enough to be         *)
(* associated with it or to be its duplicate.                              *)
(***************************************************************************)

\* A track that shows b is not one for d.
Far(b, d) == ~Candidate([smooth |-> b], d)

\* Only what a track shows, the class and the box of it, decides.
LEMMA FarFacts ==
  ASSUME NEW d
  PROVE  /\ \A t : Candidate(t, d) <=> ~Far(t.smooth, d)
         /\ \A b, c : b.cls = c.cls /\ b.box = c.box => (Far(b, d) <=> Far(c, d))
         /\ \A b : Far(b, d) => ~Duplicates(b, d)
BY DEF Far, Candidate, Duplicates

\* A box is at its own place: near itself, and no correction is needed.
LEMMA NearItself ==
  ASSUME NEW b \in DOMAIN BoxAt
  PROVE  Near[b][b] /\ Correctable[b][b]
<1> DEFINE B == BoxAt[b]
           w == Larger(1, Width(B))
           h == Larger(1, Height(B))
<1>1. B.x1 \in Int /\ B.y1 \in Int /\ B.x2 \in Int /\ B.y2 \in Int
  BY TrackerAssumption DEF IsBox
<1>2. Distance2(B, B) = 0
  <2>1. B.x1 + B.x2 - B.x1 - B.x2 = 0 /\ B.y1 + B.y2 - B.y1 - B.y2 = 0
    BY <1>1
  <2> QED
    BY <2>1 DEF Distance2
<1>3. w \in Nat /\ h \in Nat
  BY <1>1 DEF Larger, Width, Height
<1>4. SimilarSize(B, B)
  <2> DEFINE s == w * h
  <2>1. s \in Nat
    BY <1>3
  <2>2. SimilarSize(B, B) <=> 100 * Smaller(s, s) >= 40 * Larger(s, s)
    BY DEF SimilarSize
  <2> HIDE DEF s
  <2>3. Smaller(s, s) = s /\ Larger(s, s) = s
    BY <2>1 DEF Smaller, Larger
  <2> QED
    BY <2>1, <2>2, <2>3
<1> HIDE DEF B
<1>5. AtMostApart(B, B, 48)
  BY <1>2 DEF AtMostApart
<1>6. AtMostApart(B, B, MaxCorrection)
  <2>1. MaxCorrection \in Nat
    BY TrackerAssumption
  <2>2. MaxCorrection * MaxCorrection \in Nat
    BY <2>1
  <2>3. 4 * MaxCorrection * MaxCorrection = 4 * (MaxCorrection * MaxCorrection)
    BY <2>1
  <2> QED
    BY <1>2, <2>2, <2>3 DEF AtMostApart
<1> QED
  BY <1>4, <1>5, <1>6 DEF Near, Correctable, B

\* So a detection is one for its own track.
LEMMA OwnCandidate ==
  ASSUME NEW d \in Dets
  PROVE  ~Far(d, d)
<1>1. d.box \in DOMAIN BoxAt
  BY TrackerAssumption
<1>2. Near[d.box][d.box]
  BY <1>1, NearItself
<1> QED
  BY <1>2 DEF Far, Candidate

\* What a track shows that a lone detection was just associated with, or made of.
Showing(t, d, n) ==
  /\ t.smooth = d
  /\ t.hits >= n
  /\ t.age = 0
  /\ t.missed = FALSE
  /\ t.hits >= ConfirmHits => t.state = "Active"

\* It is shown as it is, with one hit more.
LEMMA OwnMatched ==
  ASSUME NEW t \in Tracked, NEW d \in Dets, t.smooth = d, NEW stays,
         NEW r, r = Matched(t, d, stays),
         NEW n \in 0 .. ConfirmHits, t.hits >= n
  PROVE  Showing(r, d, Smaller(n + 1, ConfirmHits))
<1>1. d \in BoxType /\ d.box \in DOMAIN BoxAt
  BY DetsAreBoxes, TrackerAssumption
<1>2. Correctable[d.box][d.box]
  BY <1>1, NearItself
<1>3. r = Accepted(t, d, FALSE, stays)
  BY <1>2 DEF Matched, Measured
<1> DEFINE reset == t.state # "Active" \/ FALSE \/ ~Overlap20[t.smooth.box][d.box]
           box == IF reset THEN d.box ELSE Filtered(t.smooth.box, d.box, stays)
           smooth == IF Still[t.smooth.box][d.box] THEN [t.smooth EXCEPT !.score = d.score]
                     ELSE [d EXCEPT !.box = box]
           hits == Smaller(t.hits + 1, ConfirmHits + 1)
           state == IF hits >= ConfirmHits THEN "Active" ELSE t.state
<1>4. r = [smooth |-> smooth, age |-> 0, hits |-> hits, jump |-> None, rival |-> None,
           missed |-> FALSE, state |-> state]
  BY <1>3 DEF Accepted
<1>5. box = d.box
  BY DEF Filtered
<1>6. smooth = d
  <2>1. [d EXCEPT !.score = d.score] = d /\ [d EXCEPT !.box = d.box] = d
    BY <1>1 DEF BoxType
  <2> HIDE DEF box
  <2> QED
    BY <1>5, <2>1
<1> HIDE DEF smooth
<1>7. hits >= Smaller(n + 1, ConfirmHits)
  <2>1. t.hits \in Int /\ ConfirmHits \in Nat /\ n \in Int
    BY TrackedFields, HitsToConfirm
  <2> DEFINE m == t.hits
  <2>2. m \in Int /\ m >= n
    BY <2>1
  <2> HIDE DEF m
  <2>3. Smaller(m + 1, ConfirmHits + 1) >= Smaller(n + 1, ConfirmHits)
    BY <2>1, <2>2 DEF Smaller
  <2> QED
    BY <2>3 DEF m
<1> HIDE DEF hits
<1>8. /\ r.smooth = smooth /\ r.age = 0 /\ r.hits = hits /\ r.missed = FALSE
      /\ r.state = IF hits >= ConfirmHits THEN "Active" ELSE t.state
  BY <1>4
<1> QED
  BY <1>6, <1>7, <1>8 DEF Showing

\* A track far from d that is associated with a detection far from d stays so.
LEMMA OtherMatched ==
  ASSUME NEW t \in Tracked, NEW e \in Dets, NEW d, Far(t.smooth, d), Far(e, d), NEW stays,
         NEW r, r = Matched(t, e, stays)
  PROVE  Far(r.smooth, d)
<1>1. t.smooth \in BoxType /\ e \in BoxType /\ t \in TrackShape
  BY DetsAreBoxes, TrackedFields DEF Tracked
<1>2. CASE r.smooth = t.smooth
  BY <1>2
<1>3. CASE r = Accepted(t, e, t.smooth.cls # e.cls, stays)
  <2> DEFINE reset == t.state # "Active" \/ t.smooth.cls # e.cls \/ ~Overlap20[t.smooth.box][e.box]
             box == IF reset THEN e.box ELSE Filtered(t.smooth.box, e.box, stays)
  <2>1. r.smooth = IF Still[t.smooth.box][e.box] THEN [t.smooth EXCEPT !.score = e.score]
                   ELSE [e EXCEPT !.box = box]
    BY <1>3 DEF Accepted
  <2>2. /\ [t.smooth EXCEPT !.score = e.score].cls = t.smooth.cls
        /\ [t.smooth EXCEPT !.score = e.score].box = t.smooth.box
    BY <1>1 DEF BoxType
  <2>3. [e EXCEPT !.box = box].cls = e.cls /\ [e EXCEPT !.box = box].box = box
    <3> HIDE DEF box
    <3> QED
      BY <1>1 DEF BoxType
  <2>4. box = e.box \/ (box = t.smooth.box /\ t.smooth.cls = e.cls)
    BY DEF Filtered
  <2> HIDE DEF box
  <2>5. \/ r.smooth.cls = t.smooth.cls /\ r.smooth.box = t.smooth.box
        \/ r.smooth.cls = e.cls /\ r.smooth.box = e.box
    BY <2>1, <2>2, <2>3, <2>4
  <2> QED
    BY <2>5, FarFacts
<1>4. r.smooth = t.smooth \/ r = Accepted(t, e, t.smooth.cls # e.cls, stays)
  <2>1. [t EXCEPT !.rival = e, !.age = 0, !.missed = FALSE].smooth = t.smooth
    BY <1>1 DEF TrackShape
  <2>2. Waiting(t, e).smooth = t.smooth
    BY <1>1 DEF TrackShape, Waiting
  <2> QED
    BY <2>1, <2>2 DEF Matched, Measured
<1> QED
  BY <1>2, <1>3, <1>4
\* An element at a chosen position is in the sublist, once.
LEMMA SublistAt ==
  ASSUME NEW S, NEW s \in Seq(S), NEW I \in SUBSET (DOMAIN s), NEW k \in I,
         NEW r, r = Sublist(s, I)
  PROVE  \E m \in DOMAIN r :
           r[m] = s[k] /\ \A l \in DOMAIN r : l # m => \E i \in I : i # k /\ r[l] = s[i]
<1>0. Len(s) \in Nat /\ DOMAIN s = 1 .. Len(s) /\ I \in SUBSET (1 .. Len(s))
  OBVIOUS
<1> DEFINE c == Cardinality(I)
<1>1. /\ DOMAIN r = 1 .. c
      /\ \A i \in I : Rank(I, i) \in 1 .. c /\ r[Rank(I, i)] = s[i]
      /\ \A l \in 1 .. c : \E i \in I : Rank(I, i) = l /\ r[l] = s[i]
  BY <1>0, SublistFacts
<1> HIDE DEF c
<1> DEFINE m == Rank(I, k)
<1>2. m \in DOMAIN r /\ r[m] = s[k]
  BY <1>1
<1>3. ASSUME NEW l \in DOMAIN r, l # m PROVE \E i \in I : i # k /\ r[l] = s[i]
  BY <1>1, <1>3
<1> HIDE DEF m
<1> QED
  BY <1>2, <1>3

\* The two of a pair are different.
LEMMA PairFacts ==
  ASSUME NEW S, NEW s \in Seq(S), NEW p \in Pairs(s)
  PROVE  p[1] \in DOMAIN s /\ p[2] \in DOMAIN s /\ p[1] # p[2]
<1>1. p[1] \in DOMAIN s /\ p[2] \in DOMAIN s /\ p[1] < p[2]
  BY DEF Pairs
<1>2. p[1] \in Int /\ p[2] \in Int
  BY <1>1
<1> QED
  BY <1>1, <1>2

\* What has no duplicate survives a deduplication, once.
LEMMA DeduplicatedAt ==
  ASSUME NEW S, NEW s \in Seq(S), NEW duplicates \in SUBSET Pairs(s), NEW keepSecond,
         NEW k \in DOMAIN s, k \notin InPairs(duplicates),
         NEW r, r = Deduplicated(s, duplicates, keepSecond)
  PROVE  \E m \in DOMAIN r :
           r[m] = s[k] /\ \A l \in DOMAIN r : l # m => \E i \in DOMAIN s : i # k /\ r[l] = s[i]
<1> DEFINE gone == Dropped(Len(s), duplicates, keepSecond)
           I == DOMAIN s \ gone
<1>1. Len(s) \in Nat /\ DOMAIN s = 1 .. Len(s)
  OBVIOUS
<1>2. CASE duplicates = {}
  BY <1>2 DEF Deduplicated
<1>3. CASE duplicates # {}
  <2>1. r = Sublist(s, I)
    BY <1>3 DEF Deduplicated
  <2>2. gone \subseteq InPairs(duplicates)
    <3>1. duplicates \in SUBSET ((1 .. Len(s)) \X (1 .. Len(s)))
      BY <1>1 DEF Pairs
    <3> HIDE DEF gone
    <3> QED
      BY <1>1, <3>1, OneOfEachPairDropped DEF gone
  <2>3. k \in I /\ I \in SUBSET (DOMAIN s)
    BY <2>2
  <2> HIDE DEF I
  <2>4. \E m \in DOMAIN r :
          r[m] = s[k] /\ \A l \in DOMAIN r : l # m => \E i \in I : i # k /\ r[l] = s[i]
    BY <2>1, <2>3, SublistAt
  <2> QED
    BY <2>3, <2>4
<1> QED
  BY <1>2, <1>3

\* One of the tracks is d's, as an update leaves it, and the others are far.
OnlyOne(ts, d, n) ==
  \E k \in DOMAIN ts :
    Showing(ts[k], d, n) /\ \A i \in DOMAIN ts : i # k => Far(ts[i].smooth, d)

\* Shadowing, erasing and deduplication leave it so.
LEMMA OnlyOneSettled ==
  ASSUME NEW d \in Dets, NEW n, NEW ts \in Seq(Tracked), OnlyOne(ts, d, n),
         NEW secondHasMore, NEW r, r = Settled(ts, secondHasMore)
  PROVE  OnlyOne(r, d, n)
<1> DEFINE shadowed == [i \in DOMAIN ts |-> Shadowed(ts[i])]
           I == {i \in DOMAIN ts : ~Lost(shadowed[i])}
           left == Sublist(shadowed, I)
<1>1. r = TracksDeduplicated(left, secondHasMore)
  BY DEF Settled
<1>2. shadowed \in Seq(Tracked) /\ DOMAIN shadowed = DOMAIN ts
      /\ \A i \in DOMAIN ts : shadowed[i] = Shadowed(ts[i]) /\ shadowed[i].smooth = ts[i].smooth
  <2>1. ASSUME NEW t \in Tracked PROVE Shadowed(t) \in Tracked /\ Shadowed(t).smooth = t.smooth
    <3>1. t \in TrackShape /\ Known(t.smooth) /\ (t.state = "Tentative" <=> t.hits < ConfirmHits)
      BY DEF Tracked
    <3> DEFINE u == Shadowed(t)
    <3>2. /\ u \in TrackShape /\ u.smooth = t.smooth /\ u.hits = t.hits
          /\ (u.state = t.state \/ (t.state = "Active" /\ u.state = "Shadow"))
      BY <3>1 DEF Shadowed, TrackShape
    <3> HIDE DEF u
    <3> QED
      BY <3>1, <3>2 DEF Tracked, u
  <2>2. \A i \in DOMAIN ts : ts[i] \in Tracked
    OBVIOUS
  <2> QED
    BY <2>1, <2>2
<1>3. PICK k \in DOMAIN ts : Showing(ts[k], d, n) /\ \A i \in DOMAIN ts : i # k => Far(ts[i].smooth, d)
  BY DEF OnlyOne
<1>4. shadowed[k] = ts[k] /\ ~Lost(ts[k])
  <2>1. ts[k].age = 0 /\ ts[k].missed = FALSE
    BY <1>3 DEF Showing
  <2>2. ~(0 > Hold) /\ ~(0 > Ttl)
    <3>1. Hold \in Nat /\ Ttl \in Nat
      BY ZenonT(30), TrackerAssumption
    <3> HIDE DEF I, shadowed
    <3> QED
      BY <3>1
  <2> QED
    BY <1>2, <2>1, <2>2 DEF Shadowed, Lost
<1>5. k \in I /\ I \in SUBSET (DOMAIN shadowed)
  BY <1>2, <1>4
<1> HIDE DEF shadowed, I, left
<1>6. PICK m \in DOMAIN left :
        /\ left[m] = shadowed[k]
        /\ \A l \in DOMAIN left : l # m => \E i \in I : i # k /\ left[l] = shadowed[i]
  <2>1. \E m \in DOMAIN left :
          left[m] = shadowed[k]
            /\ \A l \in DOMAIN left : l # m => \E i \in I : i # k /\ left[l] = shadowed[i]
    <3>1. left = Sublist(shadowed, I)
      BY DEF left
    <3> QED
      BY <1>2, <1>5, <3>1, SublistAt
  <2> QED
    BY <2>1
<1>7. left \in Seq(Tracked)
  BY <1>2, <1>5, SublistPairs DEF left
<1>8. Showing(left[m], d, n) /\ \A l \in DOMAIN left : l # m => Far(left[l].smooth, d)
  BY <1>2, <1>3, <1>4, <1>5, <1>6
<1> DEFINE same == {p \in Pairs(left) : Duplicates(left[p[1]].smooth, left[p[2]].smooth)}
<1>9. m \notin InPairs(same)
  <2>1. ASSUME NEW p \in same PROVE p[1] # m /\ p[2] # m
    <3>1. p[1] \in DOMAIN left /\ p[2] \in DOMAIN left /\ p[1] # p[2]
          /\ Duplicates(left[p[1]].smooth, left[p[2]].smooth)
      <4>1. p \in Pairs(left) /\ Duplicates(left[p[1]].smooth, left[p[2]].smooth)
        OBVIOUS
      <4> HIDE DEF same
      <4> QED
        BY <1>7, <4>1, PairFacts
    <3>2. left[m].smooth = d /\ d \in BoxType
      BY <1>8, DetsAreBoxes DEF Showing
    <3>3. left[p[1]].smooth \in BoxType /\ left[p[2]].smooth \in BoxType
      BY <1>7, <3>1, TrackedFields
    <3>4. CASE p[1] = m
      <4>1. Far(left[p[2]].smooth, d)
        BY <1>8, <3>1, <3>4
      <4>2. ~Duplicates(left[p[2]].smooth, d)
        BY <4>1, FarFacts
      <4> QED
        BY <3>1, <3>2, <3>3, <3>4, <4>2, DuplicatesSymmetric
    <3>5. CASE p[2] = m
      <4>1. Far(left[p[1]].smooth, d)
        BY <1>8, <3>1, <3>5
      <4> QED
        BY <3>1, <3>2, <3>5, <4>1, FarFacts
    <3> QED
      BY <3>4, <3>5
  <2> QED
    BY <2>1 DEF InPairs
<1>10. \E second : r = Deduplicated(left, same, second)
  BY <1>1 DEF TracksDeduplicated
<1>11. same \in SUBSET Pairs(left)
  OBVIOUS
<1> HIDE DEF same
<1>12. \E q \in DOMAIN r :
         r[q] = left[m] /\ \A l \in DOMAIN r : l # q => \E i \in DOMAIN left : i # m /\ r[l] = left[i]
  BY <1>7, <1>9, <1>10, <1>11, DeduplicatedAt
<1> QED
  BY <1>8, <1>12 DEF OnlyOne

\* With enough hits it is drawn.
LEMMA OnlyOneDrawn ==
  ASSUME NEW d \in Dets, NEW ts \in Seq(Tracked), OnlyOne(ts, d, ConfirmHits)
  PROVE  \E i \in DOMAIN Drawable(ts) : Drawable(ts)[i] = d
<1> DEFINE s == [i \in DOMAIN ts |-> ts[i].smooth]
           I == {i \in DOMAIN ts : Displayable(ts[i], 0)}
           shown == Shown(ts, 0)
<1>1. s \in Seq(BoxType) /\ DOMAIN s = DOMAIN ts /\ \A i \in DOMAIN ts : s[i] = ts[i].smooth
  <2>1. \A i \in DOMAIN ts : ts[i].smooth \in BoxType
    BY TrackedFields
  <2> QED
    BY <2>1
<1>2. PICK k \in DOMAIN ts :
        Showing(ts[k], d, ConfirmHits) /\ \A i \in DOMAIN ts : i # k => Far(ts[i].smooth, d)
  BY DEF OnlyOne
<1>3. Displayable(ts[k], 0)
  <2>1. ts[k].hits >= ConfirmHits /\ ts[k].age = 0 /\ ts[k].state = "Active"
    BY <1>2 DEF Showing
  <2>2. 0 + 0 <= Hold
    BY TrackerAssumption
  <2> QED
    BY <2>1, <2>2 DEF Displayable
<1>4. k \in I /\ I \in SUBSET (DOMAIN s) /\ shown = Sublist(s, I)
  BY <1>1, <1>3 DEF Shown
<1> HIDE DEF s, I, shown
<1>5. PICK m \in DOMAIN shown :
        /\ shown[m] = s[k]
        /\ \A l \in DOMAIN shown : l # m => \E i \in I : i # k /\ shown[l] = s[i]
  <2>1. \E m \in DOMAIN shown :
          shown[m] = s[k] /\ \A l \in DOMAIN shown : l # m => \E i \in I : i # k /\ shown[l] = s[i]
    BY <1>1, <1>4, SublistAt
  <2> QED
    BY <2>1
<1>6. shown \in Seq(BoxType)
  BY <1>1, <1>4, SublistPairs
<1>7. shown[m] = d /\ \A l \in DOMAIN shown : l # m => Far(shown[l], d)
  <2>1. s[k] = d
    BY <1>1, <1>2 DEF Showing
  <2> QED
    BY <1>1, <1>2, <1>4, <1>5, <2>1
<1> DEFINE same == {p \in Pairs(shown) : Duplicates(shown[p[1]], shown[p[2]])}
<1>8. m \notin InPairs(same)
  <2>1. ASSUME NEW p \in same PROVE p[1] # m /\ p[2] # m
    <3>1. p[1] \in DOMAIN shown /\ p[2] \in DOMAIN shown /\ p[1] # p[2]
          /\ Duplicates(shown[p[1]], shown[p[2]])
      <4>1. p \in Pairs(shown) /\ Duplicates(shown[p[1]], shown[p[2]])
        OBVIOUS
      <4> HIDE DEF same
      <4> QED
        BY <1>6, <4>1, PairFacts
    <3>2. shown[p[1]] \in BoxType /\ shown[p[2]] \in BoxType
      BY <1>6, <3>1
    <3>3. Duplicates(shown[p[2]], shown[p[1]])
      BY <3>1, <3>2, DuplicatesSymmetric
    <3> QED
      BY <1>7, <3>1, <3>3, FarFacts
  <2> QED
    BY <2>1 DEF InPairs
<1>9. \E second : Drawable(ts) = Deduplicated(shown, same, second)
  BY DEF Drawable, DisplayDeduplicated, shown
<1>10. same \in SUBSET Pairs(shown)
  OBVIOUS
<1> HIDE DEF same
<1> DEFINE r == Drawable(ts)
<1> HIDE DEF r
<1>11. \E q \in DOMAIN r :
         r[q] = shown[m] /\ \A l \in DOMAIN r : l # q => \E i \in DOMAIN shown : i # m /\ r[l] = shown[i]
  BY <1>6, <1>8, <1>9, <1>10, DeduplicatedAt DEF r
<1> QED
  BY <1>7, <1>11 DEF r

\* The track of d, with n hits, before an update.
OwnTrack(ts, d, n) ==
  \E k \in DOMAIN ts :
    /\ ts[k].smooth = d /\ ts[k].hits >= n
    /\ \A i \in DOMAIN ts : i # k => Far(ts[i].smooth, d)

\* The association gives d its own track, since nothing else is a candidate for
\* either of them.
LEMMA OwnAssociated ==
  ASSUME NEW d \in Dets, NEW ds \in Seq(Dets), Alone(d, ds), NEW ts,
         NEW k \in DOMAIN ts, ts[k].smooth = d,
         \A i \in DOMAIN ts : i # k => Far(ts[i].smooth, d),
         NEW a \in Associations(ts, ds), NEW j \in DOMAIN ds, ds[j] = d
  PROVE  \E p \in a : p[1] = k
<1> DEFINE pairs == {p \in (DOMAIN ts) \X (DOMAIN ds) : Candidate(ts[p[1]], ds[p[2]])}
<1>1. Candidate(ts[k], ds[j])
  BY OwnCandidate, FarFacts
<1>2. <<k, j>> \in pairs
  BY <1>1
<1>3. /\ a \subseteq pairs
      /\ \A p \in pairs : \E q \in a : p[1] = q[1] \/ p[2] = q[2]
  BY DEF Associations
<1>4. PICK q \in a : k = q[1] \/ j = q[2]
  <2> HIDE DEF pairs
  <2>1. \E q \in a : <<k, j>>[1] = q[1] \/ <<k, j>>[2] = q[2]
    BY <1>2, <1>3
  <2> QED
    BY <2>1
<1>5. q[1] \in DOMAIN ts /\ q[2] \in DOMAIN ds /\ Candidate(ts[q[1]], ds[q[2]])
  BY <1>3
<1>6. ASSUME q[1] # k PROVE FALSE
  <2> DEFINE t == ts[q[1]]
             e == ds[q[2]]
  <2>1. Far(t.smooth, d) /\ e = d /\ Candidate(t, e)
    BY <1>4, <1>5, <1>6
  <2> HIDE DEF t, e
  <2>2. Candidate(t, d)
    BY <2>1
  <2>3. Candidate(t, d) <=> ~Far(t.smooth, d)
    BY FarFacts, Zenon
  <2> QED
    BY <2>1, <2>2, <2>3
<1> QED
  BY <1>6

\* What the update makes of the old tracks, of which d's is one,
LEMMA OwnUpdated ==
  ASSUME NEW d \in Dets, NEW ds \in Seq(Dets), Alone(d, ds), tracks \in Seq(Tracked),
         NEW a \in Associations(tracks, ds), NEW step \in Nat, NEW stay,
         NEW r, r = Updated(Moved(tracks, step), ds, a, stay),
         NEW i \in DOMAIN tracks
  PROVE  /\ r[i] \in Tracked
         /\ Far(tracks[i].smooth, d) => Far(r[i].smooth, d)
         /\ \A n \in 0 .. ConfirmHits :
              tracks[i].smooth = d /\ tracks[i].hits >= n /\ (\E p \in a : p[1] = i)
                => Showing(r[i], d, Smaller(n + 1, ConfirmHits))
<1> DEFINE aged == Moved(tracks, step)
           t == tracks[i]
           u == aged[i]
           matched == \E p \in a : p[1] = i
           j == (CHOOSE p \in a : p[1] = i)[2]
<1>1. t \in Tracked
  OBVIOUS
<1>2. u = [t EXCEPT !.age = @ + step]
  BY DEF Moved
<1>3. r[i] = IF matched THEN Matched(u, ds[j], i \in stay) ELSE Unmatched(u)
  BY DEF Updated, Moved
<1>4. matched => j \in DOMAIN ds /\ Candidate(t, ds[j])
  BY AssociationFacts
<1> HIDE DEF t, u, matched, j
<1>5. u \in Tracked /\ u.smooth = t.smooth /\ u.hits = t.hits
  BY <1>1, <1>2, OlderFacts
<1> DEFINE m == r[i]
           stays == i \in stay
<1>6. m = IF matched THEN Matched(u, ds[j], stays) ELSE Unmatched(u)
  BY <1>3
<1> HIDE DEF m, stays
<1>7. CASE matched
  <2>1. ds[j] \in Dets /\ Candidate(t, ds[j]) /\ m = Matched(u, ds[j], stays) /\ j \in DOMAIN ds
    BY <1>4, <1>6, <1>7
  <2>2. m \in Tracked
    BY <1>5, <2>1, MatchedFacts
  <2>3. ds[j] # d => Far(ds[j], d) /\ Far(d, ds[j])
    BY <2>1 DEF Alone, Far
  <2>4. ASSUME Far(t.smooth, d) PROVE Far(m.smooth, d)
    <3>1. ds[j] # d
      BY <2>1, <2>4, FarFacts
    <3> QED
      BY <1>5, <2>1, <2>3, <2>4, <3>1, OtherMatched
  <2>5. ASSUME NEW n \in 0 .. ConfirmHits, t.smooth = d, t.hits >= n
        PROVE  Showing(m, d, Smaller(n + 1, ConfirmHits))
    <3>1. ds[j] = d
      BY <2>1, <2>3, <2>5, FarFacts
    <3> QED
      BY <1>5, <2>1, <2>5, <3>1, OwnMatched
  <2> QED
    BY <2>2, <2>4, <2>5 DEF m, t
<1>8. CASE ~matched
  <2>1. m = [u EXCEPT !.missed = TRUE]
    BY <1>6, <1>8 DEF Unmatched
  <2>2. u \in TrackShape
    BY <1>5 DEF Tracked
  <2>3. m \in TrackShape /\ m.smooth = u.smooth /\ m.hits = u.hits /\ m.state = u.state
    BY <2>1, <2>2 DEF TrackShape
  <2>4. m \in Tracked
    BY <1>5, <2>3 DEF Tracked
  <2> QED
    BY <1>5, <1>8, <2>3, <2>4 DEF m, t, matched
<1> QED
  BY <1>7, <1>8

\* and of the detections without a track: d becomes one, unless it has its own.
LEMMA OthersCreated ==
  ASSUME NEW d \in Dets, NEW ds \in Seq(Dets), Alone(d, ds), IsInjective(ds),
         support \in [Places -> Nat], NEW a, NEW r, r = Created(ds, a)
  PROVE  /\ r \in Seq(Tracked)
         /\ (\E p \in a : ds[p[2]] = d /\ p[2] \in DOMAIN ds)
               => \A l \in DOMAIN r : Far(r[l].smooth, d)
         /\ (\A p \in a : p[2] \in DOMAIN ds => ds[p[2]] # d) => OnlyOne(r, d, 1)
<1> DEFINE I == {j \in DOMAIN ds : \A p \in a : p[2] # j}
           unmatched == Sublist(ds, I)
<1>1. r = [l \in DOMAIN unmatched |-> NewTrack(unmatched[l])]
  BY DEF Created
<1>2. I \in SUBSET (DOMAIN ds) /\ \A j \in I : \A p \in a : p[2] # j
  OBVIOUS
<1>3. unmatched \in Seq(Dets) /\ \A l \in DOMAIN unmatched : \E j \in I : unmatched[l] = ds[j]
  <2> HIDE DEF I
  <2> QED
    BY <1>2, SublistPairs
<1>4. ASSUME NEW l \in DOMAIN unmatched
      PROVE  r[l] \in Tracked /\ r[l].smooth = unmatched[l]
  <2>1. PICK j \in DOMAIN ds : unmatched[l] = ds[j]
    BY <1>2, <1>3
  <2> HIDE DEF unmatched
  <2> DEFINE t == r[l]
  <2>2. t = NewTrack(ds[j])
    BY <1>1, <2>1
  <2>3. t.smooth = ds[j]
    BY <2>2 DEF NewTrack
  <2> HIDE DEF t
  <2> QED
    BY <2>1, <2>2, <2>3, NewTrackFacts DEF t
<1>5. r \in Seq(Tracked) /\ DOMAIN r = DOMAIN unmatched
  <2>1. DOMAIN unmatched = 1 .. Len(unmatched) /\ Len(unmatched) \in Nat
    BY <1>3
  <2> HIDE DEF unmatched
  <2>2. r = [l \in DOMAIN unmatched |-> r[l]] /\ DOMAIN r = DOMAIN unmatched
    BY <1>1
  <2> QED
    BY <1>4, <2>1, <2>2
<1>6. \A j \in DOMAIN ds : ds[j] # d => Far(ds[j], d)
  BY DEF Alone, Far
<1>7. \A i, j \in DOMAIN ds : ds[i] = ds[j] => i = j
  BY DEF IsInjective
<1>8. ASSUME NEW p \in a, ds[p[2]] = d, p[2] \in DOMAIN ds, NEW l \in DOMAIN r
      PROVE  Far(r[l].smooth, d)
  <2>1. PICK j \in I : unmatched[l] = ds[j]
    BY <1>3, <1>5
  <2>2. ds[j] # d
    BY <1>2, <1>7, <1>8
  <2> HIDE DEF I, unmatched
  <2> QED
    BY <1>2, <1>4, <1>5, <1>6, <2>1, <2>2
<1>9. ASSUME \A p \in a : p[2] \in DOMAIN ds => ds[p[2]] # d
      PROVE  OnlyOne(r, d, 1)
  <2>1. PICK j \in DOMAIN ds : ds[j] = d
    BY DEF Alone
  <2>2. j \in I
    BY <1>9, <2>1
  <2> HIDE DEF I
  <2>3. \E m \in DOMAIN unmatched :
          unmatched[m] = ds[j]
            /\ \A l \in DOMAIN unmatched : l # m => \E i \in I : i # j /\ unmatched[l] = ds[i]
    BY <1>2, <2>2, SublistAt
  <2> HIDE DEF unmatched
  <2>4. PICK m \in DOMAIN unmatched :
          /\ unmatched[m] = ds[j]
          /\ \A l \in DOMAIN unmatched : l # m => \E i \in I : i # j /\ unmatched[l] = ds[i]
    BY <2>3
  <2>5. ASSUME NEW l \in DOMAIN r, l # m PROVE Far(r[l].smooth, d)
    <3>1. PICK i \in I : i # j /\ unmatched[l] = ds[i]
      BY <1>5, <2>4, <2>5
    <3>2. ds[i] # d
      BY <1>2, <1>7, <2>1, <3>1
    <3> QED
      BY <1>2, <1>4, <1>5, <1>6, <3>1, <3>2
  <2>6. Showing(r[m], d, 1)
    <3>1. r[m] = NewTrack(d)
      BY <1>1, <2>1, <2>4
    <3> DEFINE state == IF ConfirmHits <= 1 THEN "Active" ELSE "Tentative"
               t == r[m]
    <3>2. t = [smooth |-> d, age |-> 0, hits |-> 1, jump |-> None, rival |-> None,
               missed |-> FALSE, state |-> state]
      BY <3>1 DEF NewTrack
    <3>3. 1 >= ConfirmHits => state = "Active"
      BY HitsToConfirm
    <3> HIDE DEF state, t
    <3>4. t.smooth = d /\ t.hits = 1 /\ t.age = 0 /\ t.missed = FALSE /\ t.state = state
      BY <3>2
    <3>5. Showing(t, d, 1)
      BY <3>3, <3>4 DEF Showing
    <3> QED
      BY <3>5 DEF t
  <2> QED
    BY <1>5, <2>4, <2>5, <2>6 DEF OnlyOne
<1> QED
  BY <1>5, <1>8, <1>9
\* The old tracks and the new ones together have one for d.
LEMMA OnlyOneOfBoth ==
  ASSUME NEW d, NEW n, NEW s \in Seq(Tracked), NEW t \in Seq(Tracked),
         \/ OnlyOne(s, d, n) /\ \A l \in DOMAIN t : Far(t[l].smooth, d)
         \/ OnlyOne(t, d, n) /\ \A l \in DOMAIN s : Far(s[l].smooth, d)
  PROVE  s \o t \in Seq(Tracked) /\ OnlyOne(s \o t, d, n)
<1> DEFINE r == s \o t
           m == Len(s)
<1>1. /\ m \in Nat /\ DOMAIN s = 1 .. m /\ Len(t) \in Nat /\ DOMAIN t = 1 .. Len(t)
      /\ r \in Seq(Tracked) /\ DOMAIN r = 1 .. m + Len(t)
      /\ \A i \in 1 .. m : r[i] = s[i]
      /\ \A i \in m + 1 .. m + Len(t) : r[i] = t[i - m]
  OBVIOUS
<1> HIDE DEF r, m
<1>2. \A i \in DOMAIN r : i \in DOMAIN s \/ (i - m \in DOMAIN t /\ i = m + (i - m))
  BY <1>1
<1>3. \A i \in DOMAIN s : i \in DOMAIN r /\ r[i] = s[i] /\ i <= m
  BY <1>1
<1>4. \A i \in DOMAIN t : m + i \in DOMAIN r /\ r[m + i] = t[i] /\ m + i > m
  <2> SUFFICES ASSUME NEW i \in DOMAIN t PROVE m + i \in DOMAIN r /\ r[m + i] = t[i] /\ m + i > m
    OBVIOUS
  <2>1. i \in Int /\ m + i \in m + 1 .. m + Len(t) /\ (m + i) - m = i
    BY <1>1
  <2>2. r[m + i] = t[(m + i) - m]
    BY <1>1, <2>1
  <2> QED
    BY <1>1, <2>1, <2>2
<1>5. CASE OnlyOne(s, d, n) /\ \A l \in DOMAIN t : Far(t[l].smooth, d)
  <2>1. PICK k \in DOMAIN s : Showing(s[k], d, n) /\ \A i \in DOMAIN s : i # k => Far(s[i].smooth, d)
    BY <1>5 DEF OnlyOne
  <2>2. ASSUME NEW i \in DOMAIN r, i # k PROVE Far(r[i].smooth, d)
    <3>1. CASE i \in DOMAIN s
      BY <1>3, <2>1, <2>2, <3>1
    <3>2. CASE i - m \in DOMAIN t /\ i = m + (i - m)
      BY <1>4, <1>5, <3>2
    <3> QED
      BY <1>2, <3>1, <3>2
  <2>3. k \in DOMAIN r /\ Showing(r[k], d, n)
    BY <1>3, <2>1
  <2> QED
    BY <1>1, <2>2, <2>3 DEF OnlyOne, r
<1>6. CASE OnlyOne(t, d, n) /\ \A l \in DOMAIN s : Far(s[l].smooth, d)
  <2>1. PICK k \in DOMAIN t : Showing(t[k], d, n) /\ \A i \in DOMAIN t : i # k => Far(t[i].smooth, d)
    BY <1>6 DEF OnlyOne
  <2>2. ASSUME NEW i \in DOMAIN r, i # m + k PROVE Far(r[i].smooth, d)
    <3>1. CASE i \in DOMAIN s
      BY <1>3, <1>6, <3>1
    <3>2. CASE i - m \in DOMAIN t /\ i = m + (i - m)
      <4>1. i - m # k
        BY <2>2, <3>2
      <4> QED
        BY <1>4, <2>1, <3>2, <4>1
    <3> QED
      BY <1>2, <3>1, <3>2
  <2>3. m + k \in DOMAIN r /\ Showing(r[m + k], d, n)
    BY <1>4, <2>1
  <2> QED
    BY <1>1, <2>2, <2>3 DEF OnlyOne, r
<1> QED
  BY <1>5, <1>6

\* The history agrees with the tracks, and with what is drawn.
LoneInv ==
  /\ lone \in [Dets -> 0 .. ConfirmHits]
  /\ \A d \in Dets : lone[d] > 0 => OwnTrack(tracks, d, lone[d])
  /\ LoneObjectIsShown

\* What the invariant of the tracks says here.
LEMMA TracksAreTracked ==
  IndInv => tracks \in Seq(Tracked) /\ support \in [Places -> Nat]
<1> SUFFICES ASSUME IndInv PROVE tracks \in Seq(Tracked) /\ support \in [Places -> Nat]
  OBVIOUS
<1> DEFINE K == Kept(support, elapsed, scene.quiet, Thrown)
<1>1. tracks \in Seq(K) /\ support \in [Places -> Nat]
  BY DEF IndInv
<1>2. \A t \in K : t \in Tracked
  BY DEF Kept
<1> HIDE DEF K
<1> QED
  BY <1>1, <1>2

\* In an update that counts a lone detection, one of the tracks before the
\* deduplication is its own.
LEMMA LoneUpdated ==
  ASSUME IndInv, LoneInv, NEW step \in Nat, NEW ds \in Seq(Dets), IsInjective(ds),
         NEW a \in Associations(tracks, ds), NEW stay,
         NEW d \in Dets, Alone(d, ds),
         lone[d] > 0 \/ \A i \in DOMAIN tracks : ~Candidate(tracks[i], d),
         NEW updated, updated = Updated(Moved(tracks, step), ds, a, stay),
         NEW created, created = Created(ds, a)
  PROVE  /\ updated \o created \in Seq(Tracked)
         /\ OnlyOne(updated \o created, d, Smaller(lone[d] + 1, ConfirmHits))
<1>1. tracks \in Seq(Tracked) /\ support \in [Places -> Nat]
  BY TracksAreTracked
<1> DEFINE n == lone[d]
           n2 == Smaller(n + 1, ConfirmHits)
<1>2. n \in 0 .. ConfirmHits /\ (n > 0 => OwnTrack(tracks, d, n)) /\ ConfirmHits \in Nat \ {0}
  BY HitsToConfirm DEF LoneInv
<1>3. DOMAIN updated = DOMAIN tracks /\ updated \in Seq(Tracked)
  <2>1. updated = [i \in DOMAIN tracks |-> updated[i]]
        /\ DOMAIN tracks = 1 .. Len(tracks) /\ Len(tracks) \in Nat
    BY <1>1 DEF Updated, Moved
  <2>2. \A i \in DOMAIN tracks : updated[i] \in Tracked
    BY <1>1, OwnUpdated
  <2> QED
    BY <2>1, <2>2
<1>4. /\ created \in Seq(Tracked)
      /\ (\E p \in a : ds[p[2]] = d /\ p[2] \in DOMAIN ds)
            => \A l \in DOMAIN created : Far(created[l].smooth, d)
      /\ (\A p \in a : p[2] \in DOMAIN ds => ds[p[2]] # d) => OnlyOne(created, d, 1)
  BY <1>1, OthersCreated
<1>5. \A p \in a : p[1] \in DOMAIN tracks /\ p[2] \in DOMAIN ds /\ Candidate(tracks[p[1]], ds[p[2]])
  BY DEF Associations
<1>6. CASE n > 0
  <2>1. PICK k \in DOMAIN tracks :
          /\ tracks[k].smooth = d /\ tracks[k].hits >= n
          /\ \A i \in DOMAIN tracks : i # k => Far(tracks[i].smooth, d)
    BY <1>2, <1>6 DEF OwnTrack
  <2>2. PICK j \in DOMAIN ds : ds[j] = d
    BY DEF Alone
  <2>3. PICK p \in a : p[1] = k
    BY <2>1, <2>2, OwnAssociated
  <2>4. ds[p[2]] = d /\ p[2] \in DOMAIN ds
    <3>1. ~Far(d, ds[p[2]])
      BY <1>5, <2>1, <2>3, FarFacts
    <3> QED
      BY <1>5, <3>1 DEF Alone, Far
  <2> HIDE DEF n
  <2>5. Showing(updated[k], d, n2)
    BY <1>1, <1>2, <2>1, <2>3, OwnUpdated
  <2> HIDE DEF n2
  <2>6. ASSUME NEW i \in DOMAIN updated, i # k PROVE Far(updated[i].smooth, d)
    BY <1>1, <1>3, <2>1, <2>6, OwnUpdated
  <2>7. OnlyOne(updated, d, n2)
    BY <1>3, <2>1, <2>5, <2>6 DEF OnlyOne
  <2>8. \A l \in DOMAIN created : Far(created[l].smooth, d)
    BY <1>4, <2>3, <2>4
  <2> QED
    BY <1>3, <1>4, <2>7, <2>8, OnlyOneOfBoth DEF n2, n
<1>7. CASE ~(n > 0)
  <2>1. \A i \in DOMAIN tracks : Far(tracks[i].smooth, d)
    BY <1>7, FarFacts
  <2>2. n2 = 1
    <3> HIDE DEF n
    <3> QED
      BY <1>2, <1>7 DEF Smaller
  <2>3. \A p \in a : p[2] \in DOMAIN ds => ds[p[2]] # d
    BY <1>5, <2>1, FarFacts
  <2>4. OnlyOne(created, d, n2)
    BY <1>4, <2>2, <2>3
  <2>5. \A i \in DOMAIN updated : Far(updated[i].smooth, d)
    BY <1>1, <1>3, <2>1, OwnUpdated
  <2> HIDE DEF n2
  <2> QED
    BY <1>3, <1>4, <2>4, <2>5, OnlyOneOfBoth DEF n2, n
<1> QED
  BY <1>6, <1>7

\* So an update keeps the invariant,
LEMMA UpdateKeepsLoneInv ==
  ASSUME IndInv, LoneInv, NEW step \in Steps, NEW ds \in Seq(Dets), IsInjective(ds),
         Update(step, ds)
  PROVE  LoneInv'
<1>1. step \in Nat /\ ConfirmHits \in Nat \ {0} /\ lone \in [Dets -> 0 .. ConfirmHits]
  BY TrackerAssumption DEF LoneInv
<1>2. Latest' = Drawable(tracks') /\ tracks' \in Seq(Tracked)
  <2>1. IndInv' /\ Latest' = Drawable(tracks')
    BY UpdateKeepsIndInv
  <2>2. (tracks \in Seq(Tracked))'
    BY <2>1, TracksAreTracked, PTL
  <2> QED
    BY <2>1, <2>2
<1> DEFINE aged == Moved(tracks, step)
<1>3. PICK a \in Associations(tracks, ds) : \E stay \in SUBSET Filterable(a, ds) :
        \E secondHasMore \in {FALSE, ManyHits(Updated(aged, ds, a, stay))} :
          /\ tracks' = Settled(Updated(aged, ds, a, stay) \o Created(ds, a), secondHasMore)
          /\ lone' = LoneAfter(ds)
  BY DEF Update, Moved
<1>4. PICK stay, secondHasMore :
          /\ tracks' = Settled(Updated(aged, ds, a, stay) \o Created(ds, a), secondHasMore)
          /\ lone' = LoneAfter(ds)
  BY <1>3
<1>5. ASSUME NEW d \in Dets
      PROVE  /\ lone'[d] \in 0 .. ConfirmHits
             /\ lone'[d] > 0 =>
                  /\ Alone(d, ds) /\ (lone[d] > 0 \/ \A i \in DOMAIN tracks : ~Candidate(tracks[i], d))
                  /\ lone'[d] = Smaller(lone[d] + 1, ConfirmHits)
  <2> DEFINE n == lone[d]
             counts == Alone(d, ds) /\ (n > 0 \/ \A i \in DOMAIN tracks : ~Candidate(tracks[i], d))
  <2>1. lone'[d] = IF counts THEN Smaller(n + 1, ConfirmHits) ELSE 0
    BY <1>4 DEF LoneAfter
  <2>2. n \in 0 .. ConfirmHits
    BY <1>1
  <2> HIDE DEF n, counts
  <2>3. Smaller(n + 1, ConfirmHits) \in 0 .. ConfirmHits
    BY <1>1, <2>2 DEF Smaller
  <2>4. 0 \in 0 .. ConfirmHits /\ ~(0 > 0)
    BY <1>1
  <2> QED
    BY <2>1, <2>3, <2>4 DEF n, counts
<1>6. lone' \in [Dets -> 0 .. ConfirmHits]
  <2>1. lone' = [d \in Dets |-> lone'[d]]
    BY <1>4 DEF LoneAfter
  <2> QED
    BY <1>5, <2>1
<1>7. ASSUME NEW d \in Dets, lone'[d] > 0
      PROVE  OnlyOne(tracks', d, lone'[d])
  <2> DEFINE updated == Updated(aged, ds, a, stay)
             created == Created(ds, a)
             n == lone'[d]
  <2>1. Alone(d, ds) /\ (lone[d] > 0 \/ \A i \in DOMAIN tracks : ~Candidate(tracks[i], d))
    BY <1>5, <1>7
  <2>2. updated = Updated(Moved(tracks, step), ds, a, stay) /\ created = Created(ds, a)
    OBVIOUS
  <2>3. tracks' = Settled(updated \o created, secondHasMore)
    BY <1>4
  <2>4. n = Smaller(lone[d] + 1, ConfirmHits)
    BY <1>5, <1>7
  <2> HIDE DEF updated, created, aged, n
  <2>5. updated \o created \in Seq(Tracked) /\ OnlyOne(updated \o created, d, n)
    BY <1>1, <2>1, <2>2, <2>4, LoneUpdated
  <2>6. OnlyOne(tracks', d, n)
    BY <2>3, <2>5, OnlyOneSettled
  <2> QED
    BY <2>6 DEF n
<1>8. ASSUME NEW d \in Dets, lone'[d] > 0 PROVE OwnTrack(tracks', d, lone'[d])
  BY <1>7, <1>8 DEF OnlyOne, OwnTrack, Showing
<1>9. ASSUME NEW d \in Dets, lone'[d] >= ConfirmHits PROVE \E i \in DOMAIN Latest' : Latest'[i] = d
  <2>1. lone'[d] = ConfirmHits /\ lone'[d] > 0
    <3>1. lone'[d] \in 0 .. ConfirmHits
      BY <1>6
    <3> QED
      BY <1>1, <1>9, <3>1
  <2>2. OnlyOne(tracks', d, ConfirmHits)
    BY <1>7, <2>1
  <2> QED
    BY <1>2, <2>2, OnlyOneDrawn
<1> QED
  BY <1>6, <1>8, <1>9 DEF LoneInv, LoneObjectIsShown

\* and a restart only moves the times.
LEMMA RestartKeepsLoneInv ==
  ASSUME IndInv, LoneInv, Restart
  PROVE  LoneInv'
<1>1. tracks \in Seq(Tracked)
  BY TracksAreTracked
<1>2. /\ tracks' = [i \in DOMAIN tracks |-> [tracks[i] EXCEPT !.age = @ - elapsed]]
      /\ lone' = lone
  BY DEF Restart
<1>3. Latest' = Latest
  BY RestartKeepsIndInv
<1>4. ASSUME NEW i \in DOMAIN tracks
      PROVE  tracks'[i].smooth = tracks[i].smooth /\ tracks'[i].hits = tracks[i].hits
  <2> DEFINE t == tracks[i]
             u == tracks'[i]
  <2>1. t \in TrackShape
    BY <1>1 DEF Tracked
  <2>2. u = [t EXCEPT !.age = @ - elapsed]
    BY <1>2
  <2> HIDE DEF t, u
  <2>3. u.smooth = t.smooth /\ u.hits = t.hits
    BY <2>1, <2>2 DEF TrackShape
  <2> QED
    BY <2>3 DEF t, u
<1>5. DOMAIN tracks' = DOMAIN tracks
  BY <1>2
<1>6. ASSUME NEW d \in Dets, lone[d] > 0 PROVE OwnTrack(tracks', d, lone[d])
  <2>1. OwnTrack(tracks, d, lone[d])
    BY <1>6 DEF LoneInv
  <2> DEFINE n == lone[d]
  <2> HIDE DEF n
  <2>2. OwnTrack(tracks', d, n)
    BY <1>4, <1>5, <2>1 DEF OwnTrack, n
  <2> QED
    BY <2>2 DEF n
<1> QED
  BY <1>2, <1>3, <1>6 DEF LoneInv, LoneObjectIsShown

\* What is detected again and again with nothing near it is drawn from the
\* ConfirmHits-th time on, exactly where and as what it was detected, for any boxes,
\* times and limits and whatever else is detected (SharedDetections.hpp, update).
THEOREM LoneObjectsAreDrawn == Spec => []LoneObjectIsShown
<1>1. Init => LoneInv
  <2> SUFFICES ASSUME Init PROVE LoneInv
    OBVIOUS
  <2>1. ConfirmHits \in Nat \ {0}
    BY TrackerAssumption
  <2>2. \A d \in Dets : lone[d] = 0
    BY DEF Init
  <2>3. lone \in [Dets -> 0 .. ConfirmHits]
    <3>1. 0 \in 0 .. ConfirmHits
      BY <2>1
    <3> QED
      BY <3>1 DEF Init
  <2> QED
    BY <2>1, <2>2, <2>3 DEF LoneInv, LoneObjectIsShown
<1>2. IndInv /\ LoneInv /\ [Next]_vars => LoneInv'
  <2> SUFFICES ASSUME IndInv, LoneInv, [Next]_vars PROVE LoneInv'
    OBVIOUS
  <2>1. CASE Inferred
    <3>1. PICK step \in Steps, ds \in SeqOf(Dets, MaxDets) : IsInjective(ds) /\ Update(step, ds)
      BY <2>1 DEF Inferred
    <3>2. ds \in Seq(Dets)
      BY <3>1 DEF SeqOf
    <3> QED
      BY <3>1, <3>2, UpdateKeepsLoneInv
  <2>2. CASE Restart
    BY <2>2, RestartKeepsLoneInv
  <2>3. CASE UNCHANGED vars
    BY <2>3 DEF vars, LoneInv, LoneObjectIsShown, Latest
  <2> QED
    BY <2>1, <2>2, <2>3 DEF Next
<1>3. LoneInv => LoneObjectIsShown
  BY DEF LoneInv
<1> QED
  BY <1>1, <1>2, <1>3, Invariance, PTL DEF Spec
===============================================================================
