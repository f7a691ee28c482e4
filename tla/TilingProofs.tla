----------------------------- MODULE TilingProofs -----------------------------
(***************************************************************************)
(* What holds of tiles, joint regions and published boxes for every frame, *)
(* region, grid and overlap, and for whatever inference finds: lists and   *)
(* the geometry of boxes, tiles, loops, joint regions, the merge of tiles, *)
(* the choice among competing boxes, and the invariant.                    *)
(***************************************************************************)
EXTENDS Tiling, FiniteSetTheorems, WellFoundedInduction, TLAPS

-------------------------------------------------------------------------------
(* Parts of lists.                                                         *)

\* Ranks number the positions from one, in their order.
LEMMA RankFacts ==
  ASSUME NEW n \in Nat, NEW I \in SUBSET (1 .. n)
  PROVE  /\ Cardinality(I) \in Nat
         /\ \A i \in I : Rank(I, i) \in 1 .. Cardinality(I)
         /\ \A i, j \in I : i < j => Rank(I, i) < Rank(I, j)
         /\ \A k \in 1 .. Cardinality(I) : \E i \in I : Rank(I, i) = k
<1> DEFINE upTo(i) == {j \in I : j <= i}
           m == Cardinality(I)
           rank == [i \in I |-> Rank(I, i)]
<1>1. IsFiniteSet(I) /\ m \in Nat /\ \A i \in I : i \in Int
  <2>1. IsFiniteSet(1 .. n)
    BY FS_Interval
  <2>2. IsFiniteSet(I)
    BY <2>1, FS_Subset
  <2> QED
    BY <2>2, FS_CardinalityType
<1>2. ASSUME NEW i \in I
      PROVE  IsFiniteSet(upTo(i)) /\ Rank(I, i) = Cardinality(upTo(i)) /\ Rank(I, i) \in 1 .. m
  <2>1. upTo(i) \in SUBSET I /\ i \in upTo(i)
    OBVIOUS
  <2>2. IsFiniteSet(upTo(i)) /\ Cardinality(upTo(i)) \in Nat /\ Cardinality(upTo(i)) <= m
    BY <1>1, <2>1, FS_Subset, FS_CardinalityType
  <2>3. Cardinality(upTo(i)) # 0
    BY <2>1, <2>2, FS_EmptySet
  <2> HIDE DEF m
  <2> QED
    BY <1>1, <2>2, <2>3 DEF Rank
<1>3. ASSUME NEW i \in I, NEW j \in I, i < j
      PROVE  Rank(I, i) < Rank(I, j)
  <2>1. upTo(i) \in SUBSET upTo(j) /\ j \in upTo(j) /\ j \notin upTo(i)
    <3>1. i \in Int /\ j \in Int /\ i < j
      BY <1>1, <1>3
    <3>2. ASSUME NEW k \in upTo(i) PROVE k \in upTo(j)
      <4>1. k \in I /\ k <= i /\ k \in Int
        BY <1>1
      <4> QED
        BY <3>1, <4>1
    <3>3. j \in upTo(j) /\ j \notin upTo(i)
      BY <3>1
    <3> HIDE DEF upTo
    <3> QED
      BY <3>2, <3>3
  <2>2. Cardinality(upTo(i)) <= Cardinality(upTo(j)) /\ Cardinality(upTo(i)) # Cardinality(upTo(j))
    <3> HIDE DEF upTo
    <3> QED
      BY <1>2, <2>1, FS_Subset
  <2> HIDE DEF upTo, m
  <2> QED
    BY <1>1, <1>2, <2>2
<1>4. rank \in Injection(I, 1 .. m)
  <2>1. rank \in [I -> 1 .. m]
    BY <1>2
  <2>2. ASSUME NEW i \in I, NEW j \in I, rank[i] = rank[j] PROVE i = j
    <3>1. Rank(I, i) = Rank(I, j)
      BY <2>2
    <3>2. i \in Int /\ j \in Int /\ Rank(I, i) \in Int
      <4> HIDE DEF upTo
      <4> QED
        BY <1>1, <1>2
    <3> QED
      BY <1>3, <3>1, <3>2
  <2> QED
    BY <2>1, <2>2 DEF Injection, IsInjective
<1>5. rank \in Surjection(I, 1 .. m)
  <2>1. IsFiniteSet(1 .. m) /\ Cardinality(1 .. m) = m
    <3> HIDE DEF m
    <3> QED
      BY <1>1, FS_Interval
  <2> HIDE DEF rank
  <2> QED
    BY <1>4, <2>1, FS_Injection
<1>6. \A k \in 1 .. m : \E i \in I : Rank(I, i) = k
  BY <1>5 DEF Surjection
<1> QED
  BY <1>1, <1>2, <1>3, <1>6

\* A sublist has its elements in their order: position at[k] of the list
\* becomes position k, and every chosen position becomes one.
LEMMA SublistFacts ==
  ASSUME NEW s, NEW n \in Nat, NEW I \in SUBSET (1 .. n)
  PROVE  /\ Cardinality(I) \in Nat
         /\ DOMAIN Sublist(s, I) = 1 .. Cardinality(I)
         /\ \A i \in I : Rank(I, i) \in 1 .. Cardinality(I) /\ Sublist(s, I)[Rank(I, i)] = s[i]
         /\ \A k \in 1 .. Cardinality(I) : \E i \in I : Rank(I, i) = k /\ Sublist(s, I)[k] = s[i]
         /\ \A i, j \in I : i < j => Rank(I, i) < Rank(I, j)
<1>1. /\ Cardinality(I) \in Nat
      /\ \A i \in I : Rank(I, i) \in 1 .. Cardinality(I)
      /\ \A i, j \in I : i < j => Rank(I, i) < Rank(I, j)
      /\ \A k \in 1 .. Cardinality(I) : \E i \in I : Rank(I, i) = k
  BY RankFacts
<1>2. \A i, j \in I : Rank(I, i) = Rank(I, j) => i = j
  <2> SUFFICES ASSUME NEW i \in I, NEW j \in I, Rank(I, i) = Rank(I, j) PROVE i = j
    OBVIOUS
  <2> i \in Int /\ j \in Int /\ Rank(I, i) \in Int /\ Rank(I, j) \in Int
    BY <1>1
  <2> QED
    BY <1>1
<1>3. ASSUME NEW i \in I PROVE Sublist(s, I)[Rank(I, i)] = s[i]
  <2>1. (CHOOSE j \in I : Rank(I, j) = Rank(I, i)) = i
    BY <1>2
  <2> QED
    BY <1>1, <2>1 DEF Sublist
<1>4. DOMAIN Sublist(s, I) = 1 .. Cardinality(I)
  BY DEF Sublist
<1> QED
  BY <1>1, <1>3, <1>4

\* Its elements are the chosen ones; of two, the first was the first before.
LEMMA SublistPairs ==
  ASSUME NEW S, NEW s \in Seq(S), NEW I \in SUBSET (DOMAIN s)
  PROVE  /\ Sublist(s, I) \in Seq(S)
         /\ Len(Sublist(s, I)) <= Len(s)
         /\ \A i \in I : \E k \in DOMAIN Sublist(s, I) : Sublist(s, I)[k] = s[i]
         /\ \A k \in DOMAIN Sublist(s, I) : \E i \in I : Sublist(s, I)[k] = s[i]
         /\ \A k, l \in DOMAIN Sublist(s, I) : k < l =>
              \E i, j \in I : i < j /\ Sublist(s, I)[k] = s[i] /\ Sublist(s, I)[l] = s[j]
<1> DEFINE t == Sublist(s, I)
           m == Cardinality(I)
<1>0. Len(s) \in Nat /\ DOMAIN s = 1 .. Len(s) /\ I \in SUBSET (1 .. Len(s))
  OBVIOUS
<1>1. /\ m \in Nat
      /\ DOMAIN t = 1 .. m
      /\ \A i \in I : Rank(I, i) \in 1 .. m /\ t[Rank(I, i)] = s[i]
      /\ \A k \in 1 .. m : \E i \in I : Rank(I, i) = k /\ t[k] = s[i]
      /\ \A i, j \in I : i < j => Rank(I, i) < Rank(I, j)
  BY <1>0, SublistFacts, Zenon
<1>2. m <= Len(s)
  <2>1. IsFiniteSet(1 .. Len(s)) /\ Cardinality(1 .. Len(s)) = Len(s)
    <3> DEFINE n == Len(s)
    <3>1. n \in Nat
      OBVIOUS
    <3> HIDE DEF n
    <3>2. IsFiniteSet(1 .. n) /\ Cardinality(1 .. n) = IF 1 > n THEN 0 ELSE n - 1 + 1
      BY <3>1, FS_Interval
    <3>3. IsFiniteSet(1 .. n) /\ Cardinality(1 .. n) = n
      BY <3>1, <3>2
    <3> QED
      BY <3>3 DEF n
  <2> QED
    BY <1>0, <2>1, FS_Subset
<1>3. t = [k \in 1 .. m |-> t[k]]
  BY DEF Sublist
<1> HIDE DEF t, m
<1>4. t \in Seq(S) /\ Len(t) = m
  <2>1. \A k \in 1 .. m : t[k] \in S
    BY <1>0, <1>1
  <2> QED
    BY <1>1, <1>3, <2>1
<1>5. ASSUME NEW k \in DOMAIN t, NEW l \in DOMAIN t, k < l
      PROVE  \E i, j \in I : i < j /\ t[k] = s[i] /\ t[l] = s[j]
  <2>1. PICK i \in I : Rank(I, i) = k /\ t[k] = s[i]
    BY <1>1
  <2>2. PICK j \in I : Rank(I, j) = l /\ t[l] = s[j]
    BY <1>1
  <2>3. i < j
    <3>1. i \in Int /\ j \in Int /\ k \in Int /\ l \in Int
      BY <1>0, <1>1
    <3>2. i # j
      BY <1>5, <2>1, <2>2, <3>1
    <3>3. ASSUME j < i PROVE FALSE
      BY SMTT(20), <1>1, <1>5, <2>1, <2>2, <3>1, <3>3
    <3> QED
      BY <3>1, <3>2, <3>3
  <2> QED
    BY <2>1, <2>2, <2>3
<1>6. \A i \in I : \E k \in DOMAIN t : t[k] = s[i]
  BY <1>1
<1>7. \A k \in DOMAIN t : \E i \in I : t[k] = s[i]
  BY <1>1
<1> QED
  BY <1>2, <1>4, <1>5, <1>6, <1>7 DEF t

-------------------------------------------------------------------------------
(* The geometry of duplicates.                                             *)

\* Multiplying by something positive keeps the order.
LEMMA Scaled ==
  ASSUME NEW a \in Int, NEW b \in Int, NEW c \in Nat, a <= b
  PROVE  a * c <= b * c /\ c * a <= c * b /\ a * c \in Int /\ (a < b /\ c > 0 => a * c < b * c)
OBVIOUS

\* The common part of two intervals is no longer than either; if it is half of one,
\* the middle of that one lies in the other.
LEMMA SharedPart ==
  ASSUME NEW a1 \in Int, NEW a2 \in Int, NEW b1 \in Int, NEW b2 \in Int, a1 <= a2, b1 <= b2
  PROVE  LET shared == Larger(0, Smaller(a2, b2) - Larger(a1, b1)) IN
         /\ shared \in Nat /\ shared <= a2 - a1 /\ shared <= b2 - b1
         /\ shared > 0 /\ 2 * shared >= a2 - a1 => a1 + a2 \in 2 * b1 .. 2 * b2
         /\ shared > 0 /\ 2 * shared >= b2 - b1 => b1 + b2 \in 2 * a1 .. 2 * a2
BY DEF Larger, Smaller

\* Areas are products of the sides, and the common one is common to both.
LEMMA Areas ==
  ASSUME NEW a, NEW b, IsBox(a), IsBox(b)
  PROVE  /\ Area(a) = Width(a) * Height(a) /\ Area(a) \in Nat
         /\ Width(a) \in Nat /\ Height(a) \in Nat
         /\ Area(b) = Width(b) * Height(b) /\ Area(b) \in Nat
         /\ Width(b) \in Nat /\ Height(b) \in Nat
         /\ Intersection(a, b) \in Nat /\ Intersection(a, b) = Intersection(b, a)
<1>1. Width(a) \in Nat /\ Height(a) \in Nat /\ Width(b) \in Nat /\ Height(b) \in Nat
  BY DEF IsBox, Width, Height
<1>2. Area(a) = Width(a) * Height(a) /\ Area(b) = Width(b) * Height(b)
  BY <1>1 DEF Area, Larger
<1>3. /\ Larger(0, Smaller(a.x2, b.x2) - Larger(a.x1, b.x1)) \in Nat
      /\ Larger(0, Smaller(a.y2, b.y2) - Larger(a.y1, b.y1)) \in Nat
      /\ Smaller(a.x2, b.x2) = Smaller(b.x2, a.x2) /\ Larger(a.x1, b.x1) = Larger(b.x1, a.x1)
      /\ Smaller(a.y2, b.y2) = Smaller(b.y2, a.y2) /\ Larger(a.y1, b.y1) = Larger(b.y1, a.y1)
  BY DEF IsBox, Larger, Smaller
<1> QED
  BY <1>1, <1>2, <1>3 DEF Intersection

\* A share of at least half of a product of two sides is one of either side.
LEMMA HalfOfBoth ==
  ASSUME NEW w \in Nat, NEW h \in Nat, NEW iw \in Nat, NEW ih \in Nat,
         iw <= w, ih <= h, w * h > 0, 2 * (iw * ih) >= w * h
  PROVE  /\ iw > 0 /\ ih > 0
         /\ 2 * iw >= w /\ 2 * ih >= h
<1>1. w > 0 /\ h > 0
  OBVIOUS
<1>2. iw > 0 /\ ih > 0
  OBVIOUS
<1>3. 2 * iw >= w
  <2> SUFFICES ASSUME 2 * iw < w PROVE FALSE
    OBVIOUS
  <2>1. (2 * iw) * h < w * h
    BY <1>1, Scaled
  <2>2. iw * ih <= iw * h
    BY Scaled
  <2>3. (2 * iw) * h = 2 * (iw * h)
    OBVIOUS
  <2>4. w * h \in Int /\ iw * h \in Int /\ iw * ih \in Int
    OBVIOUS
  <2> QED
    BY <2>1, <2>2, <2>3, <2>4
<1>4. 2 * ih >= h
  <2> SUFFICES ASSUME 2 * ih < h PROVE FALSE
    OBVIOUS
  <2>1. w * (2 * ih) < w * h
    BY <1>1, Scaled
  <2>2. iw * ih <= w * ih
    BY Scaled
  <2>3. w * (2 * ih) = 2 * (w * ih)
    OBVIOUS
  <2>4. w * h \in Int /\ w * ih \in Int /\ iw * ih \in Int
    OBVIOUS
  <2> QED
    BY <2>1, <2>2, <2>3, <2>4
<1> QED
  BY <1>2, <1>3, <1>4

\* Half of the smaller box in common puts its centre into the other one: the
\* condition on the centres in is_cross_class_competitor follows from the first.
LEMMA HalfIsNested ==
  ASSUME NEW a, NEW b, IsBox(a), IsBox(b), NEW percent \in 50 .. 100,
         ContainmentAtLeast(a, b, percent)
  PROVE  Nested(a, b)
<1> DEFINE iw == Larger(0, Smaller(a.x2, b.x2) - Larger(a.x1, b.x1))
           ih == Larger(0, Smaller(a.y2, b.y2) - Larger(a.y1, b.y1))
           smaller == Smaller(Area(a), Area(b))
<1>1. /\ a.x1 \in Int /\ a.x2 \in Int /\ a.y1 \in Int /\ a.y2 \in Int /\ a.x1 <= a.x2 /\ a.y1 <= a.y2
      /\ b.x1 \in Int /\ b.x2 \in Int /\ b.y1 \in Int /\ b.y2 \in Int /\ b.x1 <= b.x2 /\ b.y1 <= b.y2
  BY DEF IsBox
<1>2. /\ iw \in Nat /\ iw <= a.x2 - a.x1 /\ iw <= b.x2 - b.x1
      /\ iw > 0 /\ 2 * iw >= a.x2 - a.x1 => a.x1 + a.x2 \in 2 * b.x1 .. 2 * b.x2
      /\ iw > 0 /\ 2 * iw >= b.x2 - b.x1 => b.x1 + b.x2 \in 2 * a.x1 .. 2 * a.x2
  BY <1>1, SharedPart
<1>3. /\ ih \in Nat /\ ih <= a.y2 - a.y1 /\ ih <= b.y2 - b.y1
      /\ ih > 0 /\ 2 * ih >= a.y2 - a.y1 => a.y1 + a.y2 \in 2 * b.y1 .. 2 * b.y2
      /\ ih > 0 /\ 2 * ih >= b.y2 - b.y1 => b.y1 + b.y2 \in 2 * a.y1 .. 2 * a.y2
  BY <1>1, SharedPart
<1>4. Intersection(a, b) = iw * ih
  BY DEF Intersection
<1> HIDE DEF iw, ih
<1>5. smaller > 0 /\ 2 * (iw * ih) >= smaller /\ smaller \in Nat
  <2>1. smaller \in Nat
    BY Areas DEF Smaller
  <2>2. smaller > 0 /\ 100 * (iw * ih) >= percent * smaller
    BY <1>4 DEF ContainmentAtLeast
  <2>3. percent * smaller >= 50 * smaller
    <3> HIDE DEF smaller
    <3> QED
      BY <2>1, Scaled
  <2>4. iw * ih \in Int
    BY <1>2, <1>3
  <2> HIDE DEF smaller
  <2> QED
    BY <2>1, <2>2, <2>3, <2>4
<1>6. CASE Area(a) <= Area(b)
  <2>1. smaller = Width(a) * Height(a)
    BY <1>6, Areas DEF Smaller
  <2>2. iw > 0 /\ ih > 0 /\ 2 * iw >= Width(a) /\ 2 * ih >= Height(a)
    BY <1>2, <1>3, <1>5, <2>1, Areas, HalfOfBoth DEF Width, Height
  <2> QED
    BY <1>2, <1>3, <1>6, <2>2 DEF Nested, CenterInside, Width, Height
<1>7. CASE ~(Area(a) <= Area(b))
  <2>1. smaller = Width(b) * Height(b)
    BY <1>7, Areas DEF Smaller
  <2>2. iw > 0 /\ ih > 0 /\ 2 * iw >= Width(b) /\ 2 * ih >= Height(b)
    BY <1>2, <1>3, <1>5, <2>1, Areas, HalfOfBoth DEF Width, Height
  <2> QED
    BY <1>2, <1>3, <1>7, <2>2 DEF Nested, CenterInside, Width, Height
<1> QED
  BY <1>6, <1>7

\* The relations between boxes are symmetric.
LEMMA GeometrySymmetric ==
  ASSUME NEW a, NEW b, IsBox(a), IsBox(b)
  PROVE  /\ ContainmentAtLeast(a, b, 70) => ContainmentAtLeast(b, a, 70) /\ Nested(b, a)
         /\ Rivals(a, b) => Rivals(b, a)
<1>1. /\ Intersection(a, b) = Intersection(b, a) /\ Smaller(Area(a), Area(b)) = Smaller(Area(b), Area(a))
      /\ Area(a) + Area(b) - Intersection(a, b) = Area(b) + Area(a) - Intersection(b, a)
  BY Areas DEF Smaller
<1>2. \A p : ContainmentAtLeast(a, b, p) => ContainmentAtLeast(b, a, p)
  BY <1>1 DEF ContainmentAtLeast
<1>3. \A p : OverlapAtLeast(a, b, p) => OverlapAtLeast(b, a, p)
  BY <1>1 DEF OverlapAtLeast
<1>4. ContainmentAtLeast(b, a, 50) => Nested(b, a)
  BY HalfIsNested
<1>5. ContainmentAtLeast(b, a, 70) => Nested(b, a)
  BY HalfIsNested
<1> QED
  BY <1>2, <1>3, <1>4, <1>5 DEF Rivals

-------------------------------------------------------------------------------
(* Removing duplicates.                                                    *)

\* Induction over the naturals, by their well-foundedness.
LEMMA Induction ==
  ASSUME NEW T, 0 \in T, \A n \in Nat : n \in T => n + 1 \in T
  PROVE  Nat \subseteq T
<1> DEFINE R == OpToRel(<, Nat)
           Rest == Nat \ T
<1>0. \A x, y \in Nat : x < y => <<x, y>> \in R
  BY DEF OpToRel
<1> HIDE DEF R
<1> SUFFICES ASSUME Rest # {} PROVE FALSE
  OBVIOUS
<1>1. PICK x \in Rest : \A y \in Rest : ~(<<y, x>> \in R)
  <2>1. IsWellFoundedOn(R, Nat)
    BY NatLessThanWellFounded DEF R
  <2>2. Rest \subseteq Nat
    OBVIOUS
  <2> HIDE DEF Rest
  <2> QED
    BY <2>1, <2>2, WFMin
<1>2. x # 0
  BY <1>1
<1>3. x - 1 \in Nat /\ x - 1 < x
  BY <1>1, <1>2
<1>4. x - 1 \notin Rest
  BY <1>0, <1>1, <1>3
<1> QED
  BY <1>1, <1>3, <1>4

\* The turn at which the loops of the deduplication compare positions i and j.
LEMMA TurnOf ==
  ASSUME NEW n \in Nat, NEW i \in 1 .. n, NEW j \in 1 .. n
  PROVE  \E k \in 1 .. n * n : <<1 + ((k - 1) \div n), 1 + ((k - 1) % n)>> = <<i, j>>
<1> DEFINE q == i - 1
           r == j - 1
           k == q * n + r + 1
<1>1. n > 0 /\ q \in 0 .. n - 1 /\ r \in 0 .. n - 1
  OBVIOUS
<1> HIDE DEF q, r
<1>2. q * n \in Nat /\ n * n \in Nat /\ q * n <= (n - 1) * n /\ (n - 1) * n = n * n - n
  BY <1>1
<1>3. k \in 1 .. n * n /\ k - 1 = q * n + r
  BY <1>1, <1>2
<1>4. (q * n + r) \div n = q /\ (q * n + r) % n = r
  BY <1>1, <1>2
<1> HIDE DEF k
<1>5. (k - 1) \div n = q /\ (k - 1) % n = r /\ 1 + q = i /\ 1 + r = j
  BY <1>3, <1>4 DEF q, r
<1>6. <<1 + ((k - 1) \div n), 1 + ((k - 1) % n)>> = <<i, j>>
  BY <1>5
<1> QED
  BY <1>3, <1>6

-------------------------------------------------------------------------------
(* Tiles.                                                                  *)

\* Rounding to even pixels goes down by at most one.
LEMMA EvenBounds ==
  ASSUME NEW n \in Int
  PROVE  /\ Even(n) \in Int /\ Even(n) <= n /\ n - 1 <= Even(n) /\ Even(n) % 2 = 0
         /\ n >= 0 => Even(n) >= 0
         /\ n >= 2 => Even(n) >= 2
BY DEF Even

\* ... and to multiples of sixteen by at most fifteen.
LEMMA Down16Bounds ==
  ASSUME NEW n \in Int
  PROVE  /\ Down16(n) \in Int /\ Down16(n) <= n /\ n - 15 <= Down16(n)
         /\ Down16(n) % 16 = 0
         /\ n >= 0 => Down16(n) >= 0
BY DEF Down16

\* The overlap is limited, whatever the ratio and the width.
LEMMA OverlapBounds ==
  ASSUME NEW w \in Nat
  PROVE  Overlap(w) \in 384 .. 512
<1>1. (2 * w * OverlapRatio + 100) \div 200 \in Int
  BY TilingAssumption
<1> QED
  BY <1>1 DEF Overlap, Larger, Smaller

\* One axis: a tile starts at even pixels, within its range but for the rounding,
\* and is not empty unless the range is.
LEMMA SpanFits ==
  ASSUME NEW from \in Nat, NEW to \in Nat, from < to,
         NEW n \in Nat, n = 1 \/ n = 2, NEW k \in Nat, k < n,
         NEW overlap \in Nat, 384 <= overlap, overlap <= 512
  PROVE  /\ Span(from, to, n, k, overlap).from \in Nat
         /\ Span(from, to, n, k, overlap).to \in Nat
         /\ Span(from, to, n, k, overlap).to <= to
         /\ Span(from, to, n, k, overlap).from % 2 = 0
         /\ Span(from, to, n, k, overlap).from <= Span(from, to, n, k, overlap).to
         /\ to - from > 1 =>
              Span(from, to, n, k, overlap).from < Span(from, to, n, k, overlap).to
<1> DEFINE size == Larger(2, to - from)
           before == IF k > 0 THEN overlap \div 2 ELSE 0
           after == IF k + 1 < n THEN overlap - overlap \div 2 ELSE 0
           start == Larger(from, from + (size * k) \div n - before)
           end == Smaller(to, from + (size * (k + 1)) \div n + after)
<1>1. Span(from, to, n, k, overlap) =
        [from |-> Even(start), to |-> Even(start) + Even(end - start)]
  BY DEF Span
<1>2. /\ start \in Nat /\ end \in Nat /\ from <= start /\ end <= to /\ start <= end
      /\ to - from > 1 => end - start >= 2
  <2>1. CASE n = 1
    <3>1. k = 0
      BY <2>1
    <3> QED
      BY <2>1, <3>1 DEF Larger, Smaller
  <2>2. CASE n = 2 /\ k = 0
    BY <2>2 DEF Larger, Smaller
  <2>3. CASE n = 2 /\ k = 1
    BY <2>3 DEF Larger, Smaller
  <2> QED
    BY <2>1, <2>2, <2>3
<1> HIDE DEF start, end
<1>3. /\ Even(start) \in Nat /\ Even(start) <= start /\ Even(start) % 2 = 0
  BY <1>2, EvenBounds
<1>4. /\ Even(end - start) \in Nat /\ Even(end - start) <= end - start
      /\ to - from > 1 => Even(end - start) >= 2
  BY <1>2, EvenBounds
<1> QED
  BY <1>1, <1>2, <1>3, <1>4

\* The tiles of one axis leave nothing of their range out but, through the
\* rounding, its last two pixels.
LEMMA SpansCover ==
  ASSUME NEW from \in Nat, NEW to \in Nat, from < to,
         NEW n \in Nat, n = 1 \/ n = 2,
         NEW overlap \in Nat, 384 <= overlap, overlap <= 512,
         NEW px \in from .. to - 3
  PROVE  \E k \in 0 .. n - 1 :
           /\ Span(from, to, n, k, overlap).from <= px
           /\ px < Span(from, to, n, k, overlap).to
<1> DEFINE size == to - from
<1>1. Larger(2, to - from) = size
  BY DEF Larger
<1>2. CASE n = 1
  <2>1. Span(from, to, 1, 0, overlap) =
          [from |-> Even(from), to |-> Even(from) + Even(size)]
    <3>1. Larger(from, from + (size * 0) \div 1 - 0) = from
      BY DEF Larger
    <3>2. Smaller(to, from + (size * (0 + 1)) \div 1 + 0) = to
      BY DEF Smaller
    <3> QED
      BY <1>1, <3>1, <3>2 DEF Span
  <2>2. Even(from) <= from /\ from - 1 <= Even(from) /\ size - 1 <= Even(size)
          /\ Even(from) \in Int /\ Even(size) \in Int
    BY EvenBounds
  <2>3. Even(from) <= px /\ px < Even(from) + Even(size)
    BY <2>2
  <2> QED
    BY <1>2, <2>1, <2>3
<1>3. CASE n = 2
  <2> DEFINE half == size \div 2
             end0 == Smaller(to, from + half + (overlap - overlap \div 2))
             start1 == Larger(from, from + half - overlap \div 2)
  <2>1. Span(from, to, 2, 0, overlap) =
          [from |-> Even(from), to |-> Even(from) + Even(end0 - from)]
    <3>1. Larger(from, from + (size * 0) \div 2 - 0) = from
      BY DEF Larger
    <3> QED
      BY <1>1, <3>1 DEF Span
  <2>2. Span(from, to, 2, 1, overlap) =
          [from |-> Even(start1), to |-> Even(start1) + Even(to - start1)]
    <3>1. (size * (1 + 1)) \div 2 = size /\ (size * 1) \div 2 = half
      OBVIOUS
    <3>2. Smaller(to, from + size + 0) = to
      BY DEF Smaller
    <3> QED
      BY <1>1, <3>1, <3>2 DEF Span
  <2>3. /\ half \in Nat /\ end0 \in Int /\ start1 \in Int /\ from <= start1
        /\ from <= end0 /\ start1 <= to /\ end0 <= to
        /\ (end0 = to \/ start1 + 300 <= end0 \/ start1 = from)
    BY DEF Larger, Smaller
  <2> HIDE DEF end0, start1, half
  <2>4. /\ Even(from) \in Int /\ Even(from) <= from /\ from - 1 <= Even(from)
        /\ Even(start1) \in Int /\ Even(start1) <= start1 /\ start1 - 1 <= Even(start1)
        /\ Even(end0 - from) \in Int /\ end0 - from - 1 <= Even(end0 - from)
        /\ Even(to - start1) \in Int /\ to - start1 - 1 <= Even(to - start1)
    BY <2>3, EvenBounds
  <2>5. \/ Even(from) <= px /\ px < Even(from) + Even(end0 - from)
        \/ Even(start1) <= px /\ px < Even(start1) + Even(to - start1)
    BY <2>3, <2>4
  <2>6. CASE Even(from) <= px /\ px < Even(from) + Even(end0 - from)
    BY <1>3, <2>1, <2>6
  <2>7. CASE Even(start1) <= px /\ px < Even(start1) + Even(to - start1)
    BY <1>3, <2>2, <2>7
  <2> QED
    BY <2>5, <2>6, <2>7
<1> QED
  BY <1>2, <1>3

-------------------------------------------------------------------------------
\* The corners of a region.
LEMMA RegionInFrame ==
  ASSUME NEW r \in Regions
  PROVE  /\ r.x1 \in Nat /\ r.y1 \in Nat /\ r.x2 \in Nat /\ r.y2 \in Nat
         /\ r.x1 < r.x2 /\ r.y1 < r.y2 /\ r.x2 <= FrameWidth /\ r.y2 <= FrameHeight
         /\ Overlap(Larger(2, Width(r))) \in 384 .. 512
<1>1. /\ r.x1 \in Nat /\ r.y1 \in Nat /\ r.x2 \in Nat /\ r.y2 \in Nat
      /\ r.x1 < r.x2 /\ r.y1 < r.y2 /\ r.x2 <= FrameWidth /\ r.y2 <= FrameHeight
  BY TilingAssumption DEF IsBox, Within, FrameBox
<1>2. Larger(2, Width(r)) \in Nat
  BY <1>1 DEF Larger, Width
<1> QED
  BY <1>1, <1>2, OverlapBounds

\* The place of a tile in its row and its column.
LEMMA TilePlace ==
  ASSUME NEW i \in 1 .. Cols * Rows
  PROVE  (i - 1) % Cols \in 0 .. Cols - 1 /\ (i - 1) \div Cols \in 0 .. Rows - 1
<1>1. CASE Cols = 1
  BY <1>1, TilingAssumption
<1>2. CASE Cols = 2 /\ Rows = 1
  BY <1>2
<1>3. CASE Cols = 2 /\ Rows = 2
  BY <1>3
<1> QED
  BY <1>1, <1>2, <1>3, TilingAssumption

\* A tile fits, and has corners.
LEMMA TilesOfRegion ==
  ASSUME region \in Regions, NEW i \in DOMAIN Tiles(region)
  PROVE  /\ Fits(Tiles(region)[i])
         /\ Tiles(region)[i] \in [x1 : Int, y1 : Int, x2 : Int, y2 : Int]
<1> DEFINE overlap == Overlap(Larger(2, Width(region)))
           c == (i - 1) % Cols
           q == (i - 1) \div Cols
           h == Span(region.x1, region.x2, Cols, c, overlap)
           v == Span(region.y1, region.y2, Rows, q, overlap)
<1>1. i \in 1 .. Cols * Rows
  BY DEF Tiles
<1>2. Tiles(region)[i] = [x1 |-> h.from, y1 |-> v.from, x2 |-> h.to, y2 |-> v.to]
  BY <1>1 DEF Tiles
<1>3. /\ h.from \in Nat /\ h.to \in Nat /\ h.to <= region.x2 /\ h.from <= h.to
      /\ h.from % 2 = 0 /\ (region.x2 - region.x1 > 1 => h.from < h.to)
  <2>1. c \in Nat /\ c < Cols
    BY <1>1, TilePlace, TilingAssumption
  <2>2. /\ Cols \in Nat /\ (Cols = 1 \/ Cols = 2)
        /\ overlap \in Nat /\ 384 <= overlap /\ overlap <= 512
    BY RegionInFrame, TilingAssumption
  <2>3. region.x1 \in Nat /\ region.x2 \in Nat /\ region.x1 < region.x2
    BY RegionInFrame
  <2> HIDE DEF overlap, c, q
  <2> QED
    BY <2>1, <2>2, <2>3, SpanFits, SMTT(60)
<1>4. /\ v.from \in Nat /\ v.to \in Nat /\ v.to <= region.y2 /\ v.from <= v.to
      /\ v.from % 2 = 0 /\ (region.y2 - region.y1 > 1 => v.from < v.to)
  <2>1. q \in Nat /\ q < Rows
    BY <1>1, TilePlace, TilingAssumption
  <2>2. /\ Rows \in Nat /\ (Rows = 1 \/ Rows = 2)
        /\ overlap \in Nat /\ 384 <= overlap /\ overlap <= 512
    BY RegionInFrame, TilingAssumption
  <2>3. region.y1 \in Nat /\ region.y2 \in Nat /\ region.y1 < region.y2
    BY RegionInFrame
  <2> HIDE DEF overlap, c, q
  <2> QED
    BY <2>1, <2>2, <2>3, SpanFits, SMTT(60)
<1> HIDE DEF h, v
<1> QED
  BY <1>2, <1>3, <1>4, RegionInFrame, TilingAssumption
  DEF Fits, Within, FrameBox, Width, Height

\* Every tile fits, whatever the frame, the region, the grid and the overlap: none
\* leaves the frame or is empty (make_tiles).
THEOREM TilesAlwaysFit == Spec => []TilesFit
<1> DEFINE Inv == region \in Regions
<1>1. Inv => TilesFit
  BY TilesOfRegion DEF TilesFit
<1>2. Init => Inv
  BY DEF Init
<1>3. Inv /\ [Next]_vars => Inv'
  BY DEF Next, InferTile, MergeTiles, InferJoint, Publish, NextFrame, vars
<1> HIDE DEF Inv
<1> QED
  BY <1>1, <1>2, <1>3, PTL DEF Spec

\* Nothing of a region stays unseen: every pixel of it lies in a tile, but for the
\* last two columns and rows, which the rounding to even sizes may cost.
THEOREM TilesCoverRegion ==
  ASSUME NEW r \in Regions, NEW px \in r.x1 .. r.x2 - 3, NEW py \in r.y1 .. r.y2 - 3
  PROVE  \E i \in DOMAIN Tiles(r) :
           LET t == Tiles(r)[i] IN
           t.x1 <= px /\ px < t.x2 /\ t.y1 <= py /\ py < t.y2
<1> DEFINE overlap == Overlap(Larger(2, Width(r)))
           h(k) == Span(r.x1, r.x2, Cols, k, overlap)
           v(k) == Span(r.y1, r.y2, Rows, k, overlap)
<1>1. PICK c \in 0 .. Cols - 1 : h(c).from <= px /\ px < h(c).to
  <2>1. /\ Cols \in Nat /\ (Cols = 1 \/ Cols = 2)
        /\ overlap \in Nat /\ 384 <= overlap /\ overlap <= 512
    BY RegionInFrame, TilingAssumption
  <2>2. r.x1 \in Nat /\ r.x2 \in Nat /\ r.x1 < r.x2
    BY RegionInFrame
  <2> HIDE DEF overlap
  <2> QED
    BY <2>1, <2>2, SpansCover
<1>2. PICK q \in 0 .. Rows - 1 : v(q).from <= py /\ py < v(q).to
  <2>1. /\ Rows \in Nat /\ (Rows = 1 \/ Rows = 2)
        /\ overlap \in Nat /\ 384 <= overlap /\ overlap <= 512
    BY RegionInFrame, TilingAssumption
  <2>2. r.y1 \in Nat /\ r.y2 \in Nat /\ r.y1 < r.y2
    BY RegionInFrame
  <2> HIDE DEF overlap
  <2> QED
    BY <2>1, <2>2, SpansCover
<1> DEFINE i == q * Cols + c + 1
<1>3. i \in 1 .. Cols * Rows /\ (i - 1) % Cols = c /\ (i - 1) \div Cols = q
  <2>1. CASE Cols = 1
    BY <2>1, TilingAssumption
  <2>2. CASE Cols = 2
    BY <2>2, TilingAssumption
  <2> QED
    BY <2>1, <2>2, TilingAssumption
<1> HIDE DEF i
<1>4. /\ i \in DOMAIN Tiles(r)
      /\ Tiles(r)[i] = [x1 |-> h(c).from, y1 |-> v(q).from, x2 |-> h(c).to, y2 |-> v(q).to]
  BY <1>3 DEF Tiles
<1> HIDE DEF h, v
<1> QED
  BY <1>1, <1>2, <1>4

\* A joint region shows both boxes, as far as they lie in the frame, stays in it, is
\* not empty, and starts at a column that the RGA takes (make_joint_recheck_regions).
THEOREM JointRegionShowsBoth ==
  ASSUME NEW a, NEW b, IsBox(a), IsBox(b),
         a.x1 < FrameWidth, a.x2 > 0, a.y1 < FrameHeight, a.y2 > 0,
         b.x1 < FrameWidth, b.x2 > 0, b.y1 < FrameHeight, b.y2 > 0
  PROVE  LET r == JointRegion(a, b) IN
         /\ r \in [x1 : Int, y1 : Int, x2 : Int, y2 : Int]
         /\ Within(Common(a, FrameBox), r) /\ Within(Common(b, FrameBox), r)
         /\ Within(r, FrameBox) /\ Width(r) > 0 /\ Height(r) > 0
         /\ r.x1 % 16 = 0 /\ r.x1 % 2 = 0 /\ r.y1 % 2 = 0
<1> DEFINE h == Hull(a, b)
           x == Down16(Larger(0, h.x1 - 256))
           y == Even(Larger(0, h.y1 - 160))
           right == Smaller(FrameWidth, Down16(Smaller(FrameWidth, h.x2 + 256) + 15))
           bottom == Even(Smaller(FrameHeight, h.y2 + 160))
<1>0. JointRegion(a, b) =
        [x1 |-> x, y1 |-> y, x2 |-> x + Larger(2, right - x),
         y2 |-> y + Larger(2, bottom - y)]
  BY DEF JointRegion
<1>1. /\ h.x1 \in Int /\ h.x1 <= a.x1 /\ h.x1 <= b.x1 /\ h.x1 < FrameWidth
      /\ h.y1 \in Int /\ h.y1 <= a.y1 /\ h.y1 <= b.y1 /\ h.y1 < FrameHeight
      /\ h.x2 \in Int /\ a.x2 <= h.x2 /\ b.x2 <= h.x2 /\ 0 < h.x2 /\ h.x1 <= h.x2
      /\ h.y2 \in Int /\ a.y2 <= h.y2 /\ b.y2 <= h.y2 /\ 0 < h.y2 /\ h.y1 <= h.y2
  BY DEF Hull, Smaller, Larger, IsBox
<1>2. FrameWidth \in Nat /\ FrameHeight \in Nat /\ FrameWidth >= 2 /\ FrameHeight >= 2
        /\ FrameHeight % 2 = 0
  BY TilingAssumption
<1> HIDE DEF h
<1>3. x \in Nat /\ x % 16 = 0 /\ (x = 0 \/ x + 256 <= h.x1)
  BY <1>1, Down16Bounds, SMTT(20) DEF Larger
<1>4. y \in Nat /\ y % 2 = 0 /\ (y = 0 \/ y + 160 <= h.y1)
  BY <1>1, EvenBounds DEF Larger
<1>5. right \in Nat /\ Smaller(FrameWidth, h.x2) <= right /\ right <= FrameWidth
        /\ (right = FrameWidth \/ right >= h.x2 + 256)
  BY <1>1, <1>2 DEF Smaller, Down16
<1>6. bottom \in Nat /\ Smaller(FrameHeight, h.y2) <= bottom /\ bottom <= FrameHeight
        /\ (bottom = FrameHeight \/ bottom >= h.y2 + 159)
  BY <1>1, <1>2 DEF Smaller, Even
<1> HIDE DEF x, y, right, bottom
<1>7. /\ x + Larger(2, right - x) = right /\ x < right
      /\ y + Larger(2, bottom - y) = bottom /\ y < bottom
  BY <1>1, <1>2, <1>3, <1>4, <1>5, <1>6 DEF Larger
<1>8. JointRegion(a, b) = [x1 |-> x, y1 |-> y, x2 |-> right, y2 |-> bottom]
  BY <1>0, <1>7
<1>9. /\ x <= Larger(a.x1, 0) /\ x <= Larger(b.x1, 0)
      /\ y <= Larger(a.y1, 0) /\ y <= Larger(b.y1, 0)
      /\ Smaller(a.x2, FrameWidth) <= right /\ Smaller(b.x2, FrameWidth) <= right
      /\ Smaller(a.y2, FrameHeight) <= bottom /\ Smaller(b.y2, FrameHeight) <= bottom
  BY <1>1, <1>2, <1>3, <1>4, <1>5, <1>6 DEF Larger, Smaller, IsBox
<1>10. x % 2 = 0
  BY <1>3
<1> QED
  BY <1>2, <1>3, <1>4, <1>5, <1>6, <1>7, <1>8, <1>9, <1>10
  DEF Within, FrameBox, Common, Width, Height

-------------------------------------------------------------------------------
(* Loops.  A loop is a function over its turns; the lemmas say that there  *)
(* is one, and that what its body keeps it has kept at the end.            *)

IsLoop(f, N, S, start, step) ==
  f \in [0 .. N -> S] /\ f[0] = start /\ \A k \in 1 .. N : f[k] = step[k][f[k - 1]]

\* What the body of a loop keeps in S, the loop keeps in S.
LEMMA LoopExists ==
  ASSUME NEW N \in Nat, NEW S, NEW start \in S, NEW step \in [1 .. N -> [S -> S]]
  PROVE  \E f : IsLoop(f, N, S, start, step)
<1> DEFINE Run(f, m) == f \in [0 .. m -> S] /\ f[0] = start
                          /\ \A k \in 1 .. m : f[k] = step[k][f[k - 1]]
           T == {m \in Nat : m <= N => \E f : Run(f, m)}
<1>1. 0 \in T
  <2>1. Run([k \in 0 .. 0 |-> start], 0)
    OBVIOUS
  <2> QED
    BY <2>1
<1>2. ASSUME NEW m \in Nat, m \in T PROVE m + 1 \in T
  <2> SUFFICES ASSUME m + 1 <= N PROVE \E f : Run(f, m + 1)
    OBVIOUS
  <2>1. PICK f : Run(f, m)
    BY <1>2
  <2> DEFINE g == [k \in 0 .. m + 1 |-> IF k <= m THEN f[k] ELSE step[m + 1][f[m]]]
  <2>2. f[m] \in S /\ step[m + 1] \in [S -> S]
    BY <2>1
  <2>3. step[m + 1][f[m]] \in S
    BY <2>2
  <2>4. g \in [0 .. m + 1 -> S] /\ g[0] = start
    BY <2>1, <2>3
  <2>5. ASSUME NEW k \in 1 .. m + 1 PROVE g[k] = step[k][g[k - 1]]
    <3>1. CASE k <= m
      <4>1. k \in 1 .. m /\ g[k] = f[k] /\ g[k - 1] = f[k - 1]
        BY <3>1
      <4> HIDE DEF g
      <4> QED
        BY <2>1, <4>1
    <3>2. CASE k = m + 1
      <4>1. g[k] = step[m + 1][f[m]] /\ g[k - 1] = f[m]
        BY <3>2
      <4> HIDE DEF g
      <4> QED
        BY <3>2, <4>1
    <3> QED
      BY <3>1, <3>2
  <2> HIDE DEF g
  <2> QED
    BY <2>4, <2>5
<1> HIDE DEF T
<1>3. Nat \subseteq T
  BY <1>1, <1>2, Induction
<1> QED
  BY <1>3 DEF T, IsLoop

\* Induction over the turns of a loop.
LEMMA Turns ==
  ASSUME NEW N \in Nat, NEW T, 0 \in T, \A k \in 1 .. N : k - 1 \in T => k \in T
  PROVE  0 .. N \subseteq T
<1> DEFINE U == {m \in Nat : m <= N => m \in T}
<1>1. 0 \in U
  OBVIOUS
<1>2. ASSUME NEW m \in Nat, m \in U PROVE m + 1 \in U
  <2> SUFFICES ASSUME m + 1 <= N PROVE m + 1 \in T
    OBVIOUS
  <2>1. m \in T /\ m + 1 \in 1 .. N /\ (m + 1) - 1 = m
    BY <1>2
  <2> QED
    BY <2>1
<1> HIDE DEF U
<1>3. Nat \subseteq U
  BY <1>1, <1>2, Induction
<1> QED
  BY <1>3 DEF U

\* The positions kept in turn (KeptFacts): none of two stands against the other,
\* and one kept stands against every one that is not.
LEMMA KeptFacts ==
  ASSUME NEW n \in Nat, NEW against
  PROVE  /\ Kept(n, against) \in SUBSET (1 .. n)
         /\ \A i, j \in Kept(n, against) : i < j => <<i, j>> \notin against
         /\ \A j \in 1 .. n : j \in Kept(n, against)
              \/ \E i \in Kept(n, against) : i < j /\ <<i, j>> \in against
<1> DEFINE S == SUBSET (1 .. n)
           Step(x, k) == IF \E i \in x : <<i, k>> \in against THEN x ELSE x \cup {k}
           Run(f) == f = [k \in 0 .. n |-> IF k = 0 THEN {}
                            ELSE IF \E i \in f[k - 1] : <<i, k>> \in against
                                 THEN f[k - 1] ELSE f[k - 1] \cup {k}]
           run == CHOOSE f : Run(f)
<1>1. Kept(n, against) = run[n]
  BY DEF Kept
<1>2. \E f : Run(f)
  <2> DEFINE step == [k \in 1 .. n |-> [x \in S |-> Step(x, k)]]
  <2>1. step \in [1 .. n -> [S -> S]]
    OBVIOUS
  <2>2. \A k \in 1 .. n, x \in S : step[k][x] = Step(x, k)
    OBVIOUS
  <2>3. {} \in S
    OBVIOUS
  <2> HIDE DEF step, S, Step
  <2>a. PICK f : IsLoop(f, n, S, {}, step)
    BY <2>1, <2>3, LoopExists
  <2>4. f \in [0 .. n -> S] /\ f[0] = {} /\ \A k \in 1 .. n : f[k] = step[k][f[k - 1]]
    BY <2>a DEF IsLoop
  <2>5. \A k \in 0 .. n : f[k] = IF k = 0 THEN {} ELSE Step(f[k - 1], k)
    BY <2>2, <2>4
  <2>6. f = [k \in 0 .. n |-> IF k = 0 THEN {} ELSE Step(f[k - 1], k)]
    BY <2>4, <2>5
  <2> QED
    BY <2>6 DEF Step
<1>3. Run(run)
  BY <1>2
<1> HIDE DEF run
<1>4. run[0] = {} /\ \A k \in 1 .. n : run[k] = Step(run[k - 1], k)
  <2> DEFINE h == [k \in 0 .. n |-> IF k = 0 THEN {} ELSE Step(run[k - 1], k)]
  <2>1. \A k \in 0 .. n : h[k] = IF k = 0 THEN {} ELSE Step(run[k - 1], k)
    OBVIOUS
  <2>2. run = h
    BY <1>3
  <2> HIDE DEF h, Step
  <2> QED
    BY <2>1, <2>2
<1> DEFINE Good(x, k) ==
             /\ x \in SUBSET (1 .. k)
             /\ \A i, j \in x : i < j => <<i, j>> \notin against
             /\ \A j \in 1 .. k : j \in x \/ \E i \in x : i < j /\ <<i, j>> \in against
           T == {k \in 0 .. n : Good(run[k], k)}
<1>5. 0 \in T
  BY <1>4
<1>6. ASSUME NEW k \in 1 .. n, k - 1 \in T PROVE k \in T
  <2>1. Good(run[k - 1], k - 1)
    BY <1>6
  <2>2. Good(Step(run[k - 1], k), k)
    <3> DEFINE x == run[k - 1]
    <3> HIDE DEF x
    <3>1. Good(x, k - 1)
      BY <2>1 DEF x
    <3>2. Good(Step(x, k), k)
      <4>1. CASE \E i \in x : <<i, k>> \in against
        <5>1. Step(x, k) = x
          BY <4>1
        <5>2. \A j \in 1 .. k : j = k \/ j \in 1 .. k - 1
          OBVIOUS
        <5>3. \A i \in x : i \in 1 .. k - 1 /\ i < k /\ i \in 1 .. k
          BY <3>1
        <5> QED
          BY <3>1, <4>1, <5>1, <5>2, <5>3
      <4>2. CASE ~\E i \in x : <<i, k>> \in against
        <5>1. Step(x, k) = x \cup {k}
          BY <4>2
        <5>2. \A j \in 1 .. k : j = k \/ j \in 1 .. k - 1
          OBVIOUS
        <5>3. \A i \in x : i \in 1 .. k - 1 /\ i < k /\ i \in 1 .. k
          BY <3>1
        <5>4. \A i, j \in x \cup {k} : i < j => <<i, j>> \notin against
          BY <3>1, <4>2, <5>3
        <5> QED
          BY <3>1, <5>1, <5>2, <5>3, <5>4
      <4> QED
        BY <4>1, <4>2
    <3> QED
      BY <3>2 DEF x
  <2>3. run[k] = Step(run[k - 1], k)
    BY <1>4
  <2> HIDE DEF Good, Step
  <2> QED
    BY <2>2, <2>3
<1> HIDE DEF T
<1>7. 0 .. n \subseteq T
  BY <1>5, <1>6, Turns
<1>8. Good(run[n], n)
  BY <1>7 DEF T
<1> QED
  BY <1>1, <1>8

-------------------------------------------------------------------------------
(* Rectangles and boxes.                                                   *)

\* A rectangle in the frame, one that fits, and a box found in a rectangle.
Rects == {r \in [x1 : Int, y1 : Int, x2 : Int, y2 : Int] : Within(r, FrameBox)}
FittingRects == {r \in Rects : r.x1 % 2 = 0 /\ r.y1 % 2 = 0 /\ Width(r) > 0 /\ Height(r) > 0}
Candidates(origins) ==
  {d \in [x1 : Int, y1 : Int, x2 : Int, y2 : Int, class : Classes, score : Int,
          tile : Rects, origin : origins] : IsBox(d)}

\* A function over 1 .. n is a list.
LEMMA ListOf ==
  ASSUME NEW S, NEW n \in Nat, NEW f \in [1 .. n -> S]
  PROVE  f \in Seq(S) /\ Len(f) = n /\ DOMAIN f = 1 .. n
OBVIOUS

\* What inference finds in a rectangle is a list of such boxes.
LEMMA LocatedIsTyped ==
  ASSUME NEW rect \in Rects, NEW found \in Seq(Finding), NEW origin
  PROVE  Located(found, rect, origin) \in Seq(Candidates({origin}))
<1> DEFINE C == Candidates({origin})
           box(i) == [x1 |-> found[i].x1 + rect.x1, y1 |-> found[i].y1 + rect.y1,
                      x2 |-> found[i].x2 + rect.x1, y2 |-> found[i].y2 + rect.y1,
                      class |-> found[i].class, score |-> found[i].score,
                      tile |-> rect, origin |-> origin]
<1>1. Located(found, rect, origin) = [i \in 1 .. Len(found) |-> box(i)]
  BY DEF Located
<1>2. ASSUME NEW i \in 1 .. Len(found) PROVE box(i) \in C
  <2>1. found[i] \in Finding
    OBVIOUS
  <2>2. /\ found[i].x1 \in Int /\ found[i].y1 \in Int /\ found[i].x2 \in Int /\ found[i].y2 \in Int
        /\ found[i].class \in Classes /\ found[i].score \in Int
        /\ found[i].x1 <= found[i].x2 /\ found[i].y1 <= found[i].y2
    BY <2>1, SMTT(20) DEF Finding, IsBox
  <2>3. rect.x1 \in Int /\ rect.y1 \in Int
    BY DEF Rects
  <2>4. box(i) \in [x1 : Int, y1 : Int, x2 : Int, y2 : Int, class : Classes, score : Int,
                    tile : Rects, origin : {origin}]
    BY <2>2, <2>3, SMTT(20)
  <2>5. IsBox(box(i))
    BY <2>2, <2>3, SMTT(20) DEF IsBox
  <2> QED
    BY <2>4, <2>5 DEF Candidates
<1> DEFINE n == Len(found)
<1>3. n \in Nat
  OBVIOUS
<1> HIDE DEF C, box, n
<1>4. [i \in 1 .. n |-> box(i)] \in [1 .. n -> C]
  BY <1>2 DEF n
<1>5. [i \in 1 .. n |-> box(i)] \in Seq(C)
  BY <1>3, <1>4, ListOf, Zenon
<1> QED
  BY <1>1, <1>5 DEF C, n

\* Boxes that meet share a part of either axis.
LEMMA MeetFacts ==
  ASSUME NEW a, NEW b,
         a.x1 \in Int, a.y1 \in Int, a.x2 \in Int, a.y2 \in Int,
         b.x1 \in Int, b.y1 \in Int, b.x2 \in Int, b.y2 \in Int, Meet(a, b)
  PROVE  /\ Larger(a.x1, b.x1) < Smaller(a.x2, b.x2)
         /\ Larger(a.y1, b.y1) < Smaller(a.y2, b.y2)
<1> DEFINE w == Larger(0, Smaller(a.x2, b.x2) - Larger(a.x1, b.x1))
           h == Larger(0, Smaller(a.y2, b.y2) - Larger(a.y1, b.y1))
<1>1. w \in Nat /\ h \in Nat
  BY DEF Larger, Smaller
<1>2. w * h > 0
  BY DEF Meet, Intersection
<1>3. w > 0 /\ h > 0
  <2> HIDE DEF w, h
  <2> QED
    BY <1>1, <1>2
<1> QED
  BY <1>3 DEF Larger, Smaller

\* Boxes in the overlap of two tiles lie, at least in part, in the frame.
LEMMA DividedInSight ==
  ASSUME NEW O, NEW a \in Candidates(O), NEW b \in Candidates(O), Divided(a, b)
  PROVE  /\ IsBox(a) /\ a.x1 < FrameWidth /\ a.x2 > 0 /\ a.y1 < FrameHeight /\ a.y2 > 0
         /\ IsBox(b) /\ b.x1 < FrameWidth /\ b.x2 > 0 /\ b.y1 < FrameHeight /\ b.y2 > 0
<1> DEFINE overlap == Common(a.tile, b.tile)
<1>1. /\ a.tile \in Rects /\ b.tile \in Rects /\ IsBox(a) /\ IsBox(b)
      /\ a.x1 \in Int /\ a.y1 \in Int /\ a.x2 \in Int /\ a.y2 \in Int
      /\ b.x1 \in Int /\ b.y1 \in Int /\ b.x2 \in Int /\ b.y2 \in Int
  BY DEF Candidates
<1>2. /\ overlap.x1 \in Int /\ overlap.x1 >= 0 /\ overlap.x2 \in Int /\ overlap.x2 <= FrameWidth
      /\ overlap.y1 \in Int /\ overlap.y1 >= 0 /\ overlap.y2 \in Int /\ overlap.y2 <= FrameHeight
  BY <1>1, TilingAssumption DEF Common, Rects, Within, FrameBox, Larger, Smaller
<1>3. Meet(a, overlap) /\ Meet(b, overlap)
  BY DEF Divided
<1> HIDE DEF overlap
<1>4. /\ Larger(a.x1, overlap.x1) < Smaller(a.x2, overlap.x2)
      /\ Larger(a.y1, overlap.y1) < Smaller(a.y2, overlap.y2)
      /\ Larger(b.x1, overlap.x1) < Smaller(b.x2, overlap.x2)
      /\ Larger(b.y1, overlap.y1) < Smaller(b.y2, overlap.y2)
  BY <1>1, <1>2, <1>3, MeetFacts
<1> QED
  BY <1>1, <1>2, <1>4, TilingAssumption DEF Larger, Smaller

\* Two intervals share a part, and have a gap between them, in either order.
LEMMA IntervalsSymmetric ==
  ASSUME NEW p \in Int, NEW q \in Int, NEW r \in Int, NEW t \in Int
  PROVE  /\ ShareAtLeast(p, q, r, t, 30) => ShareAtLeast(r, t, p, q, 30)
         /\ Gap(p, q, r, t) = Gap(r, t, p, q)
<1>1. /\ Smaller(q - p, t - r) = Smaller(t - r, q - p)
      /\ Smaller(q, t) = Smaller(t, q) /\ Larger(p, r) = Larger(r, p)
      /\ Larger(r - q, p - t) = Larger(p - t, r - q)
  BY DEF Larger, Smaller
<1> QED
  BY <1>1 DEF ShareAtLeast, Gap

\* The order of two boxes does not matter to whether a cut divides them.
LEMMA DividedSymmetric ==
  ASSUME NEW O, NEW a \in Candidates(O), NEW b \in Candidates(O), Divided(a, b)
  PROVE  Divided(b, a)
<1>1. /\ a.x1 \in Int /\ a.y1 \in Int /\ a.x2 \in Int /\ a.y2 \in Int
      /\ b.x1 \in Int /\ b.y1 \in Int /\ b.x2 \in Int /\ b.y2 \in Int
      /\ a.tile.x1 \in Int /\ a.tile.y1 \in Int /\ a.tile.x2 \in Int /\ a.tile.y2 \in Int
      /\ b.tile.x1 \in Int /\ b.tile.y1 \in Int /\ b.tile.x2 \in Int /\ b.tile.y2 \in Int
  BY DEF Candidates, Rects
<1>2. Common(b.tile, a.tile) = Common(a.tile, b.tile)
  BY <1>1 DEF Common, Larger, Smaller
<1>3. Meet(a.tile, b.tile) => Meet(b.tile, a.tile)
  <2>1. /\ Smaller(a.tile.x2, b.tile.x2) = Smaller(b.tile.x2, a.tile.x2)
        /\ Larger(a.tile.x1, b.tile.x1) = Larger(b.tile.x1, a.tile.x1)
        /\ Smaller(a.tile.y2, b.tile.y2) = Smaller(b.tile.y2, a.tile.y2)
        /\ Larger(a.tile.y1, b.tile.y1) = Larger(b.tile.y1, a.tile.y1)
    BY <1>1 DEF Larger, Smaller
  <2> QED
    BY <2>1 DEF Meet, Intersection
<1>5. ASSUME NEW side
      PROVE  /\ Aligned(a, b, side, 30) => Aligned(b, a, side, 30)
             /\ Across(a, b, side) = Across(b, a, side)
  <2>1. /\ ShareAtLeast(a.x1, a.x2, b.x1, b.x2, 30) => ShareAtLeast(b.x1, b.x2, a.x1, a.x2, 30)
        /\ Gap(a.x1, a.x2, b.x1, b.x2) = Gap(b.x1, b.x2, a.x1, a.x2)
    <3>1. a.x1 \in Int /\ a.x2 \in Int /\ b.x1 \in Int /\ b.x2 \in Int
      BY <1>1
    <3> QED
      BY ONLY <3>1, IntervalsSymmetric
  <2>2. /\ ShareAtLeast(a.y1, a.y2, b.y1, b.y2, 30) => ShareAtLeast(b.y1, b.y2, a.y1, a.y2, 30)
        /\ Gap(a.y1, a.y2, b.y1, b.y2) = Gap(b.y1, b.y2, a.y1, a.y2)
    <3>1. a.y1 \in Int /\ a.y2 \in Int /\ b.y1 \in Int /\ b.y2 \in Int
      BY <1>1
    <3> QED
      BY ONLY <3>1, IntervalsSymmetric
  <2>3. CASE side
    BY <2>1, <2>2, <2>3 DEF Aligned, Across
  <2>4. CASE ~side
    BY <2>1, <2>2, <2>4 DEF Aligned, Across
  <2> QED
    BY <2>3, <2>4
<1> QED
  BY <1>2, <1>3, <1>5 DEF Divided

-------------------------------------------------------------------------------
(* Joint regions.                                                          *)

\* A set of naturals has a least element.
LEMMA LeastOf ==
  ASSUME NEW M, M \subseteq Nat, M # {}
  PROVE  \E i \in M : \A k \in M : i <= k
<1> DEFINE R == OpToRel(<, Nat)
<1>1. \A x, y \in Nat : x < y => <<x, y>> \in R
  BY DEF OpToRel
<1>2. IsWellFoundedOn(R, Nat)
  BY NatLessThanWellFounded
<1> HIDE DEF R
<1>3. PICK i \in M : \A k \in M : ~(<<k, i>> \in R)
  BY <1>2, WFMin
<1>4. \A k \in M : k \in Nat /\ ~(k < i)
  BY <1>1, <1>3
<1> QED
  BY <1>4

\* Containment of rectangles goes on.
LEMMA WithinTransitive ==
  ASSUME NEW a, NEW b, NEW c,
         a.x1 \in Int, a.y1 \in Int, a.x2 \in Int, a.y2 \in Int,
         b.x1 \in Int, b.y1 \in Int, b.x2 \in Int, b.y2 \in Int,
         c.x1 \in Int, c.y1 \in Int, c.x2 \in Int, c.y2 \in Int,
         Within(a, b), Within(b, c)
  PROVE  Within(a, c)
BY DEF Within

\* Both rectangles lie in their hull, which fits when they do.
LEMMA HullFits ==
  ASSUME NEW a \in FittingRects, NEW b \in FittingRects
  PROVE  Hull(a, b) \in FittingRects /\ Within(a, Hull(a, b)) /\ Within(b, Hull(a, b))
<1>1. /\ a.x1 \in Int /\ a.y1 \in Int /\ a.x2 \in Int /\ a.y2 \in Int
      /\ b.x1 \in Int /\ b.y1 \in Int /\ b.x2 \in Int /\ b.y2 \in Int
      /\ Within(a, FrameBox) /\ Within(b, FrameBox)
      /\ a.x1 % 2 = 0 /\ a.y1 % 2 = 0 /\ Width(a) > 0 /\ Height(a) > 0
      /\ b.x1 % 2 = 0 /\ b.y1 % 2 = 0 /\ Width(b) > 0 /\ Height(b) > 0
  BY DEF FittingRects, Rects
<1> DEFINE h == Hull(a, b)
<1>2. /\ h \in [x1 : Int, y1 : Int, x2 : Int, y2 : Int]
      /\ h.x1 \in {a.x1, b.x1} /\ h.x1 <= a.x1 /\ h.x1 <= b.x1
      /\ h.y1 \in {a.y1, b.y1} /\ h.y1 <= a.y1 /\ h.y1 <= b.y1
      /\ h.x2 \in {a.x2, b.x2} /\ h.x2 >= a.x2 /\ h.x2 >= b.x2
      /\ h.y2 \in {a.y2, b.y2} /\ h.y2 >= a.y2 /\ h.y2 >= b.y2
  BY <1>1 DEF Hull, Larger, Smaller
<1> HIDE DEF h
<1>3. h.x1 % 2 = 0 /\ h.y1 % 2 = 0
  BY <1>1, <1>2
<1>4. Within(a, h) /\ Within(b, h)
  BY <1>1, <1>2 DEF Within
<1>5. Within(h, FrameBox)
  BY <1>1, <1>2, TilingAssumption DEF Within, FrameBox
<1>6. Width(h) > 0 /\ Height(h) > 0
  BY <1>1, <1>2 DEF Width, Height
<1>7. h \in FittingRects
  BY <1>2, <1>3, <1>5, <1>6 DEF FittingRects, Rects
<1> QED
  BY <1>4, <1>7 DEF h

\* A list with one element replaced.
LEMMA ListWith ==
  ASSUME NEW S, NEW s \in Seq(S), NEW i \in DOMAIN s, NEW x \in S
  PROVE  /\ [s EXCEPT ![i] = x] \in Seq(S)
         /\ DOMAIN [s EXCEPT ![i] = x] = DOMAIN s
         /\ Len([s EXCEPT ![i] = x]) = Len(s)
         /\ \A k \in DOMAIN s : [s EXCEPT ![i] = x][k] = IF k = i THEN x ELSE s[k]
OBVIOUS

\* Adding a region covers it and whatever was covered (AddRegion).
LEMMA RegionAdded ==
  ASSUME NEW regions \in Seq(FittingRects), NEW new \in FittingRects
  PROVE  /\ AddRegion(regions, new) \in Seq(FittingRects)
         /\ \E i \in DOMAIN AddRegion(regions, new) : Within(new, AddRegion(regions, new)[i])
         /\ \A i \in DOMAIN regions :
              i \in DOMAIN AddRegion(regions, new) /\ Within(regions[i], AddRegion(regions, new)[i])
<1> DEFINE met == {i \in DOMAIN regions : Meet(regions[i], new)}
           first == CHOOSE i \in met : \A k \in met : i <= k
<1>0. \A r \in FittingRects : Within(r, r)
  BY DEF Within, FittingRects, Rects
<1>1. CASE met = {}
  <2>1. AddRegion(regions, new) = Append(regions, new)
    BY <1>1 DEF AddRegion
  <2>2. /\ Append(regions, new) \in Seq(FittingRects)
        /\ Len(regions) + 1 \in DOMAIN Append(regions, new)
        /\ Append(regions, new)[Len(regions) + 1] = new
        /\ \A i \in DOMAIN regions : i \in DOMAIN Append(regions, new)
             /\ Append(regions, new)[i] = regions[i] /\ regions[i] \in FittingRects
    OBVIOUS
  <2> QED
    BY <1>0, <2>1, <2>2
<1>2. CASE met # {}
  <2>1. first \in met
    <3>1. met \subseteq Nat
      OBVIOUS
    <3> HIDE DEF met
    <3>2. \E i \in met : \A k \in met : i <= k
      BY <1>2, <3>1, LeastOf
    <3> QED
      BY <3>2
  <2> DEFINE h == Hull(regions[first], new)
  <2>2. AddRegion(regions, new) = [regions EXCEPT ![first] = h]
    BY <1>2 DEF AddRegion
  <2> HIDE DEF first
  <2>3. first \in DOMAIN regions /\ regions[first] \in FittingRects
    BY <2>1
  <2>4. h \in FittingRects /\ Within(regions[first], h) /\ Within(new, h)
    BY <2>3, HullFits
  <2> HIDE DEF h, met
  <2>5. /\ [regions EXCEPT ![first] = h] \in Seq(FittingRects)
        /\ DOMAIN [regions EXCEPT ![first] = h] = DOMAIN regions
        /\ \A k \in DOMAIN regions :
             [regions EXCEPT ![first] = h][k] = IF k = first THEN h ELSE regions[k]
    BY <2>3, <2>4, ListWith
  <2>6. \A k \in DOMAIN regions : regions[k] \in FittingRects
    OBVIOUS
  <2> QED
    BY <1>0, <2>2, <2>3, <2>4, <2>5, <2>6
<1> QED
  BY <1>1, <1>2

\* The positions that a turn compares.
LEMMA TurnFacts ==
  ASSUME NEW n \in Nat
  PROVE  /\ n * n \in Nat
         /\ \A k \in 1 .. n * n : Turn(n, k)[1] \in 1 .. n /\ Turn(n, k)[2] \in 1 .. n
         /\ \A i, j \in 1 .. n : \E k \in 1 .. n * n : Turn(n, k)[1] = i /\ Turn(n, k)[2] = j
<1>1. n * n \in Nat
  OBVIOUS
<1>2. ASSUME NEW k \in 1 .. n * n
      PROVE  Turn(n, k)[1] \in 1 .. n /\ Turn(n, k)[2] \in 1 .. n
  <2>1. n > 0
    <3>1. n = 0 => n * n = 0
      OBVIOUS
    <3> QED
      BY <3>1
  <2>2. (k - 1) % n \in 0 .. n - 1
    BY <2>1
  <2>3. (k - 1) \div n \in 0 .. n - 1
    <3> DEFINE q == (k - 1) \div n
    <3>1. q \in Int /\ q >= 0 /\ q * n <= k - 1
      BY <2>1
    <3> HIDE DEF q
    <3>2. ASSUME q >= n PROVE FALSE
      <4>1. n * n <= q * n
        BY <3>1, <3>2, Scaled
      <4>2. k - 1 < n * n /\ n * n \in Int /\ q * n \in Int
        BY <1>1, <3>1
      <4> QED
        BY <3>1, <4>1, <4>2
    <3>3. q \in 0 .. n - 1
      BY <3>1, <3>2
    <3> QED
      BY <3>3 DEF q
  <2> QED
    BY <2>2, <2>3 DEF Turn
<1>3. ASSUME NEW i \in 1 .. n, NEW j \in 1 .. n
      PROVE  \E k \in 1 .. n * n : Turn(n, k)[1] = i /\ Turn(n, k)[2] = j
  <2>1. PICK k \in 1 .. n * n : <<1 + ((k - 1) \div n), 1 + ((k - 1) % n)>> = <<i, j>>
    BY TurnOf, ZenonT(30)
  <2>2. Turn(n, k)[1] = i /\ Turn(n, k)[2] = j
    BY <2>1 DEF Turn
  <2> QED
    BY <2>2
<1> QED
  BY <1>1, <1>2, <1>3

\* A region shows two boxes as far as they lie in the frame.
Shows(r, a, b) == Within(Common(a, FrameBox), r) /\ Within(Common(b, FrameBox), r)

\* A rectangle that contains another shows what that one shows.
LEMMA ShownByMore ==
  ASSUME NEW O, NEW a \in Candidates(O), NEW b \in Candidates(O),
         NEW r \in FittingRects, NEW q \in FittingRects, Within(r, q), Shows(r, a, b)
  PROVE  Shows(q, a, b)
<1>1. /\ r.x1 \in Int /\ r.y1 \in Int /\ r.x2 \in Int /\ r.y2 \in Int
      /\ q.x1 \in Int /\ q.y1 \in Int /\ q.x2 \in Int /\ q.y2 \in Int
  BY DEF FittingRects, Rects
<1>2. ASSUME NEW d \in Candidates(O)
      PROVE  /\ Common(d, FrameBox).x1 \in Int /\ Common(d, FrameBox).y1 \in Int
             /\ Common(d, FrameBox).x2 \in Int /\ Common(d, FrameBox).y2 \in Int
  BY TilingAssumption DEF Candidates, Common, FrameBox, Larger, Smaller
<1>3. Within(Common(a, FrameBox), q)
  BY <1>1, <1>2, WithinTransitive DEF Shows
<1>4. Within(Common(b, FrameBox), q)
  BY <1>1, <1>2, WithinTransitive DEF Shows
<1> QED
  BY <1>3, <1>4 DEF Shows

\* The region of two boxes fits and shows them.
LEMMA JointRegionFits ==
  ASSUME NEW O, NEW a \in Candidates(O), NEW b \in Candidates(O), Divided(a, b)
  PROVE  JointRegion(a, b) \in FittingRects /\ Shows(JointRegion(a, b), a, b)
<1>1. /\ IsBox(a) /\ a.x1 < FrameWidth /\ a.x2 > 0 /\ a.y1 < FrameHeight /\ a.y2 > 0
      /\ IsBox(b) /\ b.x1 < FrameWidth /\ b.x2 > 0 /\ b.y1 < FrameHeight /\ b.y2 > 0
  BY DividedInSight
<1> DEFINE r == JointRegion(a, b)
<1>2. /\ r \in [x1 : Int, y1 : Int, x2 : Int, y2 : Int]
      /\ Within(Common(a, FrameBox), r) /\ Within(Common(b, FrameBox), r)
      /\ Within(r, FrameBox) /\ Width(r) > 0 /\ Height(r) > 0
      /\ r.x1 % 2 = 0 /\ r.y1 % 2 = 0
  BY <1>1, JointRegionShowsBoth
<1> HIDE DEF r
<1>3. r \in FittingRects /\ Shows(r, a, b)
  BY <1>2 DEF FittingRects, Rects, Shows
<1> QED
  BY <1>3 DEF r

\* The regions of a list of boxes fit, and one shows both of every two boxes that a
\* cut may have made of one object.
LEMMA JointRegionsFacts ==
  ASSUME NEW O, NEW found \in Seq(Candidates(O))
  PROVE  /\ JointRegions(found) \in Seq(FittingRects)
         /\ \A i, j \in DOMAIN found : i < j /\ Divided(found[i], found[j]) =>
              \E r \in DOMAIN JointRegions(found) : Shows(JointRegions(found)[r], found[i], found[j])
<1> DEFINE n == Len(found)
           N == n * n
           S == Seq(FittingRects)
           i(k) == Turn(n, k)[1]
           j(k) == Turn(n, k)[2]
           cut(k) == i(k) < j(k) /\ Divided(found[i(k)], found[j(k)])
           Step(x, k) == IF cut(k) THEN AddRegion(x, JointRegion(found[i(k)], found[j(k)])) ELSE x
           Run(f) == f = [k \in 0 .. N |-> IF k = 0 THEN <<>>
                            ELSE IF i(k) < j(k) /\ Divided(found[i(k)], found[j(k)])
                                 THEN AddRegion(f[k - 1], JointRegion(found[i(k)], found[j(k)]))
                                 ELSE f[k - 1]]
           run == CHOOSE f : Run(f)
<1>0. n \in Nat /\ DOMAIN found = 1 .. n /\ \A m \in 1 .. n : found[m] \in Candidates(O)
  OBVIOUS
<1>1. JointRegions(found) = run[N]
  BY DEF JointRegions
<1> HIDE DEF n
<1>2. /\ N \in Nat
      /\ \A k \in 1 .. N : i(k) \in 1 .. n /\ j(k) \in 1 .. n
      /\ \A p, q \in 1 .. n : \E k \in 1 .. N : i(k) = p /\ j(k) = q
  BY <1>0, TurnFacts
<1>a. N \in Nat
  BY <1>2
<1> HIDE DEF N, i, j
<1>3. ASSUME NEW k \in 1 .. N, NEW x \in S PROVE Step(x, k) \in S
  <2>1. CASE cut(k)
    <3>1. found[i(k)] \in Candidates(O) /\ found[j(k)] \in Candidates(O)
      BY <1>0, <1>2
    <3>2. JointRegion(found[i(k)], found[j(k)]) \in FittingRects
      BY <2>1, <3>1, JointRegionFits
    <3> QED
      BY <2>1, <3>2, RegionAdded
  <2>2. CASE ~cut(k)
    BY <2>2
  <2> QED
    BY <2>1, <2>2
<1>4. \E f : Run(f)
  <2> DEFINE step == [k \in 1 .. N |-> [x \in S |-> Step(x, k)]]
  <2> HIDE DEF Step, S
  <2>1. step \in [1 .. N -> [S -> S]]
    BY <1>3
  <2>2. \A k \in 1 .. N, x \in S : step[k][x] = Step(x, k)
    OBVIOUS
  <2>3. <<>> \in S
    BY DEF S
  <2> HIDE DEF step
  <2>4. PICK f : IsLoop(f, N, S, <<>>, step)
    BY <1>2, <2>1, <2>3, LoopExists
  <2>5. f \in [0 .. N -> S] /\ f[0] = <<>> /\ \A k \in 1 .. N : f[k] = step[k][f[k - 1]]
    BY <2>4 DEF IsLoop
  <2>6. \A k \in 0 .. N : f[k] = IF k = 0 THEN <<>> ELSE Step(f[k - 1], k)
    <3> TAKE k \in 0 .. N
    <3>1. CASE k = 0
      BY <2>5, <3>1
    <3>2. CASE k # 0
      <4>1. k \in 1 .. N /\ k - 1 \in 0 .. N
        BY ONLY <1>a, <3>2
      <4>2. f[k] = step[k][f[k - 1]] /\ f[k - 1] \in S
        BY ONLY <2>5, <4>1
      <4> QED
        BY ONLY <2>2, <3>2, <4>1, <4>2
    <3> QED
      BY <3>1, <3>2
  <2>7. f = [k \in 0 .. N |-> IF k = 0 THEN <<>> ELSE Step(f[k - 1], k)]
    BY <2>5, <2>6
  <2> QED
    BY <2>7 DEF Step
<1>5. Run(run)
  BY <1>4
<1> HIDE DEF run
<1>6. run[0] = <<>> /\ \A k \in 1 .. N : run[k] = Step(run[k - 1], k)
  <2> DEFINE h == [k \in 0 .. N |-> IF k = 0 THEN <<>> ELSE Step(run[k - 1], k)]
  <2>1. \A k \in 0 .. N : h[k] = IF k = 0 THEN <<>> ELSE Step(run[k - 1], k)
    OBVIOUS
  <2>2. run = h
    BY <1>5
  <2> HIDE DEF h, Step
  <2>3. 0 \in 0 .. N /\ \A k \in 1 .. N : k \in 0 .. N /\ k # 0
    BY <1>a
  <2> QED
    BY ONLY <2>1, <2>2, <2>3
<1> DEFINE Good(x, k) ==
             /\ x \in S
             /\ \A m \in 1 .. k : cut(m) =>
                  \E r \in DOMAIN x : Shows(x[r], found[i(m)], found[j(m)])
           T == {k \in 0 .. N : Good(run[k], k)}
<1>7. 0 \in T
  <2> HIDE DEF cut
  <2>1. Good(<<>>, 0)
    OBVIOUS
  <2> HIDE DEF Good
  <2> QED
    BY <1>a, <1>6, <2>1
<1>8. ASSUME NEW k \in 1 .. N, k - 1 \in T PROVE k \in T
  <2> DEFINE x == run[k - 1]
             y == Step(x, k)
  <2>1. Good(x, k - 1)
    BY <1>8
  <2>2. run[k] = y
    BY <1>6
  <2> HIDE DEF x
  <2>3. y \in S
    <3> HIDE DEF Step
    <3> QED
      BY <1>3, <2>1
  <2>4. ASSUME NEW m \in 1 .. k, cut(m)
        PROVE  \E r \in DOMAIN y : Shows(y[r], found[i(m)], found[j(m)])
    <3>1. /\ m \in 1 .. N
          /\ found[i(m)] \in Candidates(O) /\ found[j(m)] \in Candidates(O)
      BY <1>0, <1>2
    <3>2. CASE ~cut(k)
      <4>1. y = x /\ m # k
        BY <2>4, <3>2
      <4>2. m \in 1 .. k - 1
        BY <4>1
      <4> QED
        BY <2>1, <2>4, <4>1, <4>2
    <3>3. CASE cut(k)
      <4> DEFINE new == JointRegion(found[i(k)], found[j(k)])
      <4>1. y = AddRegion(x, new)
        BY <3>3
      <4>2. new \in FittingRects /\ Shows(new, found[i(k)], found[j(k)])
        <5>1. found[i(k)] \in Candidates(O) /\ found[j(k)] \in Candidates(O)
          BY <1>0, <1>2
        <5> QED
          BY <3>3, <5>1, JointRegionFits
      <4> HIDE DEF new, y, cut, i, j
      <4>3. /\ \E r \in DOMAIN y : Within(new, y[r])
            /\ \A r \in DOMAIN x : r \in DOMAIN y /\ Within(x[r], y[r])
        BY <2>1, <4>1, <4>2, RegionAdded
      <4>4. /\ \A r \in DOMAIN y : y[r] \in FittingRects
            /\ \A r \in DOMAIN x : x[r] \in FittingRects
        BY <2>1, <2>3
      <4>5. CASE m = k
        <5>1. PICK r \in DOMAIN y : Within(new, y[r])
          BY <4>3
        <5>2. Shows(y[r], found[i(m)], found[j(m)])
          BY <3>1, <4>2, <4>4, <4>5, <5>1, ShownByMore
        <5> QED
          BY <5>2
      <4>6. CASE m # k
        <5>1. m \in 1 .. k - 1
          BY <4>6
        <5>2. PICK r \in DOMAIN x : Shows(x[r], found[i(m)], found[j(m)])
          BY <2>1, <2>4, <5>1
        <5>3. r \in DOMAIN y /\ Within(x[r], y[r])
          BY <4>3
        <5>4. Shows(y[r], found[i(m)], found[j(m)])
          BY <3>1, <4>4, <5>2, <5>3, ShownByMore
        <5> QED
          BY <5>3, <5>4
      <4> QED
        BY <4>5, <4>6
    <3> QED
      BY <3>2, <3>3
  <2> HIDE DEF y, cut
  <2>5. Good(y, k)
    BY <2>3, <2>4
  <2> HIDE DEF Good
  <2> QED
    BY <2>2, <2>5
<1> HIDE DEF T
<1>9. 0 .. N \subseteq T
  BY <1>2, <1>7, <1>8, Turns
<1>10. Good(run[N], N)
  <2>1. N \in 0 .. N
    BY <1>a
  <2> HIDE DEF Good
  <2> QED
    BY <1>9, <2>1 DEF T
<1>11. ASSUME NEW p \in DOMAIN found, NEW q \in DOMAIN found, p < q, Divided(found[p], found[q])
       PROVE  \E r \in DOMAIN run[N] : Shows(run[N][r], found[p], found[q])
  <2>1. PICK k \in 1 .. N : i(k) = p /\ j(k) = q
    BY <1>0, <1>2
  <2>2. cut(k)
    BY <1>11, <2>1
  <2> HIDE DEF cut
  <2> QED
    BY <1>10, <2>1, <2>2
<1> QED
  BY <1>1, <1>10, <1>11

-------------------------------------------------------------------------------
(* Boxes of tiles.                                                         *)

\* The union of two boxes is one, with the tile of the first.
LEMMA UnitedTyped ==
  ASSUME NEW O, NEW a \in Candidates(O), NEW b \in Candidates(O)
  PROVE  United(a, b) \in Candidates(O)
<1>1. /\ a.x1 \in Int /\ a.y1 \in Int /\ a.x2 \in Int /\ a.y2 \in Int
      /\ b.x1 \in Int /\ b.y1 \in Int /\ b.x2 \in Int /\ b.y2 \in Int
      /\ a.x1 <= a.x2 /\ a.y1 <= a.y2 /\ a.score \in Int /\ b.score \in Int
      /\ a.class \in Classes /\ a.tile \in Rects /\ a.origin \in O
  BY DEF Candidates, IsBox
<1>3. /\ Smaller(a.x1, b.x1) \in Int /\ Smaller(a.y1, b.y1) \in Int
      /\ Larger(a.x2, b.x2) \in Int /\ Larger(a.y2, b.y2) \in Int
      /\ Larger(a.score, b.score) \in Int
      /\ Smaller(a.x1, b.x1) <= Larger(a.x2, b.x2) /\ Smaller(a.y1, b.y1) <= Larger(a.y2, b.y2)
  BY <1>1 DEF Larger, Smaller
<1>4. United(a, b) \in [x1 : Int, y1 : Int, x2 : Int, y2 : Int, class : Classes, score : Int,
                          tile : Rects, origin : O]
  BY <1>3 DEF United, Candidates
<1>5. /\ United(a, b).x1 = Smaller(a.x1, b.x1) /\ United(a, b).y1 = Smaller(a.y1, b.y1)
      /\ United(a, b).x2 = Larger(a.x2, b.x2) /\ United(a, b).y2 = Larger(a.y2, b.y2)
  BY DEF United, Candidates
<1> QED
  BY <1>3, <1>4, <1>5 DEF Candidates, IsBox

\* So is a box given up.
LEMMA GivenUpTyped ==
  ASSUME NEW O, NEW a \in Candidates(O)
  PROVE  [a EXCEPT !.score = -1] \in Candidates(O)
<1>1. -1 \in Int
  OBVIOUS
<1> QED
  BY <1>1 DEF Candidates, IsBox

\* A list of boxes in which one is united with another stays one.
LEMMA ListUnited ==
  ASSUME NEW O, NEW s \in Seq(Candidates(O)), NEW i \in DOMAIN s, NEW j \in DOMAIN s
  PROVE  /\ [s EXCEPT ![i] = United(s[i], s[j]), ![j].score = -1] \in Seq(Candidates(O))
         /\ Len([s EXCEPT ![i] = United(s[i], s[j]), ![j].score = -1]) = Len(s)
<1> DEFINE C == Candidates(O)
           u == United(s[i], s[j])
           t == [s EXCEPT ![i] = u]
           g == [t[j] EXCEPT !.score = -1]
<1>1. s[i] \in C /\ s[j] \in C
  OBVIOUS
<1>2. u \in C
  BY <1>1, UnitedTyped
<1>3. [s EXCEPT ![i] = United(s[i], s[j]), ![j].score = -1] = [t EXCEPT ![j] = g]
  OBVIOUS
<1> HIDE DEF C, u
<1>4. t \in Seq(C) /\ DOMAIN t = DOMAIN s /\ Len(t) = Len(s)
  BY <1>2, ListWith DEF C
<1> HIDE DEF t
<1>5. t[j] \in C
  BY <1>4
<1>6. g \in C
  BY <1>5, GivenUpTyped DEF C
<1> HIDE DEF g
<1>7. [t EXCEPT ![j] = g] \in Seq(C) /\ Len([t EXCEPT ![j] = g]) = Len(t)
  BY <1>4, <1>6, ListWith
<1> QED
  BY <1>3, <1>4, <1>7 DEF C

\* ... and so does one of which a box is given up.
LEMMA ListGivenUp ==
  ASSUME NEW O, NEW s \in Seq(Candidates(O)), NEW i \in DOMAIN s
  PROVE  /\ [s EXCEPT ![i].score = -1] \in Seq(Candidates(O))
         /\ Len([s EXCEPT ![i].score = -1]) = Len(s)
<1> DEFINE g == [s[i] EXCEPT !.score = -1]
<1>1. g \in Candidates(O)
  BY GivenUpTyped
<1>2. [s EXCEPT ![i].score = -1] = [s EXCEPT ![i] = g]
  OBVIOUS
<1> HIDE DEF g
<1>3. [s EXCEPT ![i] = g] \in Seq(Candidates(O)) /\ Len([s EXCEPT ![i] = g]) = Len(s)
  BY <1>1, ListWith
<1> QED
  BY <1>2, <1>3

\* Each comparison of the loops keeps a list of boxes one, of the same length.
LEMMA JoinHalvesTyped ==
  ASSUME NEW O, NEW s \in Seq(Candidates(O)), NEW i \in DOMAIN s, NEW j \in DOMAIN s
  PROVE  /\ JoinHalves(s, i, j) \in Seq(Candidates(O))
         /\ Len(JoinHalves(s, i, j)) = Len(s)
<1>1. \/ JoinHalves(s, i, j) = s
      \/ JoinHalves(s, i, j) = [s EXCEPT ![i] = United(s[i], s[j]), ![j].score = -1]
  BY DEF JoinHalves
<1> QED
  BY <1>1, ListUnited

\* ... also of the later loops.
LEMMA DropRepeatedTyped ==
  ASSUME NEW O, NEW s \in Seq(Candidates(O)), NEW i \in DOMAIN s, NEW j \in DOMAIN s
  PROVE  /\ DropRepeated(s, i, j) \in Seq(Candidates(O))
         /\ Len(DropRepeated(s, i, j)) = Len(s)
<1>1. \/ DropRepeated(s, i, j) = s
      \/ DropRepeated(s, i, j) = [s EXCEPT ![i] = United(s[i], s[j]), ![j].score = -1]
      \/ DropRepeated(s, i, j) = [s EXCEPT ![i].score = -1]
      \/ DropRepeated(s, i, j) = [s EXCEPT ![j].score = -1]
  BY DEF DropRepeated
<1> QED
  BY <1>1, ListUnited, ListGivenUp

\* The loops that join halves keep a list of boxes one.
LEMMA HalvesJoinedTyped ==
  ASSUME NEW O, NEW found \in Seq(Candidates(O))
  PROVE  HalvesJoined(found) \in Seq(Candidates(O))
<1> DEFINE n == Len(found)
           N == n * n
           S == {s \in Seq(Candidates(O)) : Len(s) = n}
           i(k) == Turn(n, k)[1]
           j(k) == Turn(n, k)[2]
           Step(x, k) == IF i(k) < j(k) THEN JoinHalves(x, i(k), j(k)) ELSE x
           Run(f) == f = [k \in 0 .. N |-> IF k = 0 THEN found
                            ELSE IF i(k) < j(k) THEN JoinHalves(f[k - 1], i(k), j(k)) ELSE f[k - 1]]
           run == CHOOSE f : Run(f)
<1>0. n \in Nat /\ found \in S
  OBVIOUS
<1>1. HalvesJoined(found) = run[N]
  BY DEF HalvesJoined
<1> HIDE DEF n
<1>2. N \in Nat /\ \A k \in 1 .. N : i(k) \in 1 .. n /\ j(k) \in 1 .. n
  BY <1>0, TurnFacts
<1> HIDE DEF N, i, j
<1>3. ASSUME NEW k \in 1 .. N, NEW x \in S PROVE Step(x, k) \in S
  <2>1. x \in Seq(Candidates(O)) /\ DOMAIN x = 1 .. n /\ Len(x) = n
    BY <1>0
  <2>2. i(k) \in DOMAIN x /\ j(k) \in DOMAIN x
    BY <1>2, <2>1
  <2>3. JoinHalves(x, i(k), j(k)) \in Seq(Candidates(O)) /\ Len(JoinHalves(x, i(k), j(k))) = Len(x)
    BY <2>1, <2>2, JoinHalvesTyped
  <2> QED
    BY <2>1, <2>3
<1> HIDE DEF S, Step
<1>4. \E f : Run(f)
  <2> DEFINE step == [k \in 1 .. N |-> [x \in S |-> Step(x, k)]]
  <2>1. step \in [1 .. N -> [S -> S]]
    BY <1>3
  <2>2. \A k \in 1 .. N, x \in S : step[k][x] = Step(x, k)
    OBVIOUS
  <2> HIDE DEF step
  <2>3. PICK f : IsLoop(f, N, S, found, step)
    BY <1>0, <1>2, <2>1, LoopExists
  <2>4. f \in [0 .. N -> S] /\ f[0] = found /\ \A k \in 1 .. N : f[k] = step[k][f[k - 1]]
    BY <2>3 DEF IsLoop
  <2>5. \A k \in 0 .. N : f[k] = IF k = 0 THEN found ELSE Step(f[k - 1], k)
    <3> TAKE k \in 0 .. N
    <3>1. CASE k = 0
      BY <2>4, <3>1
    <3>2. CASE k # 0
      <4>1. k \in 1 .. N /\ k - 1 \in 0 .. N
        BY ONLY <1>2, <3>2
      <4>2. f[k] = step[k][f[k - 1]] /\ f[k - 1] \in S
        BY ONLY <2>4, <4>1
      <4> QED
        BY ONLY <2>2, <3>2, <4>1, <4>2
    <3> QED
      BY <3>1, <3>2
  <2>6. f = [k \in 0 .. N |-> IF k = 0 THEN found ELSE Step(f[k - 1], k)]
    BY <2>4, <2>5
  <2> QED
    BY <2>6 DEF Step
<1>5. Run(run)
  BY <1>4
<1> HIDE DEF run
<1>6. run[0] = found /\ \A k \in 1 .. N : run[k] = Step(run[k - 1], k)
  <2> DEFINE h == [k \in 0 .. N |-> IF k = 0 THEN found ELSE Step(run[k - 1], k)]
  <2>1. \A k \in 0 .. N : h[k] = IF k = 0 THEN found ELSE Step(run[k - 1], k)
    OBVIOUS
  <2>2. run = h
    BY <1>5 DEF Step
  <2> HIDE DEF h
  <2>3. 0 \in 0 .. N /\ \A k \in 1 .. N : k \in 0 .. N /\ k # 0
    BY <1>2
  <2> QED
    BY ONLY <2>1, <2>2, <2>3
<1> DEFINE T == {k \in 0 .. N : run[k] \in S}
<1>7. 0 \in T
  BY <1>0, <1>2, <1>6
<1>8. ASSUME NEW k \in 1 .. N, k - 1 \in T PROVE k \in T
  <2>1. run[k - 1] \in S
    BY <1>8
  <2> QED
    BY <1>3, <1>6, <2>1
<1> HIDE DEF T
<1>9. 0 .. N \subseteq T
  BY <1>2, <1>7, <1>8, Turns
<1>10. run[N] \in S
  BY <1>2, <1>9 DEF T
<1> QED
  BY <1>1, <1>10 DEF S

\* So do those that drop repetitions.
LEMMA RepeatedDroppedTyped ==
  ASSUME NEW O, NEW found \in Seq(Candidates(O))
  PROVE  RepeatedDropped(found) \in Seq(Candidates(O))
<1> DEFINE n == Len(found)
           N == n * n
           S == {s \in Seq(Candidates(O)) : Len(s) = n}
           i(k) == Turn(n, k)[1]
           j(k) == Turn(n, k)[2]
           Step(x, k) == IF i(k) < j(k) THEN DropRepeated(x, i(k), j(k)) ELSE x
           Run(f) == f = [k \in 0 .. N |-> IF k = 0 THEN found
                            ELSE IF i(k) < j(k) THEN DropRepeated(f[k - 1], i(k), j(k)) ELSE f[k - 1]]
           run == CHOOSE f : Run(f)
<1>0. n \in Nat /\ found \in S
  OBVIOUS
<1>1. RepeatedDropped(found) = run[N]
  BY DEF RepeatedDropped
<1> HIDE DEF n
<1>2. N \in Nat /\ \A k \in 1 .. N : i(k) \in 1 .. n /\ j(k) \in 1 .. n
  BY <1>0, TurnFacts
<1> HIDE DEF N, i, j
<1>3. ASSUME NEW k \in 1 .. N, NEW x \in S PROVE Step(x, k) \in S
  <2>1. x \in Seq(Candidates(O)) /\ DOMAIN x = 1 .. n /\ Len(x) = n
    BY <1>0
  <2>2. i(k) \in DOMAIN x /\ j(k) \in DOMAIN x
    BY <1>2, <2>1
  <2>3. DropRepeated(x, i(k), j(k)) \in Seq(Candidates(O)) /\ Len(DropRepeated(x, i(k), j(k))) = Len(x)
    BY <2>1, <2>2, DropRepeatedTyped
  <2> QED
    BY <2>1, <2>3
<1> HIDE DEF S, Step
<1>4. \E f : Run(f)
  <2> DEFINE step == [k \in 1 .. N |-> [x \in S |-> Step(x, k)]]
  <2>1. step \in [1 .. N -> [S -> S]]
    BY <1>3
  <2>2. \A k \in 1 .. N, x \in S : step[k][x] = Step(x, k)
    OBVIOUS
  <2> HIDE DEF step
  <2>3. PICK f : IsLoop(f, N, S, found, step)
    BY <1>0, <1>2, <2>1, LoopExists
  <2>4. f \in [0 .. N -> S] /\ f[0] = found /\ \A k \in 1 .. N : f[k] = step[k][f[k - 1]]
    BY <2>3 DEF IsLoop
  <2>5. \A k \in 0 .. N : f[k] = IF k = 0 THEN found ELSE Step(f[k - 1], k)
    <3> TAKE k \in 0 .. N
    <3>1. CASE k = 0
      BY <2>4, <3>1
    <3>2. CASE k # 0
      <4>1. k \in 1 .. N /\ k - 1 \in 0 .. N
        BY ONLY <1>2, <3>2
      <4>2. f[k] = step[k][f[k - 1]] /\ f[k - 1] \in S
        BY ONLY <2>4, <4>1
      <4> QED
        BY ONLY <2>2, <3>2, <4>1, <4>2
    <3> QED
      BY <3>1, <3>2
  <2>6. f = [k \in 0 .. N |-> IF k = 0 THEN found ELSE Step(f[k - 1], k)]
    BY <2>4, <2>5
  <2> QED
    BY <2>6 DEF Step
<1>5. Run(run)
  BY <1>4
<1> HIDE DEF run
<1>6. run[0] = found /\ \A k \in 1 .. N : run[k] = Step(run[k - 1], k)
  <2> DEFINE h == [k \in 0 .. N |-> IF k = 0 THEN found ELSE Step(run[k - 1], k)]
  <2>1. \A k \in 0 .. N : h[k] = IF k = 0 THEN found ELSE Step(run[k - 1], k)
    OBVIOUS
  <2>2. run = h
    BY <1>5 DEF Step
  <2> HIDE DEF h
  <2>3. 0 \in 0 .. N /\ \A k \in 1 .. N : k \in 0 .. N /\ k # 0
    BY <1>2
  <2> QED
    BY ONLY <2>1, <2>2, <2>3
<1> DEFINE T == {k \in 0 .. N : run[k] \in S}
<1>7. 0 \in T
  BY <1>0, <1>2, <1>6
<1>8. ASSUME NEW k \in 1 .. N, k - 1 \in T PROVE k \in T
  <2>1. run[k - 1] \in S
    BY <1>8
  <2> QED
    BY <1>3, <1>6, <2>1
<1> HIDE DEF T
<1>9. 0 .. N \subseteq T
  BY <1>2, <1>7, <1>8, Turns
<1>10. run[N] \in S
  BY <1>2, <1>9 DEF T
<1> QED
  BY <1>1, <1>10 DEF S

\* What they leave are boxes of the same origins.
LEMMA MergeBoundaryTyped ==
  ASSUME NEW O, NEW found \in Seq(Candidates(O))
  PROVE  MergeBoundary(found) \in Seq(Candidates(O))
<1> DEFINE boxes == RepeatedDropped(HalvesJoined(found))
           I == {i \in DOMAIN boxes : ~Given(boxes[i])}
<1>1. boxes \in Seq(Candidates(O))
  BY HalvesJoinedTyped, RepeatedDroppedTyped
<1>2. MergeBoundary(found) = Sublist(boxes, I)
  BY DEF MergeBoundary
<1>3. I \in SUBSET (DOMAIN boxes)
  OBVIOUS
<1> HIDE DEF boxes, I
<1> QED
  BY <1>1, <1>2, <1>3, SublistPairs

-------------------------------------------------------------------------------
(* The choice among competing boxes.                                       *)

\* Boxes of tiles and of joint regions.
AllCandidates == Candidates({"tile", "joint"})

\* t is made of elements of s, at most one of each position; t has all of s.
From(t, s) ==
  \A k, l \in DOMAIN t : \E i, j \in DOMAIN s :
    t[k] = s[i] /\ t[l] = s[j] /\ (k # l => i # j)
Has(t, s) == \A i \in DOMAIN s : \E k \in DOMAIN t : t[k] = s[i]

\* What OneBoxPerPlace says of two boxes, in parts.
NoRivals(s) == \A i, j \in DOMAIN s : i # j => ~Rivals(s[i], s[j])
NoRepetition(s) ==
  \A i, j \in DOMAIN s : s[i].class = s[j].class /\ s[i].origin # s[j].origin =>
    ~ContainmentAtLeast(s[i], s[j], 35)
NoOverlap(s) ==
  \A i, j \in DOMAIN s : i # j /\ s[i].class = s[j].class => ~Overlapping(s[i], s[j])

\* What is made of the elements of a list has no rivals, repetitions or overlaps that
\* the list has not.
LEMMA FromKeeps ==
  ASSUME NEW s, NEW t, From(t, s)
  PROVE  /\ NoRivals(s) => NoRivals(t)
         /\ NoRepetition(s) => NoRepetition(t)
         /\ NoOverlap(s) => NoOverlap(t)
<1>1. ASSUME NoRivals(s) PROVE NoRivals(t)
  BY <1>1 DEF From, NoRivals
<1>2. ASSUME NoRepetition(s) PROVE NoRepetition(t)
  BY <1>2 DEF From, NoRepetition
<1>3. ASSUME NoOverlap(s) PROVE NoOverlap(t)
  BY <1>3 DEF From, NoOverlap
<1> QED
  BY <1>1, <1>2, <1>3

\* A part of a list is from it.
LEMMA SublistFrom ==
  ASSUME NEW S, NEW s \in Seq(S), NEW I \in SUBSET (DOMAIN s)
  PROVE  Sublist(s, I) \in Seq(S) /\ From(Sublist(s, I), s)
<1> DEFINE t == Sublist(s, I)
<1>1. /\ t \in Seq(S)
      /\ \A k \in DOMAIN t : \E i \in I : t[k] = s[i]
      /\ \A k, l \in DOMAIN t : k < l => \E i, j \in I : i < j /\ t[k] = s[i] /\ t[l] = s[j]
  BY SublistPairs
<1> HIDE DEF t
<1>2. ASSUME NEW k \in DOMAIN t, NEW l \in DOMAIN t
      PROVE  \E i, j \in DOMAIN s : t[k] = s[i] /\ t[l] = s[j] /\ (k # l => i # j)
  <2>0. k \in Int /\ l \in Int /\ \A i \in I : i \in DOMAIN s /\ i \in Int
    BY <1>1
  <2>1. CASE k < l
    BY <1>1, <2>0, <2>1
  <2>2. CASE l < k
    BY <1>1, <2>0, <2>2
  <2>3. CASE k = l
    BY <1>1, <2>0, <2>3
  <2> QED
    BY <2>0, <2>1, <2>2, <2>3
<1> QED
  BY <1>1, <1>2 DEF From, t

\* What std::sort makes of a list has its elements at other positions.
Rearranged(t, s) ==
  \E p \in Bijection(DOMAIN s, DOMAIN s) : t = [i \in DOMAIN s |-> s[p[i]]]

\* Both sorts only rearrange, although the comparison of the first one has cycles.
LEMMA ReliableIsRearranged ==
  ASSUME NEW s, NEW t \in Orders(s, ReliableFirst)
  PROVE  Rearranged(t, s)
BY Zenon DEF Orders, Rearranged

\* The sort by score.
LEMMA ScoredIsRearranged ==
  ASSUME NEW s, NEW t \in Orders(s, ScoreFirst)
  PROVE  Rearranged(t, s)
BY Zenon DEF Orders, Rearranged

\* A list rearranged has the same elements, each from a position of its own.
LEMMA RearrangedFrom ==
  ASSUME NEW S, NEW s \in Seq(S), NEW t, Rearranged(t, s)
  PROVE  t \in Seq(S) /\ DOMAIN t = DOMAIN s /\ From(t, s) /\ Has(t, s)
<1>1. PICK p \in Bijection(DOMAIN s, DOMAIN s) : t = [i \in DOMAIN s |-> s[p[i]]]
  BY DEF Rearranged
<1>2. /\ p \in [DOMAIN s -> DOMAIN s]
      /\ \A v, w \in DOMAIN s : p[v] = p[w] => v = w
      /\ \A w \in DOMAIN s : \E v \in DOMAIN s : p[v] = w
  BY DEF Bijection, Injection, Surjection, IsInjective
<1>3. DOMAIN t = DOMAIN s /\ \A i \in DOMAIN s : t[i] = s[p[i]] /\ p[i] \in DOMAIN s
  BY <1>1, <1>2
<1>4. t \in Seq(S)
  <2> DEFINE n == Len(s)
  <2>1. n \in Nat /\ DOMAIN s = 1 .. n /\ \A i \in 1 .. n : s[i] \in S
    OBVIOUS
  <2> HIDE DEF n
  <2>2. t \in [1 .. n -> S]
    BY <1>1, <1>3, <2>1
  <2> QED
    BY <2>1, <2>2, ListOf
<1>5. From(t, s)
  BY <1>2, <1>3, SMTT(20) DEF From
<1>6. Has(t, s)
  BY <1>2, <1>3 DEF Has
<1> QED
  BY <1>3, <1>4, <1>5, <1>6

\* The order of two boxes does not matter to any of the relations.
LEMMA RelationsSymmetric ==
  ASSUME NEW a, NEW b, IsBox(a), IsBox(b)
  PROVE  /\ Rivals(a, b) => Rivals(b, a)
         /\ Overlapping(a, b) => Overlapping(b, a)
         /\ ContainmentAtLeast(a, b, 35) => ContainmentAtLeast(b, a, 35)
<1>1. /\ Intersection(a, b) = Intersection(b, a) /\ Smaller(Area(a), Area(b)) = Smaller(Area(b), Area(a))
      /\ Area(a) + Area(b) - Intersection(a, b) = Area(b) + Area(a) - Intersection(b, a)
  BY Areas DEF Smaller
<1>2. ContainmentAtLeast(a, b, 35) => ContainmentAtLeast(b, a, 35)
  BY <1>1 DEF ContainmentAtLeast
<1>3. Overlapping(a, b) => Overlapping(b, a)
  BY <1>1 DEF Overlapping
<1> QED
  BY <1>2, <1>3, GeometrySymmetric

\* A box that contains another one is its rival; so is one that overlaps it, when
\* the threshold of the merge is more than a third: it shares half of the smaller.
LEMMA ContainedIsRival ==
  ASSUME NEW a, NEW b, IsBox(a), IsBox(b), Contained(a, b)
  PROVE  Rivals(a, b)
<1>1. ContainmentAtLeast(a, b, 70) /\ Nested(a, b)
  BY DEF Contained
<1>2. ContainmentAtLeast(a, b, 50)
  <2> DEFINE small == Smaller(Area(a), Area(b))
             shared == Intersection(a, b)
  <2>1. small \in Nat /\ shared \in Nat
    BY Areas DEF Smaller
  <2>2. small > 0 /\ 100 * shared >= 70 * small
    BY <1>1 DEF ContainmentAtLeast
  <2>3. small > 0 /\ 100 * shared >= 50 * small
    <3> HIDE DEF small, shared
    <3> QED
      BY <2>1, <2>2
  <2> QED
    BY <2>3 DEF ContainmentAtLeast
<1> QED
  BY <1>1, <1>2 DEF Rivals

\* Two areas of whose union more than a third is shared share half of the smaller.
LEMMA ThirdIsHalf ==
  ASSUME NEW first \in Nat, NEW second \in Nat, NEW shared \in Nat, NEW percent \in Nat,
         shared <= first, shared <= second, percent >= 34,
         100 * shared > percent * Larger(1, first + second - shared)
  PROVE  Smaller(first, second) > 0 /\ 100 * shared >= 50 * Smaller(first, second)
<1> DEFINE union == Larger(1, first + second - shared)
<1>1. union \in Nat /\ union >= 1 /\ union >= first + second - shared
  BY DEF Larger
<1>2. 100 * shared > percent * union
  OBVIOUS
<1> HIDE DEF union
<1>3. 34 * union <= percent * union /\ 34 * union \in Int /\ percent * union \in Int
  BY <1>1, Scaled
<1>4. 100 * shared > 34 * union
  BY <1>1, <1>2, <1>3
<1> QED
  BY <1>1, <1>4 DEF Smaller

\* So the boxes are rivals: their centres follow by HalfIsNested.
LEMMA OverlappingIsRival ==
  ASSUME NEW a, NEW b, IsBox(a), IsBox(b), Overlapping(a, b), MergeRatio >= 34
  PROVE  Rivals(a, b)
<1>1. Area(a) \in Nat /\ Area(b) \in Nat /\ Intersection(a, b) \in Nat
  BY Areas
<1>2. Intersection(a, b) <= Area(a) /\ Intersection(a, b) <= Area(b)
  <2> DEFINE iw == Larger(0, Smaller(a.x2, b.x2) - Larger(a.x1, b.x1))
             ih == Larger(0, Smaller(a.y2, b.y2) - Larger(a.y1, b.y1))
  <2>1. /\ iw \in Nat /\ iw <= Width(a) /\ iw <= Width(b)
        /\ ih \in Nat /\ ih <= Height(a) /\ ih <= Height(b)
    BY SharedPart DEF IsBox, Width, Height
  <2>2. Intersection(a, b) = iw * ih
    BY DEF Intersection
  <2> HIDE DEF iw, ih
  <2>3. iw * ih <= Width(a) * Height(a) /\ iw * ih <= Width(b) * Height(b)
    <3>1. Width(a) \in Nat /\ Width(b) \in Nat /\ Height(a) \in Nat /\ Height(b) \in Nat
      BY Areas
    <3>2. iw * ih <= Width(a) * ih /\ Width(a) * ih <= Width(a) * Height(a)
      BY <2>1, <3>1, Scaled
    <3>3. iw * ih <= Width(b) * ih /\ Width(b) * ih <= Width(b) * Height(b)
      BY <2>1, <3>1, Scaled
    <3>4. /\ iw * ih \in Int /\ Width(a) * ih \in Int /\ Width(a) * Height(a) \in Int
          /\ Width(b) * ih \in Int /\ Width(b) * Height(b) \in Int
      BY <2>1, <3>1
    <3> QED
      BY <3>2, <3>3, <3>4
  <2> QED
    BY <2>2, <2>3, Areas
<1>3. MergeRatio \in Nat
  BY TilingAssumption
<1>4. 100 * Intersection(a, b)
        > MergeRatio * Larger(1, Area(a) + Area(b) - Intersection(a, b))
  BY DEF Overlapping
<1>5. /\ Smaller(Area(a), Area(b)) > 0
      /\ 100 * Intersection(a, b) >= 50 * Smaller(Area(a), Area(b))
  BY <1>1, <1>2, <1>3, <1>4, ThirdIsHalf
<1>6. ContainmentAtLeast(a, b, 50)
  BY <1>5 DEF ContainmentAtLeast
<1>7. Nested(a, b)
  BY <1>6, HalfIsNested
<1> QED
  BY <1>6, <1>7 DEF Rivals

\* A list of boxes in front of another one.
LEMMA Joined ==
  ASSUME NEW S, NEW s \in Seq(S), NEW t \in Seq(S)
  PROVE  /\ s \o t \in Seq(S)
         /\ \A k \in DOMAIN (s \o t) :
              (\E i \in DOMAIN s : (s \o t)[k] = s[i]) \/ (\E i \in DOMAIN t : (s \o t)[k] = t[i])
<1>1. ASSUME NEW k \in DOMAIN (s \o t)
      PROVE  (\E i \in DOMAIN s : (s \o t)[k] = s[i]) \/ (\E i \in DOMAIN t : (s \o t)[k] = t[i])
  <2>1. CASE k <= Len(s)
    BY <2>1
  <2>2. CASE k > Len(s)
    <3>1. k - Len(s) \in DOMAIN t /\ (s \o t)[k] = t[k - Len(s)]
      BY <2>2
    <3> QED
      BY <3>1
  <2> QED
    BY <2>1, <2>2
<1> QED
  BY <1>1

\* ... has the elements of both.
LEMMA RangeOfJoined ==
  ASSUME NEW S, NEW s \in Seq(S), NEW t \in Seq(S)
  PROVE  s \o t \in Seq(S) /\ Range(s \o t) = Range(s) \cup Range(t)
<1>1. ASSUME NEW i \in DOMAIN s PROVE \E k \in DOMAIN (s \o t) : (s \o t)[k] = s[i]
  <2>1. i \in DOMAIN (s \o t) /\ (s \o t)[i] = s[i]
    OBVIOUS
  <2> QED
    BY <2>1
<1>2. ASSUME NEW i \in DOMAIN t PROVE \E k \in DOMAIN (s \o t) : (s \o t)[k] = t[i]
  <2>1. Len(s) + i \in DOMAIN (s \o t) /\ (s \o t)[Len(s) + i] = t[i]
    OBVIOUS
  <2> QED
    BY <2>1
<1>3. ASSUME NEW k \in DOMAIN (s \o t) PROVE (s \o t)[k] \in Range(s) \cup Range(t)
  <2>1. (\E i \in DOMAIN s : (s \o t)[k] = s[i]) \/ (\E i \in DOMAIN t : (s \o t)[k] = t[i])
    BY Joined
  <2> QED
    BY <2>1 DEF Range
<1>4. ASSUME NEW x \in Range(s) \cup Range(t) PROVE x \in Range(s \o t)
  <2>1. (\E i \in DOMAIN s : x = s[i]) \/ (\E i \in DOMAIN t : x = t[i])
    BY DEF Range
  <2>2. \E k \in DOMAIN (s \o t) : (s \o t)[k] = x
    BY <1>1, <1>2, <2>1
  <2> QED
    BY <2>2 DEF Range
<1>5. ASSUME NEW x \in Range(s \o t) PROVE x \in Range(s) \cup Range(t)
  <2>1. PICK k \in DOMAIN (s \o t) : x = (s \o t)[k]
    BY DEF Range
  <2> QED
    BY <1>3, <2>1
<1>6. s \o t \in Seq(S)
  BY Joined
<1> QED
  BY <1>4, <1>5, <1>6

\* No candidate repeats a box of the other origin.
LEMMA CandidatesFacts ==
  ASSUME NEW boxes \in Seq(Candidates({"tile"})), NEW joint \in Seq(Candidates({"joint"}))
  PROVE  /\ SuppressTileDuplicates(boxes, joint) \o joint \in Seq(AllCandidates)
         /\ NoRepetition(SuppressTileDuplicates(boxes, joint) \o joint)
<1> DEFINE I == {i \in DOMAIN boxes : \A j \in DOMAIN joint :
                   ~(boxes[i].class = joint[j].class /\ ContainmentAtLeast(boxes[i], joint[j], 35))}
           kept == Sublist(boxes, I)
           c == kept \o joint
<1>1. SuppressTileDuplicates(boxes, joint) = kept
  BY DEF SuppressTileDuplicates
<1>2. I \in SUBSET (DOMAIN boxes)
  OBVIOUS
<1>3. /\ kept \in Seq(Candidates({"tile"}))
      /\ \A k \in DOMAIN kept : \E i \in I : kept[k] = boxes[i]
  <2> HIDE DEF I
  <2> QED
    BY <1>2, SublistPairs
<1>4. \A k \in DOMAIN kept, j \in DOMAIN joint :
        ~(kept[k].class = joint[j].class /\ ContainmentAtLeast(kept[k], joint[j], 35))
  <2> TAKE k \in DOMAIN kept, j \in DOMAIN joint
  <2>1. PICK i \in I : kept[k] = boxes[i]
    BY <1>3
  <2> HIDE DEF kept
  <2> QED
    BY <2>1
<1> HIDE DEF kept, I
<1>5. Candidates({"tile"}) \subseteq AllCandidates /\ Candidates({"joint"}) \subseteq AllCandidates
  BY DEF AllCandidates, Candidates
<1>6. kept \in Seq(AllCandidates) /\ joint \in Seq(AllCandidates)
  BY <1>3, <1>5
<1>7. /\ c \in Seq(AllCandidates)
      /\ \A k \in DOMAIN c :
           (\E i \in DOMAIN kept : c[k] = kept[i]) \/ (\E i \in DOMAIN joint : c[k] = joint[i])
  BY <1>6, Joined
<1> HIDE DEF c
<1>8. ASSUME NEW k \in DOMAIN c, NEW l \in DOMAIN c,
             c[k].class = c[l].class, c[k].origin # c[l].origin
      PROVE  ~ContainmentAtLeast(c[k], c[l], 35)
  <2>1. /\ \A i \in DOMAIN kept : kept[i].origin = "tile"
        /\ \A i \in DOMAIN joint : joint[i].origin = "joint"
    <3>1. /\ \A i \in DOMAIN kept : kept[i] \in Candidates({"tile"})
          /\ \A i \in DOMAIN joint : joint[i] \in Candidates({"joint"})
      BY <1>3
    <3>2. /\ \A d \in Candidates({"tile"}) : d.origin = "tile"
          /\ \A d \in Candidates({"joint"}) : d.origin = "joint"
      BY DEF Candidates
    <3> QED
      BY <3>1, <3>2
  <2>2. IsBox(c[k]) /\ IsBox(c[l])
    <3>1. c[k] \in AllCandidates /\ c[l] \in AllCandidates
      BY <1>7
    <3> QED
      BY <3>1 DEF AllCandidates, Candidates
  <2>3. CASE (\E i \in DOMAIN kept : c[k] = kept[i]) /\ (\E j \in DOMAIN joint : c[l] = joint[j])
    BY <1>4, <1>8, <2>3
  <2>4. CASE (\E i \in DOMAIN joint : c[k] = joint[i]) /\ (\E j \in DOMAIN kept : c[l] = kept[j])
    <3>1. ~ContainmentAtLeast(c[l], c[k], 35)
      BY <1>4, <1>8, <2>4
    <3> QED
      BY <2>2, <3>1, RelationsSymmetric
  <2> QED
    BY <1>7, <1>8, <2>1, <2>3, <2>4
<1> QED
  BY <1>1, <1>7, <1>8 DEF NoRepetition, c

\* Of the boxes kept no two are rivals, and every other one has a rival among them.
LEMMA SelectedFacts ==
  ASSUME NEW s \in Seq(AllCandidates)
  PROVE  /\ SelectExclusive(s) \in Seq(AllCandidates)
         /\ From(SelectExclusive(s), s)
         /\ NoRivals(SelectExclusive(s))
         /\ \A j \in DOMAIN s : \E k \in DOMAIN SelectExclusive(s) :
              SelectExclusive(s)[k] = s[j] \/ Rivals(SelectExclusive(s)[k], s[j])
<1> DEFINE n == Len(s)
           K == Kept(n, Rivalries(s))
           t == Sublist(s, K)
<1>0. n \in Nat /\ DOMAIN s = 1 .. n /\ \A i \in 1 .. n : s[i] \in AllCandidates
  OBVIOUS
<1>1. SelectExclusive(s) = t
  BY DEF SelectExclusive
<1>2. /\ K \in SUBSET (1 .. n)
      /\ \A i, j \in K : i < j => <<i, j>> \notin Rivalries(s)
      /\ \A j \in 1 .. n : j \in K \/ \E i \in K : i < j /\ <<i, j>> \in Rivalries(s)
  <2> HIDE DEF n
  <2> QED
    BY <1>0, KeptFacts
<1> HIDE DEF n, K
<1>3. \A i, j \in 1 .. n : <<i, j>> \in Rivalries(s) <=> Rivals(s[i], s[j])
  BY <1>0 DEF Rivalries
<1>4. /\ t \in Seq(AllCandidates)
      /\ \A i \in K : \E k \in DOMAIN t : t[k] = s[i]
      /\ \A k, l \in DOMAIN t : k < l => \E i, j \in K : i < j /\ t[k] = s[i] /\ t[l] = s[j]
  <2>1. K \in SUBSET (DOMAIN s)
    BY <1>0, <1>2
  <2> QED
    BY <2>1, SublistPairs
<1>5. From(t, s)
  <2>1. K \in SUBSET (DOMAIN s)
    BY <1>0, <1>2
  <2> QED
    BY <2>1, SublistFrom
<1> HIDE DEF t
<1>6. ASSUME NEW k \in DOMAIN t, NEW l \in DOMAIN t, k < l PROVE ~Rivals(t[k], t[l])
  <2>1. PICK i \in K, j \in K : i < j /\ t[k] = s[i] /\ t[l] = s[j]
    BY <1>4, <1>6
  <2>2. i \in 1 .. n /\ j \in 1 .. n /\ <<i, j>> \notin Rivalries(s)
    BY <1>2, <2>1
  <2> QED
    BY <1>3, <2>1, <2>2
<1>7. NoRivals(t)
  <2> SUFFICES ASSUME NEW k \in DOMAIN t, NEW l \in DOMAIN t, k # l
               PROVE  ~Rivals(t[k], t[l])
    BY DEF NoRivals
  <2>1. k \in Int /\ l \in Int
    BY <1>4
  <2>2. CASE k < l
    BY <1>6, <2>2
  <2>3. CASE l < k
    <3>1. ~Rivals(t[l], t[k])
      BY <1>6, <2>3
    <3>2. IsBox(t[k]) /\ IsBox(t[l])
      <4>1. t[k] \in AllCandidates /\ t[l] \in AllCandidates
        BY <1>4
      <4> QED
        BY <4>1 DEF AllCandidates, Candidates
    <3> QED
      BY <3>1, <3>2, RelationsSymmetric
  <2> QED
    BY <2>1, <2>2, <2>3
<1>8. ASSUME NEW j \in DOMAIN s
      PROVE  \E k \in DOMAIN t : t[k] = s[j] \/ Rivals(t[k], s[j])
  <2>1. CASE j \in K
    BY <1>4, <2>1
  <2>2. CASE j \notin K
    <3>1. j \in 1 .. n
      BY <1>0
    <3>2. PICK i \in K : i < j /\ <<i, j>> \in Rivalries(s)
      BY <1>2, <2>2, <3>1
    <3>3. Rivals(s[i], s[j])
      BY <1>2, <1>3, <3>1, <3>2
    <3>4. PICK k \in DOMAIN t : t[k] = s[i]
      BY <1>4
    <3> QED
      BY <3>3, <3>4
  <2> QED
    BY <2>1, <2>2
<1> QED
  BY <1>1, <1>4, <1>5, <1>7, <1>8

\* Across classes nothing is left to drop.
LEMMA ClassesFacts ==
  ASSUME NEW s \in Seq(AllCandidates), NoRivals(s)
  PROVE  /\ MergeClasses(s) \in Seq(AllCandidates)
         /\ From(MergeClasses(s), s) /\ Has(MergeClasses(s), s)
<1> DEFINE n == Len(s)
           against == {p \in Rivalries(s) : s[p[1]].class # s[p[2]].class}
           K == Kept(n, against)
           t == Sublist(s, K)
<1>0. n \in Nat /\ DOMAIN s = 1 .. n
  OBVIOUS
<1>1. MergeClasses(s) = t
  BY DEF MergeClasses
<1>2. \A i, j \in 1 .. n : i < j => <<i, j>> \notin against
  <2> TAKE i, j \in 1 .. n
  <2> SUFFICES ASSUME i < j PROVE ~Rivals(s[i], s[j])
    BY DEF Rivalries
  <2>1. i \in DOMAIN s /\ j \in DOMAIN s /\ i # j
    BY <1>0
  <2> QED
    BY <2>1 DEF NoRivals
<1> HIDE DEF n, against
<1>3. /\ K \in SUBSET (1 .. n)
      /\ \A j \in 1 .. n : j \in K \/ \E i \in K : i < j /\ <<i, j>> \in against
  BY <1>0, KeptFacts
<1> HIDE DEF K
<1>4. K = DOMAIN s
  BY <1>0, <1>2, <1>3
<1>5. t \in Seq(AllCandidates) /\ From(t, s)
  BY <1>4, SublistFrom
<1>6. \A i \in DOMAIN s : \E k \in DOMAIN t : t[k] = s[i]
  BY <1>4, SublistPairs
<1> HIDE DEF t
<1> QED
  BY <1>1, <1>5, <1>6 DEF Has

\* A box gives way to one of its class that it overlaps, or is added: among boxes
\* that are not rivals none contains another, so that none is replaced (MergeOne).
LEMMA MergeOneFacts ==
  ASSUME NEW x \in Seq(AllCandidates), NEW d \in AllCandidates,
         \A i \in DOMAIN x : ~Rivals(x[i], d)
  PROVE  \/ MergeOne(x, d) = x /\ MergeRatio < 34
         \/ /\ MergeOne(x, d) = Append(x, d)
            /\ \A i \in DOMAIN x : x[i].class = d.class => ~Overlapping(x[i], d)
<1> DEFINE same == {i \in DOMAIN x : x[i].class = d.class
                      /\ (Overlapping(x[i], d) \/ Contained(x[i], d))}
           first == CHOOSE i \in same : \A k \in same : i <= k
<1>1. \A i \in DOMAIN x : IsBox(x[i]) /\ IsBox(d)
  <2>1. \A i \in DOMAIN x : x[i] \in AllCandidates
    OBVIOUS
  <2> QED
    BY <2>1 DEF AllCandidates, Candidates
<1>2. \A i \in DOMAIN x : ~Contained(x[i], d)
  BY <1>1, ContainedIsRival
<1>3. CASE same = {}
  <2>1. MergeOne(x, d) = Append(x, d)
    BY <1>3 DEF MergeOne
  <2> QED
    BY <1>3, <2>1
<1>4. CASE same # {}
  <2>1. first \in same
    <3>1. same \subseteq Nat
      OBVIOUS
    <3> HIDE DEF same
    <3>2. \E i \in same : \A k \in same : i <= k
      BY <1>4, <3>1, LeastOf
    <3> QED
      BY <3>2
  <2>2. first \in DOMAIN x /\ Overlapping(x[first], d)
    <3> HIDE DEF first
    <3> QED
      BY <1>2, <2>1
  <2>3. MergeOne(x, d) = x
    BY <1>4, <2>2 DEF MergeOne
  <2>4. MergeRatio < 34
    <3> HIDE DEF first
    <3>1. IsBox(x[first]) /\ IsBox(d) /\ Overlapping(x[first], d) /\ ~Rivals(x[first], d)
      BY <1>1, <2>2
    <3>2. ~(MergeRatio >= 34)
      BY ONLY <3>1, OverlappingIsRival, TilingAssumption
    <3>3. MergeRatio \in Int
      BY TilingAssumption
    <3> QED
      BY ONLY <3>2, <3>3
  <2> QED
    BY <2>3, <2>4
<1> QED
  BY <1>3, <1>4

\* Among boxes that are not rivals those are left of which no two of a class
\* overlap, and all of them when the threshold is more than a third.
LEMMA SameFacts ==
  ASSUME NEW s \in Seq(AllCandidates), NoRivals(s)
  PROVE  /\ MergeSame(s) \in Seq(AllCandidates)
         /\ From(MergeSame(s), s) /\ NoOverlap(MergeSame(s))
         /\ MergeRatio >= 34 => Has(MergeSame(s), s)
<1> DEFINE n == Len(s)
           S == Seq(AllCandidates)
           Run(f) == f = [k \in 0 .. n |-> IF k = 0 THEN <<>> ELSE MergeOne(f[k - 1], s[k])]
           run == CHOOSE f : Run(f)
<1>0. n \in Nat /\ DOMAIN s = 1 .. n /\ \A k \in 1 .. n : s[k] \in AllCandidates
  OBVIOUS
<1>1. MergeSame(s) = run[n]
  BY DEF MergeSame
<1> HIDE DEF n
<1>2. \A k \in 1 .. n, x \in S : MergeOne(x, s[k]) \in S
  <2> TAKE k \in 1 .. n, x \in S
  <2> DEFINE d == s[k]
             same == {i \in DOMAIN x : x[i].class = d.class
                        /\ (Overlapping(x[i], d) \/ Contained(x[i], d))}
             first == CHOOSE i \in same : \A m \in same : i <= m
  <2>1. d \in AllCandidates /\ Append(x, d) \in S
    BY <1>0
  <2>2. CASE same = {}
    <3>1. MergeOne(x, d) = Append(x, d)
      BY <2>2 DEF MergeOne
    <3> QED
      BY <2>1, <3>1
  <2>3. CASE same # {}
    <3>1. first \in same
      <4>1. same \subseteq Nat
        OBVIOUS
      <4> HIDE DEF same
      <4>2. \E i \in same : \A m \in same : i <= m
        BY <2>3, <4>1, LeastOf
      <4> QED
        BY <4>2
    <3>2. MergeOne(x, d) \in {x, [x EXCEPT ![first] = d]}
      BY <2>3 DEF MergeOne
    <3> HIDE DEF first, d
    <3>3. first \in DOMAIN x
      BY <3>1
    <3>4. [x EXCEPT ![first] = d] \in S
      BY <2>1, <3>3, ListWith
    <3>5. MergeOne(x, d) \in S
      BY <3>2, <3>4
    <3> QED
      BY <3>5 DEF d
  <2> QED
    BY <2>2, <2>3
<1> HIDE DEF S
<1>3. \E f : Run(f)
  <2> DEFINE step == [k \in 1 .. n |-> [x \in S |-> MergeOne(x, s[k])]]
  <2>1. step \in [1 .. n -> [S -> S]]
    BY <1>2
  <2>2. \A k \in 1 .. n, x \in S : step[k][x] = MergeOne(x, s[k])
    OBVIOUS
  <2>3. <<>> \in S
    BY DEF S
  <2> HIDE DEF step
  <2>4. PICK f : IsLoop(f, n, S, <<>>, step)
    BY <1>0, <2>1, <2>3, LoopExists
  <2>5. f \in [0 .. n -> S] /\ f[0] = <<>> /\ \A k \in 1 .. n : f[k] = step[k][f[k - 1]]
    BY <2>4 DEF IsLoop
  <2>6. \A k \in 0 .. n : f[k] = IF k = 0 THEN <<>> ELSE MergeOne(f[k - 1], s[k])
    <3> TAKE k \in 0 .. n
    <3>1. CASE k = 0
      BY <2>5, <3>1
    <3>2. CASE k # 0
      <4>1. k \in 1 .. n /\ k - 1 \in 0 .. n
        BY ONLY <1>0, <3>2
      <4>2. f[k] = step[k][f[k - 1]] /\ f[k - 1] \in S
        BY ONLY <2>5, <4>1
      <4> QED
        BY ONLY <2>2, <3>2, <4>1, <4>2
    <3> QED
      BY <3>1, <3>2
  <2>7. f = [k \in 0 .. n |-> IF k = 0 THEN <<>> ELSE MergeOne(f[k - 1], s[k])]
    BY <2>5, <2>6
  <2> QED
    BY <2>7
<1>4. Run(run)
  BY <1>3
<1> HIDE DEF run
<1>5. run[0] = <<>> /\ \A k \in 1 .. n : run[k] = MergeOne(run[k - 1], s[k])
  <2> DEFINE h == [k \in 0 .. n |-> IF k = 0 THEN <<>> ELSE MergeOne(run[k - 1], s[k])]
  <2>1. \A k \in 0 .. n : h[k] = IF k = 0 THEN <<>> ELSE MergeOne(run[k - 1], s[k])
    OBVIOUS
  <2>2. run = h
    BY <1>4
  <2> HIDE DEF h
  <2>3. 0 \in 0 .. n /\ \A k \in 1 .. n : k \in 0 .. n /\ k # 0
    BY <1>0
  <2> QED
    BY ONLY <2>1, <2>2, <2>3
<1> DEFINE Elements(x, k) == \A a \in DOMAIN x : \E i \in 1 .. k : x[a] = s[i]
           Pairs(x, k) == \A a, b \in DOMAIN x : a # b =>
                            \E i, j \in 1 .. k : i # j /\ x[a] = s[i] /\ x[b] = s[j]
           Whole(x, k) == MergeRatio >= 34 => \A i \in 1 .. k : \E a \in DOMAIN x : x[a] = s[i]
           Good(x, k) == x \in S /\ Elements(x, k) /\ Pairs(x, k) /\ NoOverlap(x) /\ Whole(x, k)
           T == {k \in 0 .. n : Good(run[k], k)}
<1>6. 0 \in T
  <2>1. Good(<<>>, 0)
    BY DEF S, NoOverlap
  <2> HIDE DEF Good
  <2> QED
    BY <1>0, <1>5, <2>1
<1>7. ASSUME NEW k \in 1 .. n, k - 1 \in T PROVE k \in T
  <2> DEFINE x == run[k - 1]
             d == s[k]
             y == MergeOne(x, d)
  <2>1. Good(x, k - 1)
    BY <1>7
  <2>2. run[k] = y
    BY <1>5
  <2> HIDE DEF x
  <2>3. /\ d \in AllCandidates /\ x \in Seq(AllCandidates)
        /\ \A i \in 1 .. k - 1 : i \in 1 .. k /\ i # k /\ i \in 1 .. n
        /\ \A i \in 1 .. k : i = k \/ i \in 1 .. k - 1
    BY <1>0, <2>1 DEF S
  <2>4. \A a \in DOMAIN x : ~Rivals(x[a], d)
    <3> TAKE a \in DOMAIN x
    <3>1. PICK i \in 1 .. k - 1 : x[a] = s[i]
      BY <2>1
    <3>2. i \in DOMAIN s /\ k \in DOMAIN s /\ i # k
      BY <1>0, <2>3
    <3> QED
      BY <3>1, <3>2 DEF NoRivals
  <2> HIDE DEF d
  <2>5. \/ y = x /\ MergeRatio < 34
        \/ /\ y = Append(x, d)
           /\ \A i \in DOMAIN x : x[i].class = d.class => ~Overlapping(x[i], d)
    BY <2>3, <2>4, MergeOneFacts
  <2> HIDE DEF y
  <2>6. CASE y = x /\ MergeRatio < 34
    <3>1. Whole(x, k)
      <4>1. MergeRatio \in Int
        BY TilingAssumption
      <4>2. ~(MergeRatio >= 34)
        BY ONLY <2>6, <4>1
      <4> QED
        BY <4>2
    <3>2. Elements(x, k)
      <4> TAKE a \in DOMAIN x
      <4>1. PICK i \in 1 .. k - 1 : x[a] = s[i]
        BY <2>1
      <4> QED
        BY <2>3, <4>1
    <3>3. Pairs(x, k)
      <4> TAKE a, b \in DOMAIN x
      <4> HAVE a # b
      <4>1. PICK i \in 1 .. k - 1, j \in 1 .. k - 1 : i # j /\ x[a] = s[i] /\ x[b] = s[j]
        BY <2>1
      <4> QED
        BY <2>3, <4>1
    <3>4. x \in S /\ NoOverlap(x)
      BY <2>1
    <3> HIDE DEF Elements, Pairs, Whole
    <3>5. Good(x, k)
      BY <3>1, <3>2, <3>3, <3>4
    <3> HIDE DEF Good
    <3> QED
      BY <2>2, <2>6, <3>5
  <2>7. CASE /\ y = Append(x, d)
             /\ \A i \in DOMAIN x : x[i].class = d.class => ~Overlapping(x[i], d)
    <3> DEFINE l == Len(x) + 1
    <3>1. /\ y \in Seq(AllCandidates) /\ l \in DOMAIN y /\ y[l] = d
          /\ \A a \in DOMAIN x : a \in DOMAIN y /\ y[a] = x[a]
          /\ \A a \in DOMAIN y : a = l \/ a \in DOMAIN x
      BY <2>3, <2>7
    <3> HIDE DEF l
    <3>2. d = s[k] /\ k \in 1 .. k
      BY DEF d
    <3>3. Elements(y, k)
      <4> TAKE a \in DOMAIN y
      <4>1. CASE a = l
        BY <3>1, <3>2, <4>1
      <4>2. CASE a \in DOMAIN x
        <5>1. PICK i \in 1 .. k - 1 : x[a] = s[i]
          BY <2>1, <4>2
        <5> QED
          BY <2>3, <3>1, <4>2, <5>1
      <4> QED
        BY <3>1, <4>1, <4>2
    <3>4. Pairs(y, k)
      <4> SUFFICES ASSUME NEW a \in DOMAIN y, NEW b \in DOMAIN y, a # b
                   PROVE  \E i, j \in 1 .. k : i # j /\ y[a] = s[i] /\ y[b] = s[j]
        OBVIOUS
      <4>1. CASE a \in DOMAIN x /\ b \in DOMAIN x
        <5>1. PICK i \in 1 .. k - 1, j \in 1 .. k - 1 : i # j /\ x[a] = s[i] /\ x[b] = s[j]
          BY <2>1, <4>1
        <5> QED
          BY <2>3, <3>1, <4>1, <5>1
      <4>2. CASE a = l /\ b \in DOMAIN x
        <5>1. PICK j \in 1 .. k - 1 : x[b] = s[j]
          BY <2>1, <4>2
        <5> QED
          BY <2>3, <3>1, <3>2, <4>2, <5>1
      <4>3. CASE a \in DOMAIN x /\ b = l
        <5>1. PICK i \in 1 .. k - 1 : x[a] = s[i]
          BY <2>1, <4>3
        <5> QED
          BY <2>3, <3>1, <3>2, <4>3, <5>1
      <4> QED
        BY <3>1, <4>1, <4>2, <4>3
    <3>5. NoOverlap(y)
      <4> SUFFICES ASSUME NEW a \in DOMAIN y, NEW b \in DOMAIN y, a # b, y[a].class = y[b].class
                   PROVE  ~Overlapping(y[a], y[b])
        BY DEF NoOverlap
      <4>1. CASE a \in DOMAIN x /\ b \in DOMAIN x
        BY <2>1, <3>1, <4>1 DEF NoOverlap
      <4>2. CASE a = l /\ b \in DOMAIN x
        <5>1. ~Overlapping(y[b], y[a])
          BY <2>7, <3>1, <4>2
        <5>2. IsBox(y[a]) /\ IsBox(y[b])
          <6>1. y[a] \in AllCandidates /\ y[b] \in AllCandidates
            BY <3>1
          <6> QED
            BY <6>1 DEF AllCandidates, Candidates
        <5> QED
          BY <5>1, <5>2, RelationsSymmetric
      <4>3. CASE a \in DOMAIN x /\ b = l
        BY <2>7, <3>1, <4>3
      <4> QED
        BY <3>1, <4>1, <4>2, <4>3
    <3>6. Whole(y, k)
      BY <2>1, <2>3, <3>1, <3>2
    <3> HIDE DEF Elements, Pairs, Whole
    <3> QED
      BY <2>2, <3>1, <3>3, <3>4, <3>5, <3>6 DEF S
  <2> QED
    BY <2>5, <2>6, <2>7
<1> HIDE DEF T
<1>8. 0 .. n \subseteq T
  BY <1>0, <1>6, <1>7, Turns
<1>9. Good(run[n], n)
  <2>1. n \in 0 .. n
    BY <1>0
  <2> HIDE DEF Good
  <2> QED
    BY <1>8, <2>1 DEF T
<1>10. From(run[n], s)
  BY <1>0, <1>9 DEF From
<1>11. MergeRatio >= 34 => Has(run[n], s)
  BY <1>0, <1>9 DEF Has
<1> QED
  BY <1>1, <1>9, <1>10, <1>11 DEF S

\* What is published of the candidates (the end of run's tiled branch).
LEMMA PublishedFacts ==
  ASSUME NEW c \in Seq(AllCandidates), NoRepetition(c),
         NEW sorted \in Orders(c, ReliableFirst), NEW v \in Merge(SelectExclusive(sorted))
  PROVE  /\ NoRivals(v) /\ NoRepetition(v) /\ NoOverlap(v)
         /\ MergeRatio >= 34 =>
              \A j \in DOMAIN c : \E k \in DOMAIN v : v[k] = c[j] \/ Rivals(v[k], c[j])
<1> DEFINE e == SelectExclusive(sorted)
<1>1. sorted \in Seq(AllCandidates) /\ From(sorted, c) /\ Has(sorted, c)
  BY ReliableIsRearranged, RearrangedFrom
<1>2. /\ e \in Seq(AllCandidates) /\ From(e, sorted) /\ NoRivals(e)
      /\ \A j \in DOMAIN sorted : \E k \in DOMAIN e : e[k] = sorted[j] \/ Rivals(e[k], sorted[j])
  BY <1>1, SelectedFacts
<1>3. NoRepetition(e)
  BY <1>1, <1>2, FromKeeps
<1> HIDE DEF e
<1>4. PICK t \in Orders(e, ScoreFirst) :
        v \in {MergeClasses(u) : u \in Orders(MergeSame(t), ScoreFirst)}
  BY DEF Merge, e
<1>5. t \in Seq(AllCandidates) /\ From(t, e) /\ Has(t, e)
  BY <1>2, ScoredIsRearranged, RearrangedFrom
<1>6. NoRivals(t) /\ NoRepetition(t)
  BY <1>2, <1>3, <1>5, FromKeeps
<1> DEFINE m == MergeSame(t)
<1>7. /\ m \in Seq(AllCandidates) /\ From(m, t) /\ NoOverlap(m)
      /\ MergeRatio >= 34 => Has(m, t)
  BY <1>5, <1>6, SameFacts
<1>8. NoRivals(m) /\ NoRepetition(m)
  BY <1>6, <1>7, FromKeeps
<1>9. PICK u \in Orders(m, ScoreFirst) : v = MergeClasses(u)
  BY <1>4 DEF m
<1> HIDE DEF m
<1>10. u \in Seq(AllCandidates) /\ From(u, m) /\ Has(u, m)
  BY <1>7, <1>9, ScoredIsRearranged, RearrangedFrom
<1>11. NoRivals(u) /\ NoRepetition(u) /\ NoOverlap(u)
  BY <1>7, <1>8, <1>10, FromKeeps
<1>12. From(v, u) /\ Has(v, u)
  BY <1>9, <1>10, <1>11, ClassesFacts
<1>13. NoRivals(v) /\ NoRepetition(v) /\ NoOverlap(v)
  BY <1>11, <1>12, FromKeeps
<1>14. ASSUME MergeRatio >= 34, NEW j \in DOMAIN c
       PROVE  \E k \in DOMAIN v : v[k] = c[j] \/ Rivals(v[k], c[j])
  <2>1. PICK i \in DOMAIN sorted : sorted[i] = c[j]
    BY <1>1 DEF Has
  <2>2. PICK k \in DOMAIN e : e[k] = sorted[i] \/ Rivals(e[k], sorted[i])
    BY <1>2
  <2>3. PICK l \in DOMAIN t : t[l] = e[k]
    BY <1>5 DEF Has
  <2>4. PICK p \in DOMAIN m : m[p] = t[l]
    BY <1>7, <1>14 DEF Has
  <2>5. PICK q \in DOMAIN u : u[q] = m[p]
    BY <1>10 DEF Has
  <2>6. PICK w \in DOMAIN v : v[w] = u[q]
    BY <1>12 DEF Has
  <2> QED
    BY <2>1, <2>2, <2>3, <2>4, <2>5, <2>6
<1> QED
  BY <1>13, <1>14

-------------------------------------------------------------------------------
(* The invariant.                                                          *)

Shape ==
  /\ region \in Regions
  /\ stage \in {"tiles", "joint", "published"} /\ asked \in Nat
  /\ tiled \in Seq(Candidates({"tile"}))
  /\ joints \in Seq(FittingRects)
  /\ rechecked \in Seq(Candidates({"joint"}))

\* Until the boxes are merged, those of the tiles are all that has been found.
AllReported == stage = "tiles" => reported = Range(tiled)

IInv == Shape /\ AllReported /\ RecheckSeesBoth /\ OneBoxPerPlace

\* Nothing has been inferred at first.
LEMMA InitIInv == Init => IInv
BY DEF Init, IInv, Shape, AllReported, RecheckSeesBoth, OneBoxPerPlace, Range

\* The boxes of a tile join those of the tiles before it.
LEMMA InferTileKeeps ==
  ASSUME IInv, InferTile
  PROVE  IInv'
<1> DEFINE tile == Tiles(region)[asked + 1]
           C == Candidates({"tile"})
<1>1. region \in Regions /\ asked \in Nat /\ asked < Len(Tiles(region)) /\ tiled \in Seq(C)
  BY DEF IInv, Shape, InferTile
<1>2. PICK found \in Detections(tile) \cap Seq(Finding) :
        /\ tiled' = tiled \o Located(found, tile, "tile")
        /\ reported' = reported \cup Range(Located(found, tile, "tile"))
  BY DEF InferTile
<1>3. tile \in Rects
  <2>1. asked + 1 \in DOMAIN Tiles(region)
    <3>1. Cols * Rows \in Nat
      BY TilingAssumption
    <3>2. DOMAIN Tiles(region) = 1 .. Cols * Rows /\ Len(Tiles(region)) = Cols * Rows
      BY <3>1 DEF Tiles
    <3> QED
      BY <1>1, <3>1, <3>2
  <2> QED
    BY <1>1, <2>1, TilesOfRegion DEF Rects, Fits
<1> DEFINE new == Located(found, tile, "tile")
<1>4. new \in Seq(C)
  BY <1>3, LocatedIsTyped
<1> HIDE DEF C, new, tile
<1>5. tiled' \in Seq(C) /\ Range(tiled') = Range(tiled) \cup Range(new)
  <2>1. tiled' = tiled \o new
    BY <1>2 DEF new
  <2> QED
    BY <1>1, <1>4, <2>1, RangeOfJoined
<1>6. AllReported'
  BY <1>2, <1>5 DEF IInv, AllReported, InferTile, new
<1>7. Shape'
  BY <1>1, <1>5 DEF IInv, Shape, InferTile, C
<1> QED
  BY <1>6, <1>7 DEF IInv, RecheckSeesBoth, OneBoxPerPlace, InferTile

\* The joint regions show what the boxes found so far ask for.
LEMMA MergeTilesKeeps ==
  ASSUME IInv, MergeTiles
  PROVE  IInv'
<1> DEFINE C == Candidates({"tile"})
<1>1. tiled \in Seq(C) /\ reported = Range(tiled)
  BY DEF IInv, Shape, AllReported, MergeTiles
<1>2. /\ joints' = JointRegions(tiled) /\ tiled' = MergeBoundary(tiled)
      /\ stage' = "joint" /\ asked' = 0
      /\ UNCHANGED <<region, rechecked, published, reported>>
  BY DEF MergeTiles
<1>3. /\ joints' \in Seq(FittingRects)
      /\ \A i, j \in DOMAIN tiled : i < j /\ Divided(tiled[i], tiled[j]) =>
           \E r \in DOMAIN joints' : Shows(joints'[r], tiled[i], tiled[j])
  BY <1>1, <1>2, JointRegionsFacts
<1>4. tiled' \in Seq(C)
  BY <1>1, <1>2, MergeBoundaryTyped
<1>5. Shape'
  BY <1>2, <1>3, <1>4 DEF IInv, Shape
<1>6. ASSUME NEW a \in reported, NEW b \in reported, a.tile # b.tile, Divided(a, b)
      PROVE  \E r \in Range(joints') : Within(Common(a, FrameBox), r) /\ Within(Common(b, FrameBox), r)
  <2>1. PICK i \in DOMAIN tiled, j \in DOMAIN tiled : a = tiled[i] /\ b = tiled[j]
    BY <1>1 DEF Range
  <2>2. i \in Int /\ j \in Int /\ i # j /\ a \in C /\ b \in C
    BY <1>1, <1>6, <2>1
  <2>3. PICK r \in DOMAIN joints' : Shows(joints'[r], a, b)
    <3>1. CASE i < j
      BY <1>3, <1>6, <2>1, <3>1
    <3>2. CASE j < i
      <4>1. Divided(b, a)
        BY <1>6, <2>2, DividedSymmetric
      <4>2. PICK r \in DOMAIN joints' : Shows(joints'[r], b, a)
        BY <1>3, <2>1, <3>2, <4>1
      <4> QED
        BY <4>2 DEF Shows
    <3> QED
      BY <2>2, <3>1, <3>2
  <2> QED
    BY <2>3 DEF Shows, Range
<1>7. RecheckSeesBoth'
  BY <1>2, <1>6 DEF RecheckSeesBoth
<1> QED
  BY <1>2, <1>5, <1>7 DEF IInv, AllReported, OneBoxPerPlace

\* Looking again changes neither the regions nor what is published.
LEMMA InferJointKeeps ==
  ASSUME IInv, InferJoint
  PROVE  IInv'
<1> DEFINE C == Candidates({"joint"})
           rect == joints[asked + 1]
<1>1. /\ asked \in Nat /\ asked < Len(joints) /\ joints \in Seq(FittingRects)
      /\ rechecked \in Seq(C) /\ stage = "joint"
  BY DEF IInv, Shape, InferJoint
<1>2. PICK found \in Detections(rect) \cap Seq(Finding) :
        rechecked' = rechecked \o Located(found, rect, "joint")
  BY DEF InferJoint
<1>3. rect \in Rects
  <2>1. asked + 1 \in DOMAIN joints
    BY <1>1
  <2> QED
    BY <1>1, <2>1 DEF FittingRects
<1> DEFINE new == Located(found, rect, "joint")
<1>4. new \in Seq(C)
  BY <1>3, LocatedIsTyped
<1> HIDE DEF C, new, rect
<1>5. rechecked' \in Seq(C)
  BY <1>1, <1>2, <1>4, Joined DEF new
<1>6. stage' = "joint" /\ asked' = asked + 1 /\ asked' # 0 /\ asked' \in Nat
      /\ UNCHANGED <<region, tiled, joints, published>>
  BY <1>1 DEF InferJoint
<1>7. Shape'
  BY <1>5, <1>6 DEF IInv, Shape, C
<1> QED
  BY <1>6, <1>7 DEF IInv, AllReported, RecheckSeesBoth, OneBoxPerPlace

\* No two of the boxes published compete for a place.
LEMMA PublishKeeps ==
  ASSUME IInv, Publish
  PROVE  /\ IInv'
         /\ MergeRatio >= 34 => LosersHaveWinners'
<1> DEFINE c == SuppressTileDuplicates(tiled, rechecked) \o rechecked
<1>1. c \in Seq(AllCandidates) /\ NoRepetition(c)
  BY CandidatesFacts DEF IInv, Shape
<1>2. PICK sorted \in Orders(c, ReliableFirst) : published' \in Merge(SelectExclusive(sorted))
  BY DEF Publish
<1>3. /\ stage' = "published"
      /\ UNCHANGED <<region, asked, tiled, joints, rechecked, reported>>
  BY DEF Publish
<1> HIDE DEF c
<1>4. /\ NoRivals(published') /\ NoRepetition(published') /\ NoOverlap(published')
      /\ MergeRatio >= 34 =>
           \A j \in DOMAIN c : \E k \in DOMAIN published' :
             published'[k] = c[j] \/ Rivals(published'[k], c[j])
  BY <1>1, <1>2, PublishedFacts
<1>5. OneBoxPerPlace'
  BY <1>4 DEF OneBoxPerPlace, NoRivals, NoRepetition, NoOverlap
<1>6. Shape' /\ AllReported' /\ RecheckSeesBoth'
  BY <1>3 DEF IInv, Shape, AllReported, RecheckSeesBoth
<1>7. ASSUME MergeRatio >= 34 PROVE LosersHaveWinners'
  <2>1. c' = c
    BY <1>3 DEF c
  <2>2. ASSUME NEW d \in Range(c)
        PROVE  \E i \in DOMAIN published' : published'[i] = d \/ Rivals(published'[i], d)
    <3>1. PICK j \in DOMAIN c : c[j] = d
      BY DEF Range
    <3> QED
      BY <1>4, <1>7, <3>1
  <2>3. \A d \in Range(c') : \E i \in DOMAIN published' :
          published'[i] = d \/ Rivals(published'[i], d)
    BY <2>1, <2>2
  <2> QED
    BY <2>3 DEF LosersHaveWinners, c
<1> QED
  BY <1>5, <1>6, <1>7 DEF IInv

\* The next frame starts from nothing.
LEMMA NextFrameKeeps ==
  ASSUME IInv, NextFrame
  PROVE  IInv'
<1>1. Shape'
  BY DEF IInv, Shape, NextFrame
<1>2. AllReported'
  BY DEF AllReported, NextFrame, Range
<1> QED
  BY <1>1, <1>2 DEF IInv, RecheckSeesBoth, OneBoxPerPlace, NextFrame

\* Every step keeps the invariant.
THEOREM TilingInvariance == Spec => []IInv
<1>1. IInv /\ [Next]_vars => IInv'
  <2> SUFFICES ASSUME IInv, [Next]_vars PROVE IInv'
    OBVIOUS
  <2>1. CASE InferTile
    BY <2>1, InferTileKeeps
  <2>2. CASE MergeTiles
    BY <2>2, MergeTilesKeeps
  <2>3. CASE InferJoint
    BY <2>3, InferJointKeeps
  <2>4. CASE Publish
    BY <2>4, PublishKeeps
  <2>5. CASE NextFrame
    BY <2>5, NextFrameKeeps
  <2>6. CASE UNCHANGED vars
    BY <2>6 DEF vars, IInv, Shape, AllReported, RecheckSeesBoth, OneBoxPerPlace
  <2> QED
    BY <2>1, <2>2, <2>3, <2>4, <2>5, <2>6 DEF Next
<1> QED
  BY <1>1, InitIInv, PTL DEF Spec

\* Every rectangle that is inferred lies in the frame at even pixels and is not
\* empty: the tiles, and the joint regions however they are united.
THEOREM RectanglesAlwaysFit == Spec => []RectanglesFit
<1>1. IInv => RectanglesFit
  <2> SUFFICES ASSUME IInv PROVE RectanglesFit
    OBVIOUS
  <2>1. TilesFit
    BY TilesOfRegion DEF IInv, Shape, TilesFit
  <2>2. ASSUME NEW i \in DOMAIN joints PROVE Fits(joints[i])
    <3>1. joints[i] \in FittingRects
      BY DEF IInv, Shape
    <3> QED
      BY <3>1 DEF Fits, FittingRects, Rects
  <2> QED
    BY <2>1, <2>2 DEF RectanglesFit
<1> QED
  BY <1>1, TilingInvariance, PTL

\* Of every two boxes that a cut may have made of one object a joint region shows
\* both (make_joint_recheck_regions).
THEOREM BothAreLookedAtAgain == Spec => []RecheckSeesBoth
<1>1. IInv => RecheckSeesBoth
  BY DEF IInv
<1> QED
  BY <1>1, TilingInvariance, PTL

\* At a place one box is published (suppress_tile_duplicates,
\* select_exclusive_candidates and merge together).
THEOREM OnePublishedPerPlace == Spec => []OneBoxPerPlace
<1>1. IInv => OneBoxPerPlace
  BY DEF IInv
<1> QED
  BY <1>1, TilingInvariance, PTL

\* With a threshold of more than a third, as every configuration has it, a
\* candidate is not lost without a rival being published.
THEOREM NobodyLosesToALoser == MergeRatio >= 34 => (Spec => []LosersHaveWinners)
<1> SUFFICES ASSUME MergeRatio >= 34 PROVE Spec => []LosersHaveWinners
  OBVIOUS
<1>1. Init => LosersHaveWinners
  BY DEF Init, LosersHaveWinners
<1>2. IInv /\ LosersHaveWinners /\ [Next]_vars => LosersHaveWinners'
  <2> SUFFICES ASSUME IInv, LosersHaveWinners, [Next]_vars PROVE LosersHaveWinners'
    OBVIOUS
  <2>1. CASE Publish
    BY <2>1, PublishKeeps
  <2>2. CASE InferTile \/ MergeTiles \/ InferJoint \/ NextFrame
    <3>1. stage' # "published"
      BY <2>2 DEF InferTile, MergeTiles, InferJoint, NextFrame
    <3> QED
      BY <3>1 DEF LosersHaveWinners
  <2>3. CASE UNCHANGED vars
    BY <2>3 DEF vars, LosersHaveWinners
  <2> QED
    BY <2>1, <2>2, <2>3 DEF Next
<1> QED
  BY <1>1, <1>2, TilingInvariance, PTL DEF Spec
===============================================================================
