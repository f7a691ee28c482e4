--------------------------------- MODULE Boxes --------------------------------
(***************************************************************************)
(* The geometry of detections that SharedDetections.hpp decides with: area *)
(* and intersection, overlap (IoU), containment in the smaller box, centre *)
(* distances, and the duplicates and rivals these define.                  *)
(*                                                                         *)
(* Coordinates are whole pixels and thresholds percentages.  A comparison  *)
(* of a quotient is one of products, a comparison of distances one of the  *)
(* squares of doubled distances: exact where the code computes in floats.  *)
(***************************************************************************)
EXTENDS Integers

Larger(a, b) == IF a >= b THEN a ELSE b
Smaller(a, b) == IF a <= b THEN a ELSE b
Abs(a) == Larger(a, -a)

\* A box has its corners in order; every detection carries a class and a score.
IsBox(b) ==
  /\ b.x1 \in Int /\ b.y1 \in Int /\ b.x2 \in Int /\ b.y2 \in Int
  /\ b.x1 <= b.x2 /\ b.y1 <= b.y2

Width(b) == b.x2 - b.x1
Height(b) == b.y2 - b.y1

\* box_area, intersection_area
Area(b) == Larger(0, Width(b)) * Larger(0, Height(b))
Intersection(a, b) ==
  Larger(0, Smaller(a.x2, b.x2) - Larger(a.x1, b.x1))
    * Larger(0, Smaller(a.y2, b.y2) - Larger(a.y1, b.y1))

\* iou(a, b) >= percent / 100
OverlapAtLeast(a, b, percent) ==
  100 * Intersection(a, b)
    >= percent * Larger(1, Area(a) + Area(b) - Intersection(a, b))

\* The intersection as a share of the smaller box; zero for an empty one.
ContainmentAtLeast(a, b, percent) ==
  LET smaller == Smaller(Area(a), Area(b)) IN
    smaller > 0 /\ 100 * Intersection(a, b) >= percent * smaller

\* center_inside: the doubled centre against the doubled corners.
CenterInside(inner, outer) ==
  /\ inner.x1 + inner.x2 \in 2 * outer.x1 .. 2 * outer.x2
  /\ inner.y1 + inner.y2 \in 2 * outer.y1 .. 2 * outer.y2

\* The smaller of the two boxes has its centre in the other.
Nested(a, b) ==
  IF Area(a) <= Area(b) THEN CenterInside(a, b) ELSE CenterInside(b, a)

\* is_cross_class_competitor
Rivals(a, b) ==
  OverlapAtLeast(a, b, 85) \/ (ContainmentAtLeast(a, b, 50) /\ Nested(a, b))

\* center_distance: the square of the doubled distance of the centres.
Distance2(a, b) ==
  LET dx == a.x1 + a.x2 - b.x1 - b.x2
      dy == a.y1 + a.y2 - b.y1 - b.y2
  IN dx * dx + dy * dy
CloserThan(a, b, px) == Distance2(a, b) < 4 * px * px
AtMostApart(a, b, px) == Distance2(a, b) <= 4 * px * px

\* Squared diagonal, with sides of at least a pixel.
Diagonal2(b) ==
  Larger(1, Width(b)) * Larger(1, Width(b))
    + Larger(1, Height(b)) * Larger(1, Height(b))

\* distance <= 1.25 * the longer diagonal
WithinReach(a, b) ==
  4 * Distance2(a, b) <= 25 * Larger(Diagonal2(a), Diagonal2(b))

\* size_similarity >= 0.40
SimilarSize(a, b) ==
  LET sizeA == Larger(1, Width(a)) * Larger(1, Height(a))
      sizeB == Larger(1, Width(b)) * Larger(1, Height(b))
  IN 100 * Smaller(sizeA, sizeB) >= 40 * Larger(sizeA, sizeB)

\* The same quantities in percent, rounded down.
OverlapPercent(a, b) ==
  (100 * Intersection(a, b)) \div Larger(1, Area(a) + Area(b) - Intersection(a, b))
SizePercent(a, b) ==
  LET sizeA == Larger(1, Width(a)) * Larger(1, Height(a))
      sizeB == Larger(1, Width(b)) * Larger(1, Height(b))
  IN (100 * Smaller(sizeA, sizeB)) \div Larger(sizeA, sizeB)
ContainmentPercent(a, b) ==
  (100 * Intersection(a, b)) \div Larger(1, Smaller(Area(a), Area(b)))
===============================================================================
