-------------------------------- MODULE Tiling --------------------------------
(***************************************************************************)
(* Inference in tiles: a region of interest is cut into overlapping tiles, *)
(* each tile is inferred, an object that a cut divides is looked at again  *)
(* in a joint region, and of the boxes that compete for a place one is     *)
(* published (TilingTask, and the branch of InferThread::run that uses it).*)
(*                                                                         *)
(* Coordinates are whole pixels of the frame, scores and ratios percent.   *)
(* A rectangle is a box: [x1, y1, x2, y2] without its right and lower edge.*)
(*                                                                         *)
(* Definitions marked (fault) are plausible mistakes, not specification.   *)
(***************************************************************************)
EXTENDS Boxes, Lists, SequencesExt

CONSTANTS
  FrameWidth, FrameHeight,
  Regions,          \* regions of interest, rounded outwards to whole pixels
  Cols, Rows,       \* grid_cols and grid_rows, at most 2
  OverlapRatio,     \* overlap_ratio
  MergeRatio,       \* merge_iou_threshold
  Classes,          \* classes of objects
  Detections(_)     \* what inference may find in a rectangle: sequences of
                    \* findings, relative to it

FrameBox == [x1 |-> 0, y1 |-> 0, x2 |-> FrameWidth, y2 |-> FrameHeight]
Within(a, b) == a.x1 >= b.x1 /\ a.y1 >= b.y1 /\ a.x2 <= b.x2 /\ a.y2 <= b.y2

\* InferThread keeps only regions with an area and cuts them to the frame, whose
\* sides are even: no source delivers others.
ASSUME TilingAssumption ==
  /\ FrameWidth \in Nat \ {0} /\ FrameWidth % 2 = 0
  /\ FrameHeight \in Nat \ {0} /\ FrameHeight % 2 = 0
  /\ Cols \in {1, 2} /\ Rows \in {1, 2}
  /\ OverlapRatio \in 1 .. 50 /\ MergeRatio \in 0 .. 100
  /\ \A r \in Regions : IsBox(r) /\ r.x1 < r.x2 /\ r.y1 < r.y2 /\ Within(r, FrameBox)

-------------------------------------------------------------------------------
\* Rectangles.

\* n & ~1, and n & ~15
Even(n) == n - (n % 2)
Down16(n) == n - (n % 16)

\* The pixels two neighbouring tiles share.
Overlap(width) == Larger(384, Smaller(512, (2 * width * OverlapRatio + 100) \div 200))

\* One axis of the k-th of n tiles: its part of from .. to and half of each overlap.
Span(from, to, n, k, overlap) ==
  LET size == Larger(2, to - from)
      before == IF k > 0 THEN overlap \div 2 ELSE 0
      after == IF k + 1 < n THEN overlap - overlap \div 2 ELSE 0
      start == Larger(from, from + (size * k) \div n - before)
      end == Smaller(to, from + (size * (k + 1)) \div n + after)
  IN [from |-> Even(start), to |-> Even(start) + Even(end - start)]

\* make_tiles
Tiles(region) ==
  LET overlap == Overlap(Larger(2, Width(region))) IN
  [i \in 1 .. Cols * Rows |->
    LET h == Span(region.x1, region.x2, Cols, (i - 1) % Cols, overlap)
        v == Span(region.y1, region.y2, Rows, (i - 1) \div Cols, overlap)
    IN [x1 |-> h.from, y1 |-> v.from, x2 |-> h.to, y2 |-> v.to]]

Common(a, b) ==
  [x1 |-> Larger(a.x1, b.x1), y1 |-> Larger(a.y1, b.y1),
   x2 |-> Smaller(a.x2, b.x2), y2 |-> Smaller(a.y2, b.y2)]
Hull(a, b) ==
  [x1 |-> Smaller(a.x1, b.x1), y1 |-> Smaller(a.y1, b.y1),
   x2 |-> Larger(a.x2, b.x2), y2 |-> Larger(a.y2, b.y2)]
Meet(a, b) == Intersection(a, b) > 0

\* Whether a cut is vertical: the shared part of two tiles is narrow.
SideBySide(overlap) == Width(overlap) < Height(overlap)

\* overlap_ratio_1d >= percent, and interval_gap, of two intervals a .. b, c .. d
ShareAtLeast(a, b, c, d, percent) ==
  LET shorter == Smaller(b - a, d - c) IN
    shorter > 0 /\ 100 * Larger(0, Smaller(b, d) - Larger(a, c)) >= percent * shorter
Gap(a, b, c, d) == Larger(0, Larger(c - b, a - d))

\* How much two boxes share along the cut, and how far apart they are across it.
Aligned(a, b, sideBySide, percent) ==
  IF sideBySide THEN ShareAtLeast(a.y1, a.y2, b.y1, b.y2, percent)
  ELSE ShareAtLeast(a.x1, a.x2, b.x1, b.x2, percent)
Across(a, b, sideBySide) ==
  IF sideBySide THEN Gap(a.x1, a.x2, b.x1, b.x2) ELSE Gap(a.y1, a.y2, b.y1, b.y2)

-------------------------------------------------------------------------------
\* Joint regions.

\* Two boxes that may be parts of one object, both in the overlap of their tiles.
Divided(a, b) ==
  LET overlap == Common(a.tile, b.tile) IN
  /\ a.class = b.class
  /\ Meet(a.tile, b.tile) /\ Meet(a, overlap) /\ Meet(b, overlap)
  /\ Aligned(a, b, SideBySide(overlap), 30)
  /\ Across(a, b, SideBySide(overlap)) <= 384

\* (fault) The padding may leave the frame.
JointRegionUncut(a, b) ==
  LET h == Hull(a, b) IN
  [x1 |-> Down16(h.x1 - 256), y1 |-> Even(h.y1 - 160),
   x2 |-> Down16(h.x2 + 271), y2 |-> Even(h.y2 + 160)]

\* Both boxes and some context, cut to the frame and aligned for the RGA.
JointRegion(a, b) ==
  LET h == Hull(a, b)
      x == Down16(Larger(0, h.x1 - 256))
      y == Even(Larger(0, h.y1 - 160))
      right == Smaller(FrameWidth, Down16(Smaller(FrameWidth, h.x2 + 256) + 15))
      bottom == Even(Smaller(FrameHeight, h.y2 + 160))
  IN [x1 |-> x, y1 |-> y, x2 |-> x + Larger(2, right - x), y2 |-> y + Larger(2, bottom - y)]

\* The k-th pair of positions of two loops over n boxes, of those with i < j.
Turn(n, k) == <<1 + ((k - 1) \div n), 1 + ((k - 1) % n)>>

\* (fault) A region that meets another is not inferred.
AddUnlessMet(regions, new) ==
  IF \E i \in DOMAIN regions : Meet(regions[i], new) THEN regions ELSE Append(regions, new)

\* The region is united with the first one that it meets.
AddRegion(regions, new) ==
  LET met == {i \in DOMAIN regions : Meet(regions[i], new)}
      first == CHOOSE i \in met : \A k \in met : i <= k
  IN IF met = {} THEN Append(regions, new)
     ELSE [regions EXCEPT ![first] = Hull(@, new)]

\* make_joint_recheck_regions
JointRegions(found) ==
  LET n == Len(found)
      regions[k \in 0 .. n * n] ==
        IF k = 0 THEN <<>>
        ELSE LET i == Turn(n, k)[1]
                 j == Turn(n, k)[2]
             IN IF i < j /\ Divided(found[i], found[j])
                THEN AddRegion(regions[k - 1], JointRegion(found[i], found[j]))
                ELSE regions[k - 1]
  IN regions[n * n]

-------------------------------------------------------------------------------
\* Boxes of tiles.

\* A score below zero marks a box that has been given up.
Given(d) == d.score < 0
United(a, b) ==
  [a EXCEPT !.x1 = Smaller(@, b.x1), !.y1 = Smaller(@, b.y1), !.x2 = Larger(@, b.x2),
            !.y2 = Larger(@, b.y2), !.score = Larger(@, b.score)]

\* Two boxes of one class at the middle of their tiles' overlap (4 times its
\* position against 4 times the margin), aligned and close.
HalvesOfOne(left, right) ==
  LET overlap == Common(left.tile, right.tile)
      side == SideBySide(overlap)
      swap == IF side THEN left.tile.x1 > right.tile.x1 ELSE left.tile.y1 > right.tile.y1
      first == IF swap THEN right ELSE left
      second == IF swap THEN left ELSE right
      seam == 2 * (IF side THEN overlap.x1 + overlap.x2 ELSE overlap.y1 + overlap.y2)
      margin == Larger(4 * 96, IF side THEN Width(overlap) ELSE Height(overlap))
  IN /\ left.class = right.class
     /\ Meet(left.tile, right.tile)
     /\ 4 * (IF side THEN first.x2 ELSE first.y2) >= seam - margin
     /\ 4 * (IF side THEN second.x1 ELSE second.y1) <= seam + margin
     /\ Aligned(first, second, side, 45)
     /\ Across(first, second, side) <= 96

JoinHalves(s, i, j) ==
  IF Given(s[i]) \/ Given(s[j]) \/ ~HalvesOfOne(s[i], s[j]) THEN s
  ELSE [s EXCEPT ![i] = United(s[i], s[j]), ![j].score = -1]

\* tile_edge_clearance
Clearance(d) ==
  Larger(0, Smaller(Smaller(d.x1 - d.tile.x1, d.y1 - d.tile.y1),
                    Smaller(d.tile.x2 - d.x2, d.tile.y2 - d.y2)))

\* The first two loops of merge_boundary_detections.
HalvesJoined(found) ==
  LET n == Len(found)
      boxes[k \in 0 .. n * n] ==
        IF k = 0 THEN found
        ELSE LET i == Turn(n, k)[1]
                 j == Turn(n, k)[2]
             IN IF i < j THEN JoinHalves(boxes[k - 1], i, j) ELSE boxes[k - 1]
  IN boxes[n * n]

\* Of two boxes of one class that share a part the one farther from its tile's
\* edge stays; at similar distances they are united.
DropRepeated(s, i, j) ==
  LET ci == Clearance(s[i]) cj == Clearance(s[j]) IN
  IF Given(s[i]) \/ Given(s[j]) \/ s[i].class # s[j].class
       \/ ~ContainmentAtLeast(s[i], s[j], 35) THEN s
  ELSE IF Abs(ci - cj) < 32
       THEN [s EXCEPT ![i] = United(s[i], s[j]), ![j].score = -1]
       ELSE IF ci < cj THEN [s EXCEPT ![i].score = -1] ELSE [s EXCEPT ![j].score = -1]

\* Its last two loops.
RepeatedDropped(found) ==
  LET n == Len(found)
      boxes[k \in 0 .. n * n] ==
        IF k = 0 THEN found
        ELSE LET i == Turn(n, k)[1]
                 j == Turn(n, k)[2]
             IN IF i < j THEN DropRepeated(boxes[k - 1], i, j) ELSE boxes[k - 1]
  IN boxes[n * n]

\* merge_boundary_detections
MergeBoundary(found) ==
  LET boxes == RepeatedDropped(HalvesJoined(found))
  IN Sublist(boxes, {i \in DOMAIN boxes : ~Given(boxes[i])})

\* (fault) Only a box whose centre the whole box contains gives way.
SuppressNested(tiled, joint) ==
  Sublist(tiled, {i \in DOMAIN tiled : \A j \in DOMAIN joint :
    ~(/\ tiled[i].class = joint[j].class
      /\ ContainmentAtLeast(tiled[i], joint[j], 35) /\ Nested(tiled[i], joint[j]))})

\* suppress_tile_duplicates.  Its other two conditions, half of either box, follow.
SuppressTileDuplicates(tiled, joint) ==
  Sublist(tiled, {i \in DOMAIN tiled : \A j \in DOMAIN joint :
    ~(tiled[i].class = joint[j].class /\ ContainmentAtLeast(tiled[i], joint[j], 35))})

-------------------------------------------------------------------------------
\* The choice among competing boxes.

\* std::sort with a comparison: no box comes right after one it goes before.
\* That is all one may expect, as the comparison below has cycles.
Orders(s, Before(_, _)) ==
  LET D == DOMAIN s
  IN {t \in {[i \in D |-> s[p[i]]] : p \in Permutations(D) \cap Bijection(D, D)} :
        \A i \in 1 .. Len(s) - 1 : ~Before(t[i + 1], t[i])}

\* reliable_first
ReliableFirst(a, b) ==
  LET ca == IF a.origin = "tile" THEN Clearance(a) ELSE 0
      cb == IF b.origin = "tile" THEN Clearance(b) ELSE 0
  IN IF a.origin # b.origin THEN a.origin = "joint"
     ELSE IF Abs(ca - cb) > 1 THEN ca > cb ELSE a.score > b.score

ScoreFirst(a, b) == a.score > b.score

\* The positions kept of n, each in turn unless one kept before stands against it.
Kept(n, against) ==
  LET kept[k \in 0 .. n] ==
        IF k = 0 THEN {}
        ELSE IF \E i \in kept[k - 1] : <<i, k>> \in against
             THEN kept[k - 1] ELSE kept[k - 1] \cup {k}
  IN kept[n]

Rivalries(s) == {p \in (DOMAIN s) \X (DOMAIN s) : Rivals(s[p[1]], s[p[2]])}

\* (fault) A box gives way to every rival before it, even to one not kept.
SelectAgainstAll(sorted) ==
  Sublist(sorted, {k \in DOMAIN sorted : \A i \in 1 .. k - 1 : ~Rivals(sorted[i], sorted[k])})

\* select_exclusive_candidates, of the sorted candidates
SelectExclusive(sorted) == Sublist(sorted, Kept(Len(sorted), Rivalries(sorted)))

\* iou > merge_iou_threshold
Overlapping(a, b) ==
  100 * Intersection(a, b)
    > MergeRatio * Larger(1, Area(a) + Area(b) - Intersection(a, b))

Contained(a, b) == ContainmentAtLeast(a, b, 70) /\ Nested(a, b)

\* merge, first pass: a box gives way to the first of its class that it overlaps,
\* or whose place it takes when it contains it and scores nearly as high.
MergeOne(kept, d) ==
  LET same == {i \in DOMAIN kept : kept[i].class = d.class
                 /\ (Overlapping(kept[i], d) \/ Contained(kept[i], d))}
      first == CHOOSE i \in same : \A k \in same : i <= k
  IN IF same = {} THEN Append(kept, d)
     ELSE IF ~Overlapping(kept[first], d) /\ Area(d) > Area(kept[first])
               /\ d.score + 10 >= kept[first].score
          THEN [kept EXCEPT ![first] = d] ELSE kept

MergeSame(sorted) ==
  LET kept[k \in 0 .. Len(sorted)] ==
        IF k = 0 THEN <<>> ELSE MergeOne(kept[k - 1], sorted[k])
  IN kept[Len(sorted)]

\* merge, second pass: across classes
MergeClasses(sorted) ==
  Sublist(sorted, Kept(Len(sorted),
    {p \in Rivalries(sorted) : sorted[p[1]].class # sorted[p[2]].class}))

Merge(s) ==
  UNION {{MergeClasses(u) : u \in Orders(MergeSame(t), ScoreFirst)} :
           t \in Orders(s, ScoreFirst)}

-------------------------------------------------------------------------------
\* One inferred frame after the other.

VARIABLES
  region,      \* configuration: the first region of interest, the one tiled
  stage,       \* tiles, joint or published
  asked,       \* rectangles inferred in this stage
  tiled,       \* tiled_detections, then roi_candidates
  joints,      \* joint_recheck_regions
  rechecked,   \* joint_detections
  published,   \* last_detections, before the ROI filter
  reported     \* history: all that inference found in this frame

vars == <<region, stage, asked, tiled, joints, rechecked, published, reported>>

Init ==
  /\ region \in Regions
  /\ stage = "tiles" /\ asked = 0
  /\ tiled = <<>> /\ joints = <<>> /\ rechecked = <<>> /\ published = <<>>
  /\ reported = {}

\* A box with its class and score.  The post-processing of one of the two output
\* layouts does not cut boxes to the rectangle.
Finding == {d \in [x1 : Int, y1 : Int, x2 : Int, y2 : Int, class : Classes, score : Nat] :
              IsBox(d)}

\* Boxes of a rectangle in coordinates of the frame.
Located(found, rect, origin) ==
  [i \in DOMAIN found |->
    [x1 |-> found[i].x1 + rect.x1, y1 |-> found[i].y1 + rect.y1,
     x2 |-> found[i].x2 + rect.x1, y2 |-> found[i].y2 + rect.y1,
     class |-> found[i].class, score |-> found[i].score,
     tile |-> rect, origin |-> origin]]

InferTile ==
  /\ stage = "tiles" /\ asked < Len(Tiles(region))
  /\ LET tile == Tiles(region)[asked + 1] IN
       \E found \in Detections(tile) \cap Seq(Finding) :
         /\ tiled' = tiled \o Located(found, tile, "tile")
         /\ reported' = reported \cup Range(Located(found, tile, "tile"))
  /\ asked' = asked + 1
  /\ UNCHANGED <<region, stage, joints, rechecked, published>>

\* Joint regions come from the boxes before they are merged.
MergeTiles ==
  /\ stage = "tiles" /\ asked = Len(Tiles(region))
  /\ joints' = JointRegions(tiled)
  /\ tiled' = MergeBoundary(tiled)
  /\ stage' = "joint" /\ asked' = 0
  /\ UNCHANGED <<region, rechecked, published, reported>>

InferJoint ==
  /\ stage = "joint" /\ asked < Len(joints)
  /\ \E found \in Detections(joints[asked + 1]) \cap Seq(Finding) :
       /\ rechecked' = rechecked \o Located(found, joints[asked + 1], "joint")
       /\ reported' = reported \cup Range(Located(found, joints[asked + 1], "joint"))
  /\ asked' = asked + 1
  /\ UNCHANGED <<region, stage, tiled, joints, published>>

\* The candidates of both origins, the choice among them, and the last merge.
Publish ==
  /\ stage = "joint" /\ asked = Len(joints)
  /\ LET candidates == SuppressTileDuplicates(tiled, rechecked) \o rechecked IN
       \E sorted \in Orders(candidates, ReliableFirst) :
         published' \in Merge(SelectExclusive(sorted))
  /\ stage' = "published"
  /\ UNCHANGED <<region, asked, tiled, joints, rechecked, reported>>

NextFrame ==
  /\ stage = "published"
  /\ stage' = "tiles" /\ asked' = 0
  /\ tiled' = <<>> /\ joints' = <<>> /\ rechecked' = <<>> /\ published' = <<>>
  /\ reported' = {}
  /\ UNCHANGED region

Next == InferTile \/ MergeTiles \/ InferJoint \/ Publish \/ NextFrame

Spec == Init /\ [][Next]_vars

-------------------------------------------------------------------------------
\* Properties.

\* A rectangle that can be inferred: in the frame, at even pixels and, unless the
\* region is one pixel thin, not empty.
Fits(r) ==
  /\ Within(r, FrameBox)
  /\ r.x1 % 2 = 0 /\ r.y1 % 2 = 0
  /\ Width(region) > 1 /\ Height(region) > 1 => Width(r) > 0 /\ Height(r) > 0

\* Every tile of the region and every joint region, united or not, fits.
TilesFit == \A i \in DOMAIN Tiles(region) : Fits(Tiles(region)[i])
RectanglesFit ==
  /\ TilesFit
  /\ \A i \in DOMAIN joints : Fits(joints[i])

\* Two boxes that a cut may have made of one object are looked at again together,
\* as far as they lie in the frame, although regions are united and those between
\* them with them.
RecheckSeesBoth ==
  stage = "joint" /\ asked = 0 =>
    \A a, b \in reported :
      a.tile # b.tile /\ Divided(a, b) =>
        \E r \in Range(joints) :
          Within(Common(a, FrameBox), r) /\ Within(Common(b, FrameBox), r)

\* At a place one box is published, whatever classes compete for it, and a box of
\* a joint region leaves none of the parts of it that tiles have reported.
OneBoxPerPlace ==
  \A i, j \in DOMAIN published : i # j =>
    LET a == published[i] b == published[j] IN
    /\ ~Rivals(a, b)
    /\ a.class = b.class =>
         /\ ~Overlapping(a, b)
         /\ a.origin # b.origin => ~ContainmentAtLeast(a, b, 35)

\* Through both choices and the last merge, a candidate that is not published has
\* given way to one that is: none goes for the sake of a box that goes as well.
LosersHaveWinners ==
  stage = "published" =>
    \A d \in Range(SuppressTileDuplicates(tiled, rechecked) \o rechecked) :
      \E i \in DOMAIN published : published[i] = d \/ Rivals(published[i], d)
===============================================================================
