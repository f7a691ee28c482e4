------------------------------- MODULE MCTiling -------------------------------
(***************************************************************************)
(* Two tiles of a 4K picture, as the configurations have them, and objects *)
(* at their cut: inference may find up to two in a rectangle, as far as it *)
(* sees them, in any order.                                                *)
(***************************************************************************)
EXTENDS Tiling

Box(x1, y1, x2, y2, class, score) ==
  [x1 |-> x1, y1 |-> y1, x2 |-> x2, y2 |-> y2, class |-> class, score |-> score]

\* Whole objects, parts of them, one that another class contains, and one box that
\* sticks out of the frame.
MCObjects == {
  Box(1500, 100, 2500, 1200, "laptop", 80),
  Box(1560, 120, 2420, 1180, "book", 82),
  Box(1900, 200, 2300, 1150, "laptop", 60),
  Box(1850, -20, 1990, 1250, "laptop", 90),
  Box(1740, 140, 2080, 1100, "phone", 70),
  Box(1980, 150, 2900, 1250, "laptop", 65)}

\* What a rectangle shows of them; boxes at its upper edge are not cut.
MCSeenIn(rect) ==
  {[Common(o, rect) EXCEPT !.x1 = @ - rect.x1, !.x2 = @ - rect.x1, !.y2 = @ - rect.y1,
                           !.y1 = IF rect.y1 = 0 THEN o.y1 ELSE @ - rect.y1]
     @@ [class |-> o.class, score |-> o.score] : o \in {x \in MCObjects : Meet(x, rect)}}

MCDetections(rect) ==
  UNION {SetToSeqs(S) : S \in {T \in SUBSET MCSeenIn(rect) : Cardinality(T) <= 2}}

\* The whole picture, and a region with odd corners narrower than the overlap.
MCRegions == {
  [x1 |-> 0, y1 |-> 0, x2 |-> FrameWidth, y2 |-> FrameHeight],
  [x1 |-> 1901, y1 |-> 1, x2 |-> 2204, y2 |-> 1002]}

-------------------------------------------------------------------------------
\* The assertions of tools/benchmark/image_processing_smoke.cpp about TilingTask.

Whole == [x1 |-> 0, y1 |-> 0, x2 |-> 3840, y2 |-> 2160]
Found(d, tile, origin) == d @@ [tile |-> tile, origin |-> origin]
OfTile(d, k) == Found(d, Tiles(Whole)[k], "tile")

LeftHalf == OfTile(Box(1500, 600, 2130, 1200, "laptop", 80), 1)
RightHalf == OfTile(Box(1710, 600, 2500, 1200, "laptop", 82), 2)
Complete ==
  Found(Box(1450, 560, 2550, 1240, "laptop", 90),
        [x1 |-> 1450, y1 |-> 560, x2 |-> 2550, y2 |-> 1240], "joint")

ASSUME SmokeTiles ==
  /\ Len(Tiles(Whole)) = 2
  /\ Tiles(Whole)[1].x1 = 0 /\ Tiles(Whole)[2].x1 < Tiles(Whole)[1].x2
ASSUME SmokeJointRegions ==
  LET regions == JointRegions(<<LeftHalf, RightHalf>>) IN
  /\ Len(regions) = 1
  /\ regions[1].x1 <= LeftHalf.x1 /\ regions[1].x2 >= RightHalf.x2
ASSUME SmokeFused ==
  LET fused == MergeBoundary(<<LeftHalf, RightHalf>>) IN
  Len(fused) = 1 /\ fused[1].x1 = LeftHalf.x1 /\ fused[1].x2 = RightHalf.x2
ASSUME SmokeReplaced == SuppressTileDuplicates(<<LeftHalf>>, <<Complete>>) = <<>>
ASSUME SmokeMerged ==
  /\ \A m \in Merge(<<OfTile(Box(106, 104, 496, 498, "laptop", 70), 1),
                      OfTile(Box(100, 100, 500, 500, "book", 80), 1)>>) :
       Len(m) = 1 /\ m[1].class = "book"
  /\ \A m \in Merge(<<OfTile(Box(220, 220, 300, 300, "phone", 90), 1),
                      OfTile(Box(100, 100, 500, 500, "book", 80), 1)>>) :
       Len(m) = 1 /\ m[1].class = "phone"
ASSUME SmokeExclusive ==
  LET candidates == <<Found(Box(220, 220, 300, 300, "phone", 90), Whole, "tile"),
                      Found(Box(100, 100, 500, 500, "book", 80), Whole, "joint")>> IN
  \A sorted \in Orders(candidates, ReliableFirst) :
    LET kept == SelectExclusive(sorted) IN Len(kept) = 1 /\ kept[1].class = "book"

-------------------------------------------------------------------------------
\* What the code does where no test looks.

\* Two boxes side by side in one tile are joined: their tiles' overlap is the
\* tile, and its middle is taken for a cut.
ASSUME NeighboursOfOneTileAreJoined ==
  Len(MergeBoundary(<<OfTile(Box(1000, 500, 1050, 600, "cup", 80), 1),
                      OfTile(Box(1100, 500, 1150, 600, "cup", 80), 1)>>)) = 1

\* reliable_first has cycles, so that it does not order candidates.
ASSUME ReliableFirstHasCycles ==
  \E a, b, c \in {OfTile(Box(x, 500, 1000, 600, "cup", 90 - 10 * x), 1) : x \in 1 .. 3} :
    ReliableFirst(a, b) /\ ReliableFirst(b, c) /\ ReliableFirst(c, a)
===============================================================================
