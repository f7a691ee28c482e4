-------------------------------- MODULE Tracker -------------------------------
(***************************************************************************)
(* SharedDetections: the tracks of a channel.  Inference gives every       *)
(* inferred frame's detections to update; the encoder asks get_for_pts for *)
(* the boxes of the frame it is about to draw.  Both hold mutex_, so each  *)
(* is one step.                                                            *)
(*                                                                         *)
(* Times are ages, relative to the pts of the last update: a reconnected   *)
(* source starts its timestamps again, and ages of what came before turn   *)
(* negative.  A filtered box is one of the two it lies between, the box    *)
(* shown and the box measured (adaptive_box, ema_box, and the clamp that   *)
(* follows them).  The greedy association compares scores in whole percent *)
(* and leaves the order open where they differ by less than ScoreSlack.    *)
(*                                                                         *)
(* Definitions marked (fault) are plausible mistakes, not specification.   *)
(***************************************************************************)
EXTENDS Boxes, Lists, SequencesExt

CONSTANTS
  BoxAt,          \* the boxes that occur, under their names
  Dets,           \* the detections inference may report: [cls, box, score]
  MaxDets,        \* bound: detections of one frame
  Steps,          \* times that may pass between two updates
  ConfirmHits,    \* track_confirm_hits
  Hold,           \* track_display_hold_ms
  Ttl,            \* track_ttl_ms
  MaxReach,       \* max(48, 0.12 of the diagonal of the frame), in pixels
  MaxCorrection,  \* track_max_correction_px
  MaxSnapshots,   \* the snapshots kept
  MaxElapsed,     \* bound: how far a restart can throw the pts back
  MaxRestarts     \* bound: reconnections of the source

ASSUME TrackerAssumption ==
  /\ \A b \in DOMAIN BoxAt : IsBox(BoxAt[b])
  /\ Dets \subseteq [cls : {d.cls : d \in Dets}, box : DOMAIN BoxAt, score : Nat]
  /\ MaxDets \in Nat /\ Steps \subseteq Nat \ {0}
  /\ ConfirmHits \in Nat \ {0} /\ Hold \in Nat /\ Ttl \in Nat
  /\ MaxReach \in Nat /\ MaxCorrection \in Nat /\ MaxSnapshots \in Nat \ {0}
  /\ MaxElapsed \in Nat /\ MaxRestarts \in Nat

VARIABLES
  tracks,      \* tracks_
  snapshots,   \* snapshots_: age and detections, the newest last
  elapsed,     \* time since the connection started, up to MaxElapsed
  restarts,    \* reconnections so far
  scene,       \* history: the last detections, whether they came again,
               \* and the time since there were any
  support,     \* history: how often each class was seen at or near each place
  lone         \* history: updates in a row that saw a detection with nothing near it

vars == <<tracks, snapshots, elapsed, restarts, scene, support, lone>>

ScoreSlack == 8

None == [cls |-> 0, box |-> 0, score |-> 0]

\* The class and the place of a detection, without its score.
PlaceOf(d) == [cls |-> d.cls, box |-> d.box]
Places == {PlaceOf(d) : d \in Dets}

Init ==
  /\ tracks = <<>>
  /\ snapshots = <<>>
  /\ elapsed = 0
  /\ restarts = 0
  /\ scene = [dets |-> {}, again |-> FALSE, quiet |-> 0]
  /\ support = [q \in Places |-> 0]
  /\ lone = [d \in Dets |-> 0]

-------------------------------------------------------------------------------
\* How two boxes lie: tables of the geometry over the boxes that occur.

Overlap(percent) ==
  [a \in DOMAIN BoxAt |->
     [b \in DOMAIN BoxAt |-> OverlapAtLeast(BoxAt[a], BoxAt[b], percent)]]
Overlap20 == Overlap(20)     \* match_iou
Overlap45 == Overlap(45)     \* innovation_iou

Rival ==
  [a \in DOMAIN BoxAt |-> [b \in DOMAIN BoxAt |-> Rivals(BoxAt[a], BoxAt[b])]]
Inside ==
  [a \in DOMAIN BoxAt |-> [b \in DOMAIN BoxAt |->
     ContainmentAtLeast(BoxAt[a], BoxAt[b], 70) /\ Nested(BoxAt[a], BoxAt[b])]]

\* is_duplicate_box, of detections
Duplicates(d, e) ==
  IF d.cls = e.cls THEN Inside[d.box][e.box] ELSE Rival[d.box][e.box]

\* (fault) distance_match takes the larger of the two distances
NearByEither ==
  [a \in DOMAIN BoxAt |-> [b \in DOMAIN BoxAt |->
     /\ \/ AtMostApart(BoxAt[a], BoxAt[b], 48)
        \/ AtMostApart(BoxAt[a], BoxAt[b], MaxReach)
        \/ WithinReach(BoxAt[a], BoxAt[b])
     /\ SimilarSize(BoxAt[a], BoxAt[b])]]

\* distance_match
Near ==
  [a \in DOMAIN BoxAt |-> [b \in DOMAIN BoxAt |->
     /\ \/ AtMostApart(BoxAt[a], BoxAt[b], 48)
        \/ /\ AtMostApart(BoxAt[a], BoxAt[b], MaxReach)
           /\ WithinReach(BoxAt[a], BoxAt[b])
     /\ SimilarSize(BoxAt[a], BoxAt[b])]]

Correctable ==
  [a \in DOMAIN BoxAt |->
     [b \in DOMAIN BoxAt |-> AtMostApart(BoxAt[a], BoxAt[b], MaxCorrection)]]

\* in_deadzone: under 6 pixels and under one percent of either side.
Still ==
  LET Alike(old, new) == 100 * Abs(new - Larger(1, old)) < Larger(1, old) IN
    [a \in DOMAIN BoxAt |-> [b \in DOMAIN BoxAt |->
       /\ CloserThan(BoxAt[a], BoxAt[b], 6)
       /\ Alike(Width(BoxAt[a]), Width(BoxAt[b]))
       /\ Alike(Height(BoxAt[a]), Height(BoxAt[b]))]]

\* The score of a candidate in percent but for the distance, the bonus of an
\* active track, and what the containment adds between boxes of one class.
BoxScore ==
  [a \in DOMAIN BoxAt |-> [b \in DOMAIN BoxAt |->
     OverlapPercent(BoxAt[a], BoxAt[b]) + SizePercent(BoxAt[a], BoxAt[b]) \div 10]]
Contained ==
  [a \in DOMAIN BoxAt |->
     [b \in DOMAIN BoxAt |-> ContainmentPercent(BoxAt[a], BoxAt[b]) \div 10]]

-------------------------------------------------------------------------------
\* Associating detections with tracks.

\* A pair update may associate: the same class near enough, or a rival.
Candidate(t, d) ==
  LET a == t.smooth.box
      b == d.box
  IN IF t.smooth.cls = d.cls
     THEN Overlap20[a][b] \/ Near[a][b] \/ Inside[a][b]
     ELSE Rival[a][b]

Score(t, d) ==
  BoxScore[t.smooth.box][d.box]
    + (IF t.smooth.cls = d.cls THEN Contained[t.smooth.box][d.box] ELSE 5)
    + (IF t.state = "Active" THEN 5 ELSE 0)

\* The greedy selection: no two pairs <<track, detection>> of indices clash, and
\* whatever candidate is left out clashes with one that scores as well, but for
\* ScoreSlack (what the distance takes off, and the rounding).
Associations(ts, ds) ==
  LET pairs == {p \in (DOMAIN ts) \X (DOMAIN ds) : Candidate(ts[p[1]], ds[p[2]])}
      score == [p \in pairs |-> Score(ts[p[1]], ds[p[2]])]
      Clash(p, q) == p[1] = q[1] \/ p[2] = q[2]
  IN {chosen \in SUBSET pairs :
        /\ \A p \in chosen, q \in chosen : Clash(p, q) => p = q
        /\ \A p \in pairs : \E q \in chosen :
             Clash(p, q) /\ score[q] + ScoreSlack >= score[p]}

\* Where the filters put a box: between the box shown and the box measured.
Filtered(prior, measured, stays) == IF stays THEN prior ELSE measured

\* A rival of the track was detected: it waits for a second one, which need
\* not come in the next update.
RivalConfirmed(t, d) ==
  t.rival # None /\ t.rival.cls = d.cls /\ Rival[t.rival.box][d.box]

\* The measurement is accepted: the new box and its class, then the counts.
\* In the dead zone the old detection is kept, its class included.
Accepted(t, d, switch, stays) ==
  LET reset == t.state # "Active" \/ switch
                 \/ ~Overlap20[t.smooth.box][d.box]
      smooth == IF Still[t.smooth.box][d.box]
                THEN [t.smooth EXCEPT !.score = d.score]
                ELSE [d EXCEPT !.box = IF reset THEN d.box
                                       ELSE Filtered(t.smooth.box, d.box, stays)]
      hits == Smaller(t.hits + 1, ConfirmHits + 1)
  IN [smooth |-> smooth, age |-> 0, hits |-> hits, jump |-> None, rival |-> None,
      missed |-> FALSE, state |-> IF hits >= ConfirmHits THEN "Active" ELSE t.state]

\* The measurement is not accepted yet.
Waiting(t, d) == [t EXCEPT !.jump = d, !.rival = None, !.missed = FALSE]

\* A detection far from a track that is not shown waits for a second one near
\* to it; everything else is accepted.
Measured(t, d, switch, stays) ==
  LET innovation == /\ ~Correctable[t.smooth.box][d.box]
                    /\ ~Overlap45[t.smooth.box][d.box]
                    /\ t.state # "Active"
      again == t.jump # None /\ Correctable[t.jump.box][d.box]
  IN IF innovation /\ ~again THEN Waiting(t, d)
                             ELSE Accepted(t, d, switch, stays)

\* What update makes of a track and the detection associated with it.
Matched(t, d, stays) ==
  IF t.smooth.cls # d.cls /\ ~RivalConfirmed(t, d)
  THEN [t EXCEPT !.rival = d, !.age = 0, !.missed = FALSE]
  ELSE Measured(t, d, t.smooth.cls # d.cls, stays)

\* (fault) Every update refreshes every track.
UnmatchedRefreshed(t) == [t EXCEPT !.missed = TRUE, !.age = 0]

Unmatched(t) == [t EXCEPT !.missed = TRUE]

NewTrack(d) ==
  [smooth |-> d, age |-> 0, hits |-> 1, jump |-> None, rival |-> None,
   missed |-> FALSE, state |-> IF ConfirmHits <= 1 THEN "Active" ELSE "Tentative"]

-------------------------------------------------------------------------------
\* Removing duplicates.

\* Both deduplications: of the n elements of a list, the positions dropped by the
\* first k turns of the two loops.  Of a pair of duplicates, neither of them
\* dropped before, the second goes unless it is to be kept.
Dropped(n, duplicates, keepSecond) ==
  LET dropped[k \in 0 .. n * n] ==
        IF k = 0 THEN {}
        ELSE LET p == <<1 + ((k - 1) \div n), 1 + ((k - 1) % n)>>
                 gone == dropped[k - 1]
             IN IF p \in duplicates /\ p[1] \notin gone /\ p[2] \notin gone
                THEN gone \cup {IF p \in keepSecond THEN p[1] ELSE p[2]}
                ELSE gone
  IN dropped[n * n]

Deduplicated(s, duplicates, keepSecond) ==
  IF duplicates = {} THEN s
  ELSE Sublist(s, DOMAIN s \ Dropped(Len(s), duplicates, keepSecond))

\* The pairs of positions that the loops visit.
Pairs(s) == {p \in (DOMAIN s) \X (DOMAIN s) : p[1] < p[2]}

\* deduplicate_display_detections
DisplayDeduplicated(ds) ==
  Deduplicated(ds, {p \in Pairs(ds) : Duplicates(ds[p[1]], ds[p[2]])},
                   {p \in Pairs(ds) : ds[p[2]].score > ds[p[1]].score})

\* (fault) A confirmed track needs one hit more.
DisplayableLate(t, later) ==
  t.state = "Active" /\ t.hits > ConfirmHits /\ t.age + later <= Hold

\* is_displayable, when `later` has passed since the last update
Displayable(t, later) ==
  t.state = "Active" /\ t.hits >= ConfirmHits /\ t.age + later <= Hold

\* (fault) Tracks are left to the deduplication of what is drawn.
TracksKept(ts, secondHasMore) == ts

\* deduplicate_tracks.  Hits are told apart up to ConfirmHits + 1; beyond, either
\* track may have the more.
TracksDeduplicated(ts, secondHasMore) ==
  LET KeepSecond(t, u) ==
        CASE Displayable(t, 0) # Displayable(u, 0) -> Displayable(u, 0)
          [] t.age # u.age -> u.age < t.age
          [] t.smooth.score # u.smooth.score -> u.smooth.score > t.smooth.score
          [] t.hits = u.hits /\ t.hits > ConfirmHits -> secondHasMore
          [] OTHER -> u.hits > t.hits
  IN Deduplicated(ts, {p \in Pairs(ts) : Duplicates(ts[p[1]].smooth, ts[p[2]].smooth)},
                      {p \in Pairs(ts) : KeepSecond(ts[p[1]], ts[p[2]])})

\* Two tracks whose hits are beyond what is told apart.
ManyHits(ts) ==
  \E i, j \in DOMAIN ts : i < j /\ ts[i].hits > ConfirmHits /\ ts[j].hits > ConfirmHits

-------------------------------------------------------------------------------
\* update

\* What the matches of association a make of tracks ts; the filters leave the
\* tracks at positions `stay` where they were.
Updated(ts, ds, a, stay) ==
  [i \in DOMAIN ts |->
     IF \E p \in a : p[1] = i
     THEN Matched(ts[i], ds[(CHOOSE p \in a : p[1] = i)[2]], i \in stay)
     ELSE Unmatched(ts[i])]

\* The tracks whose filters have a choice: shown, seen again as the same class,
\* and moved.
Filterable(a, ds) ==
  {p[1] : p \in {q \in a :
     LET t == tracks[q[1]]
         d == ds[q[2]]
     IN /\ t.state = "Active" /\ t.smooth.cls = d.cls
        /\ Overlap20[t.smooth.box][d.box] /\ ~Still[t.smooth.box][d.box]}}

Created(ds, a) ==
  LET unmatched == Sublist(ds, {j \in DOMAIN ds : \A p \in a : p[2] # j})
  IN [k \in DOMAIN unmatched |-> NewTrack(unmatched[k])]

Shadowed(t) ==
  IF t.state = "Active" /\ t.age > Hold THEN [t EXCEPT !.state = "Shadow"] ELSE t

\* (fault) Confirmed tracks have no end.
LostUnconfirmed(t) == t.hits < ConfirmHits /\ t.missed

Lost(t) == t.age > Ttl \/ (t.hits < ConfirmHits /\ t.missed)

\* The tracks after shadowing, erasing and deduplication.
Settled(ts, secondHasMore) ==
  LET shadowed == [i \in DOMAIN ts |-> Shadowed(ts[i])]
  IN TracksDeduplicated(
       Sublist(shadowed, {i \in DOMAIN ts : ~Lost(shadowed[i])}), secondHasMore)

\* The boxes of the tracks that may be drawn.
Shown(ts, later) ==
  Sublist([i \in DOMAIN ts |-> ts[i].smooth], {i \in DOMAIN ts : Displayable(ts[i], later)})

Drawable(ts) == DisplayDeduplicated(Shown(ts, 0))

\* publish_snapshot; conn is history
Published(old, ds) ==
  LET all == Append(old, [age |-> 0, conn |-> restarts, dets |-> ds])
  IN IF Len(all) > MaxSnapshots THEN Tail(all) ELSE all

\* The longest that a box can be drawn with nothing detected any more: after a
\* restart, until the timestamps are where they were, and Hold more.
GhostTime == Hold + (IF restarts > 0 THEN MaxElapsed ELSE 0)

\* History: whether the same detections came again, and the time since anything
\* was detected or the connection started.
SceneAfter(step, ds) ==
  LET now == {ds[j] : j \in DOMAIN ds} IN
    [dets |-> now,
     again |-> (now = scene.dets),
     quiet |-> IF now = {} THEN Smaller(scene.quiet + step, GhostTime + 1) ELSE 0]

\* How often a class has to be seen at a place to be drawn there: as a new object
\* ConfirmHits times, as the rival of an object that is drawn twice.
Enough == Smaller(2, ConfirmHits)

\* Places so close that one object may be detected at both.
Akin ==
  LET Reach(a, b) == \/ Overlap20[a][b] \/ Rival[a][b] \/ Inside[a][b]
                     \/ AtMostApart(BoxAt[a], BoxAt[b], 48)
                     \/ AtMostApart(BoxAt[a], BoxAt[b], MaxReach)
  IN [a \in DOMAIN BoxAt |-> [b \in DOMAIN BoxAt |-> a = b \/ Reach(a, b) \/ Reach(b, a)]]

\* Detection d is of the class of place q, and akin to it.
Lies(d, q) == d.cls = q.cls /\ Akin[d.box][q.box]

\* History: how often in a row a class was seen at places akin to q, or after its
\* first sighting a rival that lies where q does.  Updates that see neither end
\* the row, unless a track or the rival of a track is still there.
SupportAfter(ds) ==
  LET Sighted(q) == \E j \in DOMAIN ds : Lies(ds[j], q)
      Rivalled(q) == \E j \in DOMAIN ds :
                       Rival[q.box][ds[j].box] /\ Still[q.box][ds[j].box]
      Held(q) == \E i \in DOMAIN tracks :
                   \/ Lies(tracks[i].smooth, q)
                   \/ tracks[i].rival # None /\ Lies(tracks[i].rival, q)
  IN [q \in Places |->
        IF Sighted(q) \/ (support[q] > 0 /\ Rivalled(q))
        THEN Smaller(support[q] + 1, Enough)
        ELSE IF Held(q) THEN support[q] ELSE 0]

\* History: how often in a row a detection came with nothing near it.  No other
\* detection of these updates could be taken for it, nor it for another one, and
\* at the first no track could.
Alone(d, ds) ==
  /\ \E j \in DOMAIN ds : ds[j] = d
  /\ \A j \in DOMAIN ds : ds[j] # d =>
       ~Candidate([smooth |-> ds[j]], d) /\ ~Candidate([smooth |-> d], ds[j])

LoneAfter(ds) ==
  [d \in Dets |->
     IF Alone(d, ds) /\ (lone[d] > 0 \/ \A i \in DOMAIN tracks : ~Candidate(tracks[i], d))
     THEN Smaller(lone[d] + 1, ConfirmHits) ELSE 0]

Update(step, ds) ==
  LET older(s) == [i \in DOMAIN s |-> [s[i] EXCEPT !.age = @ + step]]
      aged == older(tracks)
  IN \E a \in Associations(tracks, ds) : \E stay \in SUBSET Filterable(a, ds) :
       LET matched == Updated(aged, ds, a, stay) IN
       \E secondHasMore \in {FALSE, ManyHits(matched)} :
         /\ tracks' = Settled(matched \o Created(ds, a), secondHasMore)
         /\ snapshots' = Published(older(snapshots), Drawable(tracks'))
         /\ elapsed' = Smaller(elapsed + step, MaxElapsed)
         /\ scene' = SceneAfter(step, ds)
         /\ support' = SupportAfter(ds)
         /\ lone' = LoneAfter(ds)
         /\ UNCHANGED restarts

\* The source reconnects and its timestamps start again at zero.
Restart ==
  LET Back(s) == [i \in DOMAIN s |-> [s[i] EXCEPT !.age = @ - elapsed]] IN
    /\ restarts < MaxRestarts
    /\ elapsed > 0
    /\ tracks' = Back(tracks)
    /\ snapshots' = Back(snapshots)
    /\ elapsed' = 0
    /\ restarts' = restarts + 1
    /\ scene' = [scene EXCEPT !.quiet = 0]
    /\ UNCHANGED <<support, lone>>

Inferred == \E step \in Steps, ds \in SeqOf(Dets, MaxDets) :
              IsInjective(ds) /\ Update(step, ds)

Next == Inferred \/ Restart

Spec == Init /\ [][Next]_vars

-------------------------------------------------------------------------------
\* get_for_pts, for a frame `later` than the last update.

\* (fault) The snapshot with the greatest timestamp.
LatestSnapshot(later) ==
  LET due == {i \in DOMAIN snapshots : -snapshots[i].age <= later}
  IN IF due = {} THEN 0
     ELSE CHOOSE i \in due : \A j \in due : snapshots[i].age <= snapshots[j].age

\* With track_align_to_video_pts: the last published snapshot not later than
\* the frame, however old, or none.
AlignedSnapshot(later) ==
  LET due == {i \in DOMAIN snapshots : -snapshots[i].age <= later}
  IN IF due = {} THEN 0 ELSE CHOOSE i \in due : \A j \in due : j <= i

GetForPtsAligned(later) ==
  LET i == AlignedSnapshot(later)
  IN IF i = 0 THEN <<>> ELSE DisplayDeduplicated(snapshots[i].dets)

\* Without it: the tracks that may be drawn at that time.
GetForPtsLive(later) == Shown(tracks, later)

-------------------------------------------------------------------------------
\* Properties.

Latest == IF snapshots = <<>> THEN <<>> ELSE Last(snapshots).dets
FrameTimes == -MaxElapsed .. Hold + 1

TrackType ==
  [smooth : [cls : {d.cls : d \in Dets}, box : {d.box : d \in Dets},
             score : {d.score : d \in Dets}],
   age : -MaxElapsed .. Ttl, hits : 1 .. ConfirmHits + 1,
   jump : Dets \cup {None}, rival : Dets \cup {None}, missed : BOOLEAN,
   state : {"Tentative", "Active", "Shadow"}]

\* Tracks are erased once their time is over, a track is Tentative exactly until
\* it is confirmed, and no more snapshots are kept than the code keeps.
TypeOK ==
  /\ \A i \in DOMAIN tracks :
       /\ tracks[i] \in TrackType
       /\ tracks[i].state = "Tentative" <=> tracks[i].hits < ConfirmHits
  /\ Len(snapshots) <= MaxSnapshots
  /\ \A i \in DOMAIN snapshots : snapshots[i].conn \in 0 .. restarts

\* One object is drawn once: no answer of get_for_pts holds two boxes of one
\* class in each other or two rivals of different classes.
OneBoxPerObject ==
  \A later \in FrameTimes, answer \in {"aligned", "live"} :
    LET ds == IF answer = "aligned" THEN GetForPtsAligned(later)
              ELSE GetForPtsLive(later)
    IN \A i, j \in DOMAIN ds : i # j => ~Duplicates(ds[i], ds[j])

\* A single false detection is never drawn as a new box, nor does it move a box
\* of its class from out of reach: what is drawn has been seen in two updates, as
\* its class, at its place or within the reach of association (or, after its first
\* sighting, a rival at its place), unless one hit confirms.  Within that reach
\* a box that is drawn may follow a single detection, and at once.
DrawnIsConfirmed ==
  \A i \in DOMAIN Latest : support[PlaceOf(Latest[i])] >= Enough

\* What is detected again and again with nothing else near it is on the screen
\* from the ConfirmHits-th time on, where and as what it was detected, however the
\* association, the filters, the erasing and both deduplications treat the rest.
LoneObjectIsShown ==
  \A d \in Dets : lone[d] >= ConfirmHits => \E i \in DOMAIN Latest : Latest[i] = d

\* A frame is drawn with the latest boxes not later than itself of the current
\* connection, once there are any: boxes of an earlier connection, whose
\* timestamps mean something else, do not come before them.
FrameGetsItsConnectionsBoxes ==
  \A later \in FrameTimes :
    LET own == {i \in DOMAIN snapshots :
                  snapshots[i].conn = restarts /\ -snapshots[i].age <= later}
        i == AlignedSnapshot(later)
    IN own # {} => i \in own /\ \A j \in own : snapshots[i].age <= snapshots[j].age

\* When nothing is detected any more, what was drawn disappears, also what an
\* earlier connection left with timestamps that lie ahead.
GhostsVanish == scene.quiet > GhostTime => Latest = <<>>

\* image_processing_smoke.cpp: after a rival has been detected twice in a row
\* its class has taken over.
RivalTakesOver ==
  scene.again /\ Cardinality(scene.dets) = 1 =>
    \A d \in scene.dets, i \in DOMAIN Latest :
      Rival[Latest[i].box][d.box] => Latest[i].cls = d.cls
===============================================================================
