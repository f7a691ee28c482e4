-------------------------------- MODULE MCTracker -----------------------------
(* A small instance of Tracker for TLC.                                    *)
EXTENDS Tracker

\* A unit of time is 100 ms.  In a 1280x720 frame: a box, nearly the same box
\* seen as another class, a box inside it, and a box 170 pixels beside the
\* first, which is out of reach of the one inside.
MCBoxAt == <<
  [x1 |-> 100, y1 |-> 100, x2 |-> 200, y2 |-> 300],
  [x1 |-> 102, y1 |-> 100, x2 |-> 202, y2 |-> 300],
  [x1 |-> 102, y1 |-> 120, x2 |-> 172, y2 |-> 260],
  [x1 |-> 270, y1 |-> 100, x2 |-> 370, y2 |-> 300]>>
MCDets == {
  [cls |-> 1, box |-> 1, score |-> 2],
  [cls |-> 2, box |-> 2, score |-> 2],
  [cls |-> 1, box |-> 3, score |-> 1],
  [cls |-> 1, box |-> 4, score |-> 1]}
===============================================================================
