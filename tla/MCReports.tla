------------------------------- MODULE MCReports ------------------------------
(* A small instance of Reports for TLC.                                    *)
EXTENDS Reports

\* Place 0 is outside the region; filtered, the first scene differs from the
\* second in nothing but the score.
MCScenes == {
  [objects |-> <<1>>, score |-> 1],
  [objects |-> <<0, 1>>, score |-> 2],
  [objects |-> <<1, 2>>, score |-> 1],
  [objects |-> <<>>, score |-> 0]}
=============================================================================
