--------------------------- MODULE MCStreamThread ---------------------------
(* A small instance of StreamThread for TLC.                               *)
EXTENDS StreamThread
=============================================================================
