------------------------------ MODULE MCFrameFlow -----------------------------
(* A small instance of FrameFlow for TLC.                                  *)
EXTENDS FrameFlow
===============================================================================
