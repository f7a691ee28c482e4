--------------------------- MODULE MCBlockingQueue --------------------------
(* A small instance of BlockingQueue for TLC.                              *)
EXTENDS BlockingQueue
=============================================================================
