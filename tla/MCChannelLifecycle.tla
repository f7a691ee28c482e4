------------------------- MODULE MCChannelLifecycle -------------------------
(* A small instance of ChannelLifecycle for TLC.                           *)
EXTENDS ChannelLifecycle
=============================================================================
