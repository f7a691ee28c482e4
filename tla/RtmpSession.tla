------------------------------ MODULE RtmpSession ------------------------------
(***************************************************************************)
(* What an RTMP server sees of one publisher: sessions, one after another. *)
(* Each is a single FLV header and then packets whose times grow; a        *)
(* session ends without a trace of it in the next one.                     *)
(***************************************************************************)
EXTENDS Integers

VARIABLES
  up,        \* whether there is a session
  headers,   \* headers it has begun with
  packets,   \* packets it has carried
  time       \* of the last one, or -1

session == <<up, headers, packets, time>>

Nothing ==
  /\ headers = 0
  /\ packets = 0
  /\ time = -1

Init ==
  /\ up = FALSE
  /\ Nothing

\* A session may begin with its header, or wait for the first key frame.
Connect ==
  /\ ~up
  /\ up' = TRUE
  /\ headers' \in 0 .. 1
  /\ packets' = 0
  /\ time' = -1

\* A packet needs the header, and is later than those before it.
Write ==
  /\ up
  /\ headers' = 1
  /\ packets' = packets + 1
  /\ time' > time /\ time' >= 0
  /\ UNCHANGED up

Disconnect ==
  /\ up
  /\ up' = FALSE
  /\ Nothing'

Next == Connect \/ Write \/ Disconnect

Spec == Init /\ [][Next]_session
================================================================================
