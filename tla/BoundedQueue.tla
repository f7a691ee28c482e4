------------------------------ MODULE BoundedQueue -----------------------------
(***************************************************************************)
(* What a queue between two threads promises to those who use it, without  *)
(* its lock, its condition variables and the threads that wait in them:    *)
(* every call takes effect at one moment, an accepted item leaves in its   *)
(* turn and in no other way, unless push_latest replaces the oldest one of *)
(* a full queue, and a closed queue only drains.                           *)
(***************************************************************************)
EXTENDS Naturals, Sequences

CONSTANTS
  Capacity,    \* the most items it holds
  Lossy        \* whether push_latest is used

VARIABLES
  items,       \* what it holds, the oldest first
  closed       \* whether it was closed

qvars == <<items, closed>>

Init ==
  /\ items = <<>>
  /\ closed = FALSE

\* Some item joins a list at its end.
Joins(list) ==
  /\ items' # <<>>
  /\ items' = Append(list, items'[Len(items')])

Put ==
  /\ ~closed
  /\ Len(items) < Capacity
  /\ Joins(items)
  /\ UNCHANGED closed

\* A newer item takes the place of the oldest.
Replace ==
  /\ Lossy
  /\ ~closed
  /\ Len(items) = Capacity
  /\ Joins(Tail(items))
  /\ UNCHANGED closed

Take ==
  /\ items # <<>>
  /\ items' = Tail(items)
  /\ UNCHANGED closed

Close ==
  /\ closed' = TRUE
  /\ UNCHANGED items

Next == Put \/ Replace \/ Take \/ Close

Spec == Init /\ [][Next]_qvars
===============================================================================
