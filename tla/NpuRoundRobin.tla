---------------------------- MODULE NpuRoundRobin ---------------------------
(***************************************************************************)
(* The fairness of the NPU scheduler's round robin: NpuScheduler with a    *)
(* history variable that no action reads.                                  *)
(***************************************************************************)
EXTENDS NpuScheduler

VARIABLE
  overtaken     \* per channel, who was dispatched since it became ready

rrVars == <<vars, overtaken>>

Dispatched == pc = "loop" /\ pc' = "exec"

\* An unregistration before the round robin index moves every later channel
\* one position ahead under it: the channel whose turn it was is passed over.
PassedOver(c) ==
  \E k \in 1 .. nextRR : order[k] \notin channels' /\ order[nextRR + 1] = c

\* A channel keeps its record while it stays ready, until it is dispatched or
\* passed over; a channel that was unregistered is on nobody's record.
Overtake ==
  overtaken' = [c \in Channels |->
    IF ~Ready(c) \/ ~Ready(c)' \/ (Dispatched /\ job'.channel = c) \/ PassedOver(c)
      THEN {}
      ELSE channels' \cap (overtaken[c] \cup {d \in Channels : Dispatched /\ d = job'.channel})]

RRInit ==
  /\ Init
  /\ overtaken = [c \in Channels |-> {}]

RRNext ==
  /\ Next
  /\ Overtake

RRSpec == RRInit /\ [][RRNext]_rrVars

RRFairSpec == RRSpec /\ Fairness

\* Round robin: while a channel is ready (registered, with a frame, past its
\* rate limit) no registration of another channel is dispatched twice, so that
\* it waits for at most one job of each, whoever else registers or leaves and
\* wherever the order shifts under the index (unregister_channel keeps the
\* index modulo the shorter order).  The one exception is the channel that is
\* passed over: it goes to the back, and may be overtaken once more by each.
NobodyOvertakesTwice ==
  [][\A c \in Channels :
       Dispatched /\ Ready(c) /\ job'.channel # c => job'.channel \notin overtaken[c]]_rrVars
=============================================================================
