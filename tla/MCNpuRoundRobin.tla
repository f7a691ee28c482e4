--------------------------- MODULE MCNpuRoundRobin --------------------------
(* Three channels for TLC; a may run every second tick, the others at once. *)
EXTENDS NpuRoundRobin

CONSTANT a

MCPeriod == [ch \in Channels |-> IF ch = a THEN 1 ELSE 0]
MCRegistrations == [ch \in Channels |-> 1]

\* Without an age limit no step reads the age of a frame; one stands for all.
AgesAlike == \A ch \in Channels : mailbox'[ch] # 0

MCNext == RRNext /\ AgesAlike
MCSpec == RRInit /\ [][MCNext]_rrVars /\ Fairness
=============================================================================
