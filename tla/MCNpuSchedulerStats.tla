------------------------- MODULE MCNpuSchedulerStats ------------------------
(* Two channels for TLC: a is registered twice and may run every second    *)
(* tick, b is registered once and may run every tick.                      *)
EXTENDS NpuSchedulerStats

CONSTANTS a, b

MCPeriod == [c \in Channels |-> IF c = a THEN 2 ELSE 1]
MCRegistrations == [c \in Channels |-> IF c = a THEN 2 ELSE 1]
=============================================================================
