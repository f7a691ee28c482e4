----------------------------- MODULE NpuService -----------------------------
(***************************************************************************)
(* What the NPU scheduler promises to the channels, without its threads,   *)
(* lock, condition variable, clock or order: one serial server in front of *)
(* one-frame mailboxes.  A channel is closed only when the server neither  *)
(* works on its frame nor is answering it, so that an answer always finds  *)
(* the channel that asked.                                                 *)
(***************************************************************************)
CONSTANTS Channels, None

VARIABLES
  open,       \* the channels that may be served and answered
  mail,       \* the channels with a waiting frame
  serving,    \* the channel whose frame the server has, or None
  answering   \* the server is answering it

svars == <<open, mail, serving, answering>>

Init ==
  /\ open = {}
  /\ mail = {}
  /\ serving = None
  /\ answering = FALSE

Open(c) ==
  /\ c \notin open
  /\ open' = open \cup {c}
  /\ UNCHANGED <<mail, serving, answering>>

\* A newer frame replaces the waiting one.
Put(c) ==
  /\ c \in open
  /\ mail' = mail \cup {c}
  /\ UNCHANGED <<open, serving, answering>>

\* Frames may be given up (too old, the channel closing, the server stopping).
Discard(S) ==
  /\ mail' = mail \ S
  /\ UNCHANGED <<open, serving, answering>>

\* The idle server takes one channel's frame, and may give up others.
Take(c, S) ==
  /\ serving = None
  /\ c \in mail \cap open
  /\ mail' = mail \ (S \cup {c})
  /\ serving' = c
  /\ UNCHANGED <<open, answering>>

Answer ==
  /\ serving \in open
  /\ ~answering
  /\ answering' = TRUE
  /\ UNCHANGED <<open, mail, serving>>

\* The server is done with the frame, answered or not.
Finish ==
  /\ serving # None
  /\ serving' = None
  /\ answering' = FALSE
  /\ UNCHANGED <<open, mail>>

Close(c) ==
  /\ c \in open
  /\ serving # c
  /\ open' = open \ {c}
  /\ mail' = mail \ {c}
  /\ UNCHANGED <<serving, answering>>

Next ==
  \/ \E c \in Channels :
       Open(c) \/ Put(c) \/ Close(c) \/ \E S \in SUBSET Channels : Take(c, S)
  \/ \E S \in SUBSET Channels : Discard(S)
  \/ Answer
  \/ Finish

Spec == Init /\ [][Next]_svars
=============================================================================
