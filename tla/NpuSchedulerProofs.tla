------------------------- MODULE NpuSchedulerProofs -------------------------
(***************************************************************************)
(* Proofs about the scheduler, for every set of channels, every rate, every*)
(* age limit and every statistics interval: its invariant, the refinement  *)
(* of NpuService, and the counters of NpuSchedulerStats.                   *)
(***************************************************************************)
EXTENDS NpuSchedulerStats, NpuRoundRobin, FiniteSetTheorems, TLAPS

-----------------------------------------------------------------------------
(* The inductive invariant.                                                *)

\* A channel that is not registered has nothing pending, and one that is not
\* in the map is idle too.  A callback belongs to the latest registration.
SlotInv ==
  \A c \in Channels :
    /\ registered[c] => c \in channels
    /\ ~registered[c] => mailbox[c] = NoFrame /\ completion[c] = 0
    /\ completion[c] \in {0, registrations[c]}
    /\ c \notin channels => Idle(c)

\* The worker's job is the running channel or the channel called back.
JobInv ==
  /\ pc \in {"off", "loop"} => job = NoJob
  /\ pc \in {"exec", "callback"} => job.channel \in channels
  /\ pc = "exec" => job.completion \in {0, registrations[job.channel]}
  /\ pc = "callback" => job.completion = registrations[job.channel]

\* Who may be asleep.  A caller of unregister_channel sleeps only while the
\* worker is busy, hence never beside the worker: notify_one finds the worker.
WaitInv ==
  /\ Worker \in waiters => pc = "loop"
  /\ UnregisterSleepsOnlyWhileBusy
  /\ WorkerNeverOversleeps

\* The flags follow the worker's life and the phases of stop().
FlagInv ==
  /\ workerRunning <=> pc # "off"
  /\ accepting <=> workerRunning /\ ~stopRequested
  /\ workerRunning /\ stopPc = "idle" => ~stopRequested
  /\ stopPc # "idle" => stopRequested
  /\ stopRequested \/ ~workerRunning => \A c \in Channels : mailbox[c] = NoFrame

IInv ==
  /\ TypeOK
  /\ SlotInv
  /\ JobInv
  /\ AtMostOneJob
  /\ WaitInv
  /\ FlagInv
  /\ OrderMatchesChannels

-----------------------------------------------------------------------------
(* The invariant holds initially.                                          *)

\* Nobody is registered at first, and the worker has not started.
LEMMA InitIInv == Init => IInv
<1> SUFFICES ASSUME Init PROVE IInv
  OBVIOUS
<1> USE SchedulerAssumption DEF Init, Idle, NoFrame, NoJob
<1>1. TypeOK
  <2>1. order \in Seq(Channels) /\ job \in [channel : Channels \cup {None}, completion : Nat]
    OBVIOUS
  <2>2. mailbox \in [Channels -> NoFrame .. MaxFrameAge + 1]
    OBVIOUS
  <2>3. /\ registered \in [Channels -> BOOLEAN]
        /\ running \in [Channels -> BOOLEAN]
        /\ callbacks \in [Channels -> 0 .. 1]
    OBVIOUS
  <2>4. /\ eligibleIn \in [Channels -> Nat]
        /\ completion \in [Channels -> Nat]
        /\ registrations \in [Channels -> Nat]
    OBVIOUS
  <2> QED BY <2>1, <2>2, <2>3, <2>4 DEF TypeOK
<1>2. SlotInv
  BY DEF SlotInv
<1>3. JobInv /\ AtMostOneJob
  BY DEF JobInv, AtMostOneJob
<1>4. WaitInv
  BY DEF WaitInv, UnregisterSleepsOnlyWhileBusy, WorkerNeverOversleeps
<1>5. FlagInv
  BY DEF FlagInv
<1>6. OrderMatchesChannels
  BY DEF OrderMatchesChannels
<1> QED
  BY <1>1, <1>2, <1>3, <1>4, <1>5, <1>6 DEF IInv

-----------------------------------------------------------------------------
(* Facts shared by the steps.                                              *)

\* A remainder lies below its divisor.
LEMMA Remainder ==
  ASSUME NEW a \in Nat, NEW n \in Nat \ {0}
  PROVE  a % n \in 0 .. n - 1
OBVIOUS

\* A step that leaves the registered channels alone keeps the order in shape.
LEMMA OrderKept ==
  ASSUME OrderMatchesChannels, UNCHANGED chanVars
  PROVE  OrderMatchesChannels'
BY DEF OrderMatchesChannels, chanVars

\* So does a step that only moves the round robin index inside the order.
LEMMA OrderKeptAnyIndex ==
  ASSUME OrderMatchesChannels, channels' = channels, order' = order,
         nextRR' < Len(order') \/ nextRR' = 0
  PROVE  OrderMatchesChannels'
BY DEF OrderMatchesChannels

\* While the worker sleeps nobody else does: notify_one wakes the worker.
LEMMA WorkerSleepsAlone ==
  ASSUME IInv, Worker \in waiters
  PROVE  waiters = {Worker}
<1>1. pc = "loop"
  BY DEF IInv, WaitInv
<1>2. \A c \in Channels : Idle(c)
  BY <1>1 DEF IInv, TypeOK, AtMostOneJob, Idle
<1>3. waiters \cap Channels = {}
  BY <1>2 DEF IInv, WaitInv, UnregisterSleepsOnlyWhileBusy
<1> QED
  BY <1>3 DEF IInv, TypeOK

\* Appending a channel that is not in the order keeps it without duplicates.
LEMMA OrderAppend ==
  ASSUME TypeOK, OrderMatchesChannels, NEW c \in Channels \ channels,
         channels' = channels \cup {c}, order' = Append(order, c), nextRR' = nextRR
  PROVE  order' \in Seq(Channels) /\ OrderMatchesChannels'
<1>1. /\ order \in Seq(Channels)
      /\ order' \in Seq(Channels)
      /\ Len(order') = Len(order) + 1
      /\ \A i \in 1 .. Len(order) : order'[i] = order[i]
      /\ order'[Len(order) + 1] = c
      /\ Len(order) \in Nat
  BY DEF TypeOK
<1>2. channels' = {order'[i] : i \in 1 .. Len(order')}
  BY <1>1 DEF OrderMatchesChannels
<1>3. \A i, j \in 1 .. Len(order') : order'[i] = order'[j] => i = j
  BY <1>1 DEF OrderMatchesChannels
<1>4. nextRR' < Len(order') \/ nextRR' = 0
  BY <1>1 DEF OrderMatchesChannels, TypeOK
<1> QED
  BY <1>1, <1>2, <1>3, <1>4 DEF OrderMatchesChannels

\* Erasing a channel removes its only position from the order.
LEMMA EraseKeepsOrder ==
  ASSUME TypeOK, OrderMatchesChannels, NEW c \in Channels, Erase(c)
  PROVE  /\ channels' = channels \ {c}
         /\ order' \in Seq(Channels)
         /\ nextRR' \in Nat
         /\ waiters' = {}
         /\ OrderMatchesChannels'
<1>1. PICK k \in 1 .. Len(order) : order[k] = c /\ order' = OrderWithout(k)
  BY DEF Erase, NotifyAll
<1>2. order \in Seq(Channels) /\ Len(order) \in Nat /\ nextRR \in Nat
  BY DEF TypeOK
<1>3. /\ order' \in Seq(Channels)
      /\ Len(order') = Len(order) - 1
      /\ \A i \in 1 .. Len(order) - 1 : order'[i] = order[IF i < k THEN i ELSE i + 1]
  BY <1>1, <1>2 DEF OrderWithout
<1>4. channels' = {order'[i] : i \in 1 .. Len(order')}
  <2>1. ASSUME NEW d \in channels' PROVE \E i \in 1 .. Len(order') : order'[i] = d
    <3>1. PICK j \in 1 .. Len(order) : order[j] = d
      BY <2>1 DEF Erase, OrderMatchesChannels
    <3>2. j # k
      BY <1>1, <2>1, <3>1 DEF Erase
    <3>3. CASE j < k
      BY <1>2, <1>3, <3>1, <3>3
    <3>4. CASE j > k
      <4>1. j - 1 \in 1 .. Len(order') /\ order'[j - 1] = order[j]
        BY <1>2, <1>3, <3>4
      <4> QED BY <3>1, <4>1
    <3> QED BY <3>2, <3>3, <3>4
  <2>2. ASSUME NEW i \in 1 .. Len(order') PROVE order'[i] \in channels'
    <3> DEFINE j == IF i < k THEN i ELSE i + 1
    <3>1. j \in 1 .. Len(order) /\ j # k /\ order'[i] = order[j]
      BY <1>2, <1>3
    <3>2. order[j] # c
      BY <1>1, <3>1 DEF OrderMatchesChannels
    <3> QED BY <3>1, <3>2 DEF Erase, OrderMatchesChannels
  <2> QED BY <2>1, <2>2
<1>5. ASSUME NEW i \in 1 .. Len(order'), NEW j \in 1 .. Len(order'), order'[i] = order'[j]
      PROVE  i = j
  <2> DEFINE old(n) == IF n < k THEN n ELSE n + 1
  <2>1. \A n \in 1 .. Len(order') : old(n) \in 1 .. Len(order) /\ order'[n] = order[old(n)]
    BY <1>2, <1>3
  <2>2. old(i) = old(j)
    <3> HIDE DEF old
    <3> QED BY <1>5, <2>1 DEF OrderMatchesChannels
  <2> QED BY <1>2, <1>3, <2>2
<1>6. nextRR' \in Nat /\ (nextRR' < Len(order') \/ nextRR' = 0)
  <2>1. CASE order' = <<>>
    BY <2>1 DEF Erase
  <2>2. CASE order' # <<>>
    <3>1. Len(order') \in Nat \ {0}
      BY <1>3, <2>2
    <3>2. nextRR' = nextRR % Len(order')
      BY <2>2 DEF Erase
    <3>3. nextRR % Len(order') \in 0 .. Len(order') - 1
      BY ONLY Zenon, <1>2, <3>1, Remainder
    <3>4. nextRR' \in 0 .. Len(order') - 1
      BY ONLY <1>2, <3>1, <3>2, <3>3
    <3> QED BY ONLY <3>1, <3>4
  <2> QED BY <2>1, <2>2
<1>7. channels' = channels \ {c} /\ waiters' = {}
  BY DEF Erase, NotifyAll
<1>8. OrderMatchesChannels'
  BY <1>4, <1>5, <1>6 DEF OrderMatchesChannels
<1> QED
  BY <1>3, <1>6, <1>7, <1>8

-----------------------------------------------------------------------------
(* Every step keeps the invariant: one lemma per action.                   *)

\* A tick keeps the age of a frame within its range.
LEMMA AgeInRange ==
  ASSUME NEW age \in NoFrame .. MaxFrameAge + 1
  PROVE  (IF age = NoFrame \/ age > MaxFrameAge THEN age ELSE age + 1)
           \in NoFrame .. MaxFrameAge + 1
BY SchedulerAssumption DEF NoFrame

\* The scan visits positions of the order.
LEMMA ScanInOrder ==
  ASSUME Len(order) \in Nat \ {0}, nextRR \in Nat, NEW offset \in 0 .. Len(order) - 1
  PROVE  \E i \in 1 .. Len(order) : ScanAt(offset) = order[i]
<1>1. (nextRR + offset) % Len(order) \in 0 .. Len(order) - 1
  OBVIOUS
<1>2. ((nextRR + offset) % Len(order)) + 1 \in 1 .. Len(order)
  BY <1>1
<1> QED
  BY <1>2 DEF ScanAt

\* The new channel is idle and has no frame; no sleeping thread is left.
LEMMA RegisterKeeps ==
  ASSUME IInv, NEW c \in Channels, NEW withCompletion \in BOOLEAN, Register(c, withCompletion)
  PROVE  IInv'
<1> USE SchedulerAssumption DEF Register, NotifyAll, chanVars, slotVars, flagVars, timerVars, workerVars
<1>1. TypeOK'
  <2>1. order' \in Seq(Channels)
    BY OrderAppend DEF IInv
  <2>2. /\ registrations' \in [Channels -> Nat]
        /\ completion' \in [Channels -> Nat]
    <3>1. registrations' \in [Channels -> Nat]
      <4>1. registrations \in [Channels -> Nat]
        BY DEF IInv, TypeOK
      <4>2. \A d \in Channels : registrations[d] + 1 \in Nat
        BY <4>1
      <4> QED BY <4>1, <4>2
    <3>2. (IF withCompletion THEN registrations'[c] ELSE 0) \in Nat
      BY <3>1
    <3> QED BY <3>1, <3>2 DEF IInv, TypeOK
  <2>3. /\ mailbox' \in [Channels -> NoFrame .. MaxFrameAge + 1]
        /\ callbacks' \in [Channels -> 0 .. 1]
        /\ eligibleIn' \in [Channels -> Nat]
    <3>1. mailbox' \in [Channels -> NoFrame .. MaxFrameAge + 1]
      <4>1. NoFrame \in NoFrame .. MaxFrameAge + 1
        BY DEF NoFrame
      <4>2. mailbox \in [Channels -> NoFrame .. MaxFrameAge + 1]
        BY DEF IInv, TypeOK
      <4> QED BY <4>1, <4>2
    <3>2. callbacks' \in [Channels -> 0 .. 1]
      BY DEF IInv, TypeOK
    <3>3. eligibleIn' \in [Channels -> Nat]
      BY DEF IInv, TypeOK
    <3> QED BY <3>1, <3>2, <3>3
  <2> QED
    BY <2>1, <2>2, <2>3 DEF IInv, TypeOK
<1>2. SlotInv'
  BY DEF IInv, TypeOK, SlotInv, Idle
<1>3. JobInv' /\ AtMostOneJob'
  BY DEF IInv, TypeOK, SlotInv, JobInv, AtMostOneJob, Idle, NoJob
<1>4. WaitInv'
  BY DEF IInv, WaitInv, UnregisterSleepsOnlyWhileBusy, WorkerNeverOversleeps, Idle
<1>5. FlagInv'
  BY DEF IInv, TypeOK, FlagInv
<1>6. OrderMatchesChannels'
  BY OrderAppend DEF IInv
<1> QED
  BY <1>1, <1>2, <1>3, <1>4, <1>5, <1>6 DEF IInv

\* The only thread that notify_one may find asleep is the worker.
LEMMA SubmitKeeps ==
  ASSUME IInv, NEW c \in Channels, NEW frameAge \in 0 .. MaxFrameAge + 1, Submit(c, frameAge)
  PROVE  IInv'
<1> USE SchedulerAssumption DEF Submit, NotifyAll, chanVars, slotVars, flagVars, timerVars, workerVars
<1>1. TypeOK'
  <2>1. mailbox' \in [Channels -> NoFrame .. MaxFrameAge + 1]
    BY DEF IInv, TypeOK, NoFrame
  <2>2. waiters' \subseteq waiters
    BY DEF NotifyOne
  <2> QED
    BY <2>1, <2>2 DEF IInv, TypeOK
<1>2. SlotInv'
  BY DEF IInv, TypeOK, SlotInv, Idle
<1>3. JobInv' /\ AtMostOneJob'
  BY DEF IInv, JobInv, AtMostOneJob, NoJob
<1>4. WaitInv'
  <2>1. waiters' \subseteq waiters
    BY DEF NotifyOne
  <2>2. Worker \notin waiters'
    BY WorkerSleepsAlone, <2>1 DEF NotifyOne
  <2> QED
    BY <2>1, <2>2 DEF IInv, WaitInv, UnregisterSleepsOnlyWhileBusy, WorkerNeverOversleeps, Idle
<1>5. FlagInv'
  BY DEF IInv, TypeOK, FlagInv
<1>6. OrderMatchesChannels'
  BY OrderKept DEF IInv
<1> QED
  BY <1>1, <1>2, <1>3, <1>4, <1>5, <1>6 DEF IInv

\* Either the idle channel is erased, or its caller alone goes to sleep.
LEMMA UnregisterKeeps ==
  ASSUME IInv, NEW c \in Channels, Unregister(c)
  PROVE  IInv'
<1> USE SchedulerAssumption DEF Unregister, NotifyAll, chanVars, slotVars, flagVars, timerVars, workerVars
<1>1. TypeOK'
  <2>1. order' \in Seq(Channels) /\ nextRR' \in Nat /\ channels' \subseteq Channels
        /\ waiters' \subseteq Channels \cup {Worker}
    BY SMTT(20), EraseKeepsOrder DEF IInv, TypeOK
  <2>2. mailbox' \in [Channels -> NoFrame .. MaxFrameAge + 1]
    BY DEF IInv, TypeOK, NoFrame
  <2>3. completion' \in [Channels -> Nat] /\ registered' \in [Channels -> BOOLEAN]
    BY DEF IInv, TypeOK
  <2> QED
    BY <2>1, <2>2, <2>3 DEF IInv, TypeOK
<1>2. SlotInv'
  <2>1. channels' \subseteq channels /\ (c \notin channels' => Idle(c))
        /\ channels \subseteq channels' \cup {c}
    BY DEF Erase, NotifyAll
  <2> QED
    BY <2>1 DEF IInv, TypeOK, SlotInv, Idle
<1>3. JobInv' /\ AtMostOneJob'
  <2>1. channels \subseteq channels' \cup {c} /\ (c \notin channels' => Idle(c) \/ c \notin channels)
    BY DEF Erase, NotifyAll
  <2> QED
    BY <2>1 DEF IInv, TypeOK, JobInv, AtMostOneJob, NoJob, Idle
<1>4. WaitInv'
  <2>1. waiters' = {} \/ (waiters' = {c} /\ ~Idle(c) /\ channels' = channels)
    BY DEF Erase, NotifyAll
  <2> QED
    BY <2>1 DEF IInv, TypeOK, WaitInv, UnregisterSleepsOnlyWhileBusy, WorkerNeverOversleeps, Idle
<1>5. FlagInv'
  BY DEF IInv, TypeOK, FlagInv
<1>6. OrderMatchesChannels'
  BY EraseKeepsOrder, OrderKept DEF IInv
<1> QED
  BY <1>1, <1>2, <1>3, <1>4, <1>5, <1>6 DEF IInv

\* As for Unregister, but a busy channel's caller joins the sleepers.
LEMMA UnregisterRecheckKeeps ==
  ASSUME IInv, NEW c \in Channels, UnregisterRecheck(c)
  PROVE  IInv'
<1> USE SchedulerAssumption DEF UnregisterRecheck, NotifyAll, chanVars, slotVars, flagVars, timerVars, workerVars
<1>1. TypeOK'
  <2>1. order' \in Seq(Channels) /\ nextRR' \in Nat /\ channels' \subseteq Channels
        /\ waiters' \subseteq Channels \cup {Worker}
    BY EraseKeepsOrder DEF IInv, TypeOK
  <2> QED
    BY <2>1 DEF IInv, TypeOK
<1>2. SlotInv'
  <2>1. channels' = channels \/ (channels' = channels \ {c} /\ Idle(c))
    BY DEF Erase, NotifyAll
  <2> QED
    BY <2>1 DEF IInv, SlotInv, Idle
<1>3. JobInv' /\ AtMostOneJob'
  <2>1. channels' = channels \/ (channels' = channels \ {c} /\ Idle(c))
    BY DEF Erase, NotifyAll
  <2> QED
    BY SMTT(20), <2>1 DEF IInv, TypeOK, JobInv, AtMostOneJob, NoJob, Idle
<1>4. WaitInv'
  <2>1. waiters' = {} \/ (waiters' = waiters \cup {c} /\ ~Idle(c) /\ channels' = channels)
    BY DEF Erase, NotifyAll
  <2> QED
    BY <2>1 DEF IInv, TypeOK, WaitInv, UnregisterSleepsOnlyWhileBusy, WorkerNeverOversleeps, Idle
<1>5. FlagInv'
  BY DEF IInv, FlagInv
<1>6. OrderMatchesChannels'
  BY EraseKeepsOrder, OrderKept DEF IInv
<1> QED
  BY <1>1, <1>2, <1>3, <1>4, <1>5, <1>6 DEF IInv

\* A stopped scheduler has no sleeping worker and no job.
LEMMA StartKeeps ==
  ASSUME IInv, Start
  PROVE  IInv'
<1> USE SchedulerAssumption DEF Start, NotifyAll, chanVars, slotVars, flagVars, timerVars, workerVars
<1>1. TypeOK'
  BY DEF IInv, TypeOK, NoFrame
<1>2. SlotInv'
  BY DEF IInv, SlotInv, Idle
<1>3. JobInv' /\ AtMostOneJob'
  BY DEF IInv, JobInv, AtMostOneJob, FlagInv, NoJob
<1>4. WaitInv'
  BY DEF IInv, WaitInv, UnregisterSleepsOnlyWhileBusy, WorkerNeverOversleeps, Idle, FlagInv
<1>5. FlagInv'
  BY DEF IInv, FlagInv
<1>6. OrderMatchesChannels'
  BY OrderKept DEF IInv
<1> QED
  BY <1>1, <1>2, <1>3, <1>4, <1>5, <1>6 DEF IInv

\* The worker may be asleep when the flag is set, but stop is about to notify.
LEMMA StopRequestKeeps ==
  ASSUME IInv, StopRequest
  PROVE  IInv'
<1> USE SchedulerAssumption DEF StopRequest, NotifyAll, chanVars, slotVars, flagVars, timerVars, workerVars
<1>1. TypeOK'
  <2>1. mailbox' \in [Channels -> NoFrame .. MaxFrameAge + 1]
    BY DEF IInv, TypeOK, NoFrame
  <2> QED
    BY <2>1 DEF IInv, TypeOK
<1>2. SlotInv'
  BY DEF IInv, SlotInv, Idle
<1>3. JobInv' /\ AtMostOneJob'
  BY DEF IInv, JobInv, AtMostOneJob, NoJob
<1>4. WaitInv'
  BY DEF IInv, WaitInv, UnregisterSleepsOnlyWhileBusy, WorkerNeverOversleeps, Idle
<1>5. FlagInv'
  BY DEF IInv, FlagInv
<1>6. OrderMatchesChannels'
  BY OrderKept DEF IInv
<1> QED
  BY <1>1, <1>2, <1>3, <1>4, <1>5, <1>6 DEF IInv

\* Everybody is awake.
LEMMA StopNotifyKeeps ==
  ASSUME IInv, StopNotify
  PROVE  IInv'
<1> USE SchedulerAssumption DEF StopNotify, NotifyAll, chanVars, slotVars, flagVars, timerVars, workerVars
<1>1. TypeOK'
  BY DEF IInv, TypeOK, NoFrame
<1>2. SlotInv'
  BY DEF IInv, SlotInv, Idle
<1>3. JobInv' /\ AtMostOneJob'
  BY DEF IInv, JobInv, AtMostOneJob, NoJob
<1>4. WaitInv'
  BY DEF IInv, WaitInv, UnregisterSleepsOnlyWhileBusy, WorkerNeverOversleeps, Idle
<1>5. FlagInv'
  BY DEF IInv, FlagInv
<1>6. OrderMatchesChannels'
  BY OrderKept DEF IInv
<1> QED
  BY <1>1, <1>2, <1>3, <1>4, <1>5, <1>6 DEF IInv

\* The worker has ended, so it does not sleep.
LEMMA StopJoinKeeps ==
  ASSUME IInv, StopJoin
  PROVE  IInv'
<1> USE SchedulerAssumption DEF StopJoin, NotifyAll, chanVars, slotVars, flagVars, timerVars, workerVars
<1>1. TypeOK'
  BY DEF IInv, TypeOK, NoFrame
<1>2. SlotInv'
  BY DEF IInv, SlotInv, Idle
<1>3. JobInv' /\ AtMostOneJob'
  BY DEF IInv, JobInv, AtMostOneJob, NoJob
<1>4. WaitInv'
  BY DEF IInv, WaitInv, UnregisterSleepsOnlyWhileBusy, WorkerNeverOversleeps, Idle
<1>5. FlagInv'
  BY DEF IInv, FlagInv
<1>6. OrderMatchesChannels'
  BY OrderKept DEF IInv
<1> QED
  BY <1>1, <1>2, <1>3, <1>4, <1>5, <1>6 DEF IInv

\* The thread ends with a requested stop and no job.
LEMMA WorkerExitKeeps ==
  ASSUME IInv, WorkerExit
  PROVE  IInv'
<1> USE SchedulerAssumption DEF WorkerExit, Awake, NotifyAll, chanVars, slotVars, flagVars, timerVars, workerVars
<1>1. TypeOK'
  BY DEF IInv, TypeOK, NoFrame
<1>2. SlotInv'
  BY DEF IInv, SlotInv, Idle
<1>3. JobInv' /\ AtMostOneJob'
  BY DEF IInv, JobInv, AtMostOneJob, NoJob
<1>4. WaitInv'
  BY DEF IInv, WaitInv, UnregisterSleepsOnlyWhileBusy, WorkerNeverOversleeps, Idle
<1>5. FlagInv'
  BY DEF IInv, FlagInv
<1>6. OrderMatchesChannels'
  BY OrderKept DEF IInv
<1> QED
  BY <1>1, <1>2, <1>3, <1>4, <1>5, <1>6 DEF IInv

\* The chosen channel was registered and nothing was running.
LEMMA WorkerDispatchKeeps ==
  ASSUME IInv, WorkerDispatch
  PROVE  IInv'
<1> USE SchedulerAssumption DEF WorkerDispatch, Awake, StatsAfterEmit, NotifyAll, chanVars, slotVars, flagVars, timerVars, workerVars
<1>0. PICK offset \in 0 .. Len(order) - 1 :
       LET c == ScanAt(offset) IN
       /\ FirstReady(offset)
       /\ job' = [channel |-> c, completion |-> completion[c]]
       /\ mailbox' = [AfterStaleDrop EXCEPT ![c] = NoFrame]
       /\ running' = [running EXCEPT ![c] = TRUE]
       /\ eligibleIn' = [eligibleIn EXCEPT ![c] = Period[c]]
       /\ nextRR' = (nextRR + offset + 1) % Len(order)
  BY DEF WorkerDispatch
<1> DEFINE c == ScanAt(offset)
<1>a. Len(order) \in Nat \ {0} /\ order \in Seq(Channels) /\ nextRR \in Nat
  BY DEF IInv, TypeOK
<1>b. c \in Channels /\ c \in channels
  <2>1. PICK i \in 1 .. Len(order) : c = order[i]
    BY <1>a, ScanInOrder
  <2>2. order[i] \in channels
    BY DEF IInv, OrderMatchesChannels
  <2>3. channels \subseteq Channels
    BY DEF IInv, TypeOK
  <2> QED BY <2>1, <2>2, <2>3
<1>c. nextRR' \in 0 .. Len(order) - 1
  <2>1. nextRR + offset + 1 \in Nat
    BY <1>a
  <2>2. (nextRR + offset + 1) % Len(order) \in 0 .. Len(order) - 1
    BY ONLY Zenon, <1>a, <2>1, Remainder
  <2>3. nextRR' = (nextRR + offset + 1) % Len(order)
    BY <1>0
  <2> QED BY ONLY <2>2, <2>3
<1>d. /\ registered[c] /\ ~running[c]
      /\ job' = [channel |-> c, completion |-> completion[c]]
      /\ mailbox' = [AfterStaleDrop EXCEPT ![c] = NoFrame]
      /\ running' = [running EXCEPT ![c] = TRUE]
      /\ eligibleIn' = [eligibleIn EXCEPT ![c] = Period[c]]
  BY <1>0 DEF FirstReady, Ready, Candidate
<1>e. \A d \in Channels : AfterStaleDrop[d] \in {mailbox[d], NoFrame}
  BY DEF AfterStaleDrop
<1>f. mailbox' \in [Channels -> NoFrame .. MaxFrameAge + 1]
  <2>1. AfterStaleDrop \in [Channels -> NoFrame .. MaxFrameAge + 1]
    <3>1. \A d \in Channels : mailbox[d] \in NoFrame .. MaxFrameAge + 1
      BY DEF IInv, TypeOK
    <3>2. NoFrame \in NoFrame .. MaxFrameAge + 1
      BY DEF NoFrame
    <3> QED BY <3>1, <3>2 DEF AfterStaleDrop
  <2>2. NoFrame \in NoFrame .. MaxFrameAge + 1
    BY DEF NoFrame
  <2> QED BY <1>b, <1>d, <2>1, <2>2
<1>g. \A d \in Channels : mailbox[d] = NoFrame => mailbox'[d] = NoFrame
  BY <1>b, <1>d, <1>e DEF AfterStaleDrop
<1> HIDE DEF c
<1>1. TypeOK'
  <2>1. running' \in [Channels -> BOOLEAN] /\ eligibleIn' \in [Channels -> Nat]
    BY <1>b, <1>d DEF IInv, TypeOK
  <2>2. job' \in [channel : Channels \cup {None}, completion : Nat]
    BY <1>b, <1>d DEF IInv, TypeOK
  <2>3. nextRR' \in Nat
    BY <1>a, <1>c
  <2> QED
    BY <1>f, <2>1, <2>2, <2>3 DEF IInv, TypeOK
<1>2. SlotInv'
  <2>1. \A d \in Channels : d \notin channels => Idle(d)'
    BY <1>b, <1>d DEF IInv, TypeOK, SlotInv, Idle
  <2> QED
    BY <1>g, <2>1 DEF IInv, SlotInv
<1>3. JobInv' /\ AtMostOneJob'
  <2>1. job'.channel = c /\ job'.completion = completion[c]
    BY <1>d
  <2>2. JobInv'
    BY <1>b, <1>d, <2>1 DEF IInv, SlotInv, JobInv
  <2>3. \A d \in Channels : running'[d] <=> d = c
    BY <1>b, <1>d DEF IInv, TypeOK, AtMostOneJob
  <2>4. \A d \in Channels : callbacks'[d] = 0
    BY DEF IInv, TypeOK, AtMostOneJob
  <2> QED
    BY <1>b, <2>1, <2>2, <2>3, <2>4 DEF AtMostOneJob
<1>4. WaitInv'
  BY <1>b, <1>d DEF IInv, TypeOK, WaitInv, UnregisterSleepsOnlyWhileBusy, WorkerNeverOversleeps, Idle, AtMostOneJob
<1>5. FlagInv'
  BY <1>g DEF IInv, FlagInv
<1>6. OrderMatchesChannels'
  <2>1. nextRR' < Len(order')
    BY <1>a, <1>c
  <2> QED
    BY <2>1, OrderKeptAnyIndex DEF IInv
<1> QED
  BY <1>1, <1>2, <1>3, <1>4, <1>5, <1>6 DEF IInv

\* No candidate is due before the chosen deadline, and no job is running.
LEMMA WorkerSleepKeeps ==
  ASSUME IInv, WorkerSleep
  PROVE  IInv'
<1> USE SchedulerAssumption DEF WorkerSleep, Awake, NotifyAll, chanVars, slotVars, flagVars, timerVars, workerVars
<1>a. \A d \in Channels : AfterStaleDrop[d] \in {mailbox[d], NoFrame}
  BY DEF AfterStaleDrop
<1>b. mailbox' \in [Channels -> NoFrame .. MaxFrameAge + 1]
  BY SMTT(20) DEF IInv, TypeOK, NoFrame, AfterStaleDrop
<1>c. statsIn' \in Nat
  BY DEF IInv, TypeOK, StatsAfterEmit
<1>d. wakeIn' \in Nat
  BY <1>c DEF IInv, TypeOK, Deadlines
<1>e. nextRR' \in Nat /\ (nextRR' < Len(order') \/ nextRR' = 0)
  <2>1. CASE order = <<>>
    BY <2>1 DEF IInv, TypeOK, OrderMatchesChannels
  <2>2. CASE order # <<>>
    <3>1. Len(order) \in Nat \ {0} /\ nextRR \in Nat
      BY <2>2 DEF IInv, TypeOK
    <3> QED BY <2>2, <3>1
  <2> QED BY <2>1, <2>2
<1>f. \A d \in Channels : registered[d] /\ mailbox'[d] # NoFrame => wakeIn' <= eligibleIn[d]
  <2>1. \A d \in Channels : ~running[d]
    BY DEF IInv, AtMostOneJob
  <2> QED
    BY <2>1 DEF Candidate, Deadlines
<1>g. wakeIn' <= statsIn'
  BY DEF Deadlines
<1>1. TypeOK'
  BY <1>b, <1>c, <1>d, <1>e DEF IInv, TypeOK
<1>2. SlotInv'
  BY <1>a DEF IInv, SlotInv, Idle
<1>3. JobInv' /\ AtMostOneJob'
  BY DEF IInv, JobInv, AtMostOneJob, NoJob
<1>4. WaitInv'
  BY <1>f, <1>g DEF IInv, TypeOK, WaitInv, UnregisterSleepsOnlyWhileBusy, WorkerNeverOversleeps, Idle
<1>5. FlagInv'
  BY <1>a DEF IInv, FlagInv
<1>6. OrderMatchesChannels'
  BY <1>e, OrderKeptAnyIndex DEF IInv
<1> QED
  BY <1>1, <1>2, <1>3, <1>4, <1>5, <1>6 DEF IInv

\* The worker is awake.
LEMMA WorkerTimeoutKeeps ==
  ASSUME IInv, WorkerTimeout
  PROVE  IInv'
<1> USE SchedulerAssumption DEF WorkerTimeout, NotifyAll, chanVars, slotVars, flagVars, timerVars, workerVars
<1>1. TypeOK'
  BY DEF IInv, TypeOK, NoFrame
<1>2. SlotInv'
  BY DEF IInv, SlotInv, Idle
<1>3. JobInv' /\ AtMostOneJob'
  BY DEF IInv, JobInv, AtMostOneJob, NoJob
<1>4. WaitInv'
  BY DEF IInv, WaitInv, UnregisterSleepsOnlyWhileBusy, WorkerNeverOversleeps, Idle
<1>5. FlagInv'
  BY DEF IInv, FlagInv
<1>6. OrderMatchesChannels'
  BY OrderKept DEF IInv
<1> QED
  BY <1>1, <1>2, <1>3, <1>4, <1>5, <1>6 DEF IInv

\* The job's channel is still there, and everybody is woken.
LEMMA WorkerFinishKeeps ==
  ASSUME IInv, WorkerFinish
  PROVE  IInv'
<1> USE SchedulerAssumption DEF WorkerFinish, MayCallBack, NotifyAll, chanVars, slotVars, flagVars, timerVars, workerVars
<1>a. job.channel \in Channels /\ job.channel \in channels /\ waiters' = {}
  BY DEF IInv, TypeOK, JobInv
<1>b. \A d \in Channels : callbacks[d] = 0
  BY DEF IInv, TypeOK, AtMostOneJob
<1>c. running' = [running EXCEPT ![job.channel] = FALSE]
  BY <1>a
<1>d. \/ /\ registered[job.channel] /\ job.completion # 0
         /\ callbacks' = [callbacks EXCEPT ![job.channel] = 1]
         /\ pc' = "callback" /\ job' = job
      \/ callbacks' = callbacks /\ pc' = "loop" /\ job' = NoJob
  BY <1>a, <1>b DEF IInv, TypeOK
<1>1. TypeOK'
  <2>1. running' \in [Channels -> BOOLEAN] /\ callbacks' \in [Channels -> 0 .. 1]
    <3>1. running' \in [Channels -> BOOLEAN]
      BY <1>a, <1>c DEF IInv, TypeOK
    <3>2. callbacks' \in [Channels -> 0 .. 1]
      <4>1. callbacks \in [Channels -> 0 .. 1] /\ 1 \in 0 .. 1
        BY DEF IInv, TypeOK
      <4> QED BY <1>a, <1>d, <4>1
    <3> QED BY <3>1, <3>2
  <2>2. job' \in [channel : Channels \cup {None}, completion : Nat]
    BY <1>d DEF IInv, TypeOK, NoJob
  <2>3. pc' \in {"off", "loop", "exec", "callback"}
    BY <1>d
  <2> QED
    BY <1>a, <2>1, <2>2, <2>3 DEF IInv, TypeOK
<1>2. SlotInv'
  BY <1>a, <1>b, <1>c, <1>d DEF IInv, TypeOK, SlotInv, Idle
<1>3. JobInv' /\ AtMostOneJob'
  <2>1. JobInv'
    BY <1>a, <1>d DEF IInv, JobInv
  <2>2. ASSUME NEW d \in Channels PROVE running'[d] <=> (pc' = "exec" /\ job'.channel = d)
    BY <1>a, <1>c, <1>d DEF IInv, TypeOK, AtMostOneJob
  <2>3. ASSUME NEW d \in Channels PROVE callbacks'[d] > 0 <=> (pc' = "callback" /\ job'.channel = d)
    BY <1>a, <1>b, <1>d DEF IInv, TypeOK
  <2> QED
    BY <2>1, <2>2, <2>3 DEF AtMostOneJob
<1>4. WaitInv'
  BY <1>a DEF IInv, WaitInv, UnregisterSleepsOnlyWhileBusy, WorkerNeverOversleeps
<1>5. FlagInv'
  BY <1>d DEF IInv, FlagInv
<1>6. OrderMatchesChannels'
  BY OrderKept DEF IInv
<1> QED
  BY <1>1, <1>2, <1>3, <1>4, <1>5, <1>6 DEF IInv

\* The channel's only callback has ended, and everybody is woken.
LEMMA CallbackReturnKeeps ==
  ASSUME IInv, CallbackReturn
  PROVE  IInv'
<1> USE SchedulerAssumption DEF CallbackReturn, NotifyAll, chanVars, slotVars, flagVars, timerVars, workerVars
<1>a. job.channel \in Channels /\ job.channel \in channels /\ waiters' = {}
  BY DEF IInv, TypeOK, JobInv
<1>b. callbacks' = [callbacks EXCEPT ![job.channel] = 0]
  <2>1. callbacks[job.channel] = 1
    BY <1>a DEF IInv, TypeOK, AtMostOneJob
  <2> QED BY <1>a, <2>1
<1>1. TypeOK'
  BY <1>a, <1>b DEF IInv, TypeOK, NoJob
<1>2. SlotInv'
  BY <1>a, <1>b DEF IInv, TypeOK, SlotInv, Idle
<1>3. JobInv' /\ AtMostOneJob'
  <2>1. \A d \in Channels : callbacks'[d] = 0
    BY <1>a, <1>b DEF IInv, TypeOK, AtMostOneJob
  <2> QED
    BY <1>a, <2>1 DEF IInv, TypeOK, JobInv, AtMostOneJob
<1>4. WaitInv'
  BY <1>a DEF IInv, WaitInv, UnregisterSleepsOnlyWhileBusy, WorkerNeverOversleeps
<1>5. FlagInv'
  BY DEF IInv, FlagInv
<1>6. OrderMatchesChannels'
  BY OrderKept DEF IInv
<1> QED
  BY <1>1, <1>2, <1>3, <1>4, <1>5, <1>6 DEF IInv

\* All deadlines move together.
LEMMA TickKeeps ==
  ASSUME IInv, Tick
  PROVE  IInv'
<1> USE SchedulerAssumption DEF Tick, NotifyAll, chanVars, slotVars, flagVars, timerVars, workerVars
<1>a. \A d \in Channels : eligibleIn'[d] = Minus1(eligibleIn[d])
  OBVIOUS
<1>b. ASSUME NEW d \in Channels
      PROVE  mailbox'[d] = NoFrame <=> mailbox[d] = NoFrame
  <2>1. mailbox[d] \in Int /\ mailbox[d] >= NoFrame /\ NoFrame = -1
    BY DEF IInv, TypeOK, NoFrame
  <2>2. mailbox'[d] = IF mailbox[d] = NoFrame \/ mailbox[d] > MaxFrameAge
                        THEN mailbox[d] ELSE mailbox[d] + 1
    OBVIOUS
  <2>3. mailbox[d] # NoFrame => mailbox[d] + 1 # NoFrame
    BY <2>1
  <2> QED
    BY <2>2, <2>3, Zenon
<1>1. TypeOK'
  <2>1. mailbox' \in [Channels -> NoFrame .. MaxFrameAge + 1]
    <3>1. mailbox \in [Channels -> NoFrame .. MaxFrameAge + 1]
      BY DEF IInv, TypeOK
    <3>2. ASSUME NEW d \in Channels
          PROVE  (IF mailbox[d] = NoFrame \/ mailbox[d] > MaxFrameAge
                    THEN mailbox[d] ELSE mailbox[d] + 1) \in NoFrame .. MaxFrameAge + 1
      BY <3>1, AgeInRange
    <3> QED BY <3>2
  <2>2. eligibleIn' \in [Channels -> Nat] /\ statsIn' \in Nat /\ wakeIn' \in Nat
    BY SMTT(20) DEF IInv, TypeOK, Minus1
  <2> QED
    BY <2>1, <2>2 DEF IInv, TypeOK
<1>2. SlotInv'
  BY <1>b DEF IInv, SlotInv, Idle
<1>3. JobInv' /\ AtMostOneJob'
  BY DEF IInv, JobInv, AtMostOneJob, NoJob
<1>4. WaitInv'
  <2>1. ASSUME NEW m \in Nat, NEW n \in Nat, m <= n PROVE Minus1(m) <= Minus1(n)
    BY <2>1 DEF Minus1
  <2>2. Worker \in waiters => \A d \in Channels :
          registered[d] /\ mailbox'[d] # NoFrame => wakeIn' <= eligibleIn'[d]
    BY <1>a, <1>b, <2>1 DEF IInv, TypeOK, WaitInv, WorkerNeverOversleeps
  <2>3. Worker \in waiters => wakeIn' <= statsIn'
    BY <2>1 DEF IInv, TypeOK, WaitInv, WorkerNeverOversleeps
  <2> QED
    BY <2>2, <2>3 DEF IInv, WaitInv, UnregisterSleepsOnlyWhileBusy, WorkerNeverOversleeps, Idle
<1>5. FlagInv'
  BY <1>b DEF IInv, FlagInv
<1>6. OrderMatchesChannels'
  BY OrderKept DEF IInv
<1> QED
  BY <1>1, <1>2, <1>3, <1>4, <1>5, <1>6 DEF IInv

\* One sleeper fewer.
LEMMA SpuriousWakeupKeeps ==
  ASSUME IInv, NEW t \in Channels \cup {Worker}, SpuriousWakeup(t)
  PROVE  IInv'
<1> USE SchedulerAssumption DEF SpuriousWakeup, NotifyAll, chanVars, slotVars, flagVars, timerVars, workerVars
<1>1. TypeOK'
  BY DEF IInv, TypeOK, NoFrame
<1>2. SlotInv'
  BY DEF IInv, SlotInv, Idle
<1>3. JobInv' /\ AtMostOneJob'
  BY DEF IInv, JobInv, AtMostOneJob, NoJob
<1>4. WaitInv'
  BY DEF IInv, WaitInv, UnregisterSleepsOnlyWhileBusy, WorkerNeverOversleeps, Idle
<1>5. FlagInv'
  BY DEF IInv, FlagInv
<1>6. OrderMatchesChannels'
  BY OrderKept DEF IInv
<1> QED
  BY <1>1, <1>2, <1>3, <1>4, <1>5, <1>6 DEF IInv

\* Nothing at all happens.
LEMMA StutterKeeps ==
  ASSUME IInv, UNCHANGED vars
  PROVE  IInv'
<1> USE SchedulerAssumption DEF vars, chanVars, slotVars, flagVars, timerVars, workerVars
<1>1. TypeOK'
  BY DEF IInv, TypeOK, NoFrame
<1>2. SlotInv'
  BY DEF IInv, SlotInv, Idle
<1>3. JobInv' /\ AtMostOneJob'
  BY DEF IInv, JobInv, AtMostOneJob, NoJob
<1>4. WaitInv'
  BY DEF IInv, WaitInv, UnregisterSleepsOnlyWhileBusy, WorkerNeverOversleeps, Idle
<1>5. FlagInv'
  BY DEF IInv, FlagInv
<1>6. OrderMatchesChannels'
  BY OrderKept DEF IInv
<1> QED
  BY <1>1, <1>2, <1>3, <1>4, <1>5, <1>6 DEF IInv

-----------------------------------------------------------------------------
(* The theorems.                                                           *)

\* The inductive invariant holds in every reachable state.
THEOREM Invariance == Spec => []IInv
<1>1. IInv /\ [Next]_vars => IInv'
  <2> SUFFICES ASSUME IInv, [Next]_vars PROVE IInv'
    OBVIOUS
  <2>1. CASE \E c \in Channels : \E withCompletion \in BOOLEAN : Register(c, withCompletion)
    BY <2>1, RegisterKeeps
  <2>2. CASE \E c \in Channels : \E frameAge \in 0 .. MaxFrameAge + 1 : Submit(c, frameAge)
    BY <2>2, SubmitKeeps
  <2>3. CASE \E c \in Channels : Unregister(c)
    BY <2>3, UnregisterKeeps
  <2>4. CASE \E c \in Channels : UnregisterRecheck(c)
    BY <2>4, UnregisterRecheckKeeps
  <2>5. CASE Start \/ StopRequest \/ StopNotify \/ StopJoin
    BY <2>5, StartKeeps, StopRequestKeeps, StopNotifyKeeps, StopJoinKeeps
  <2>6. CASE WorkerStep
    BY <2>6, WorkerExitKeeps, WorkerDispatchKeeps, WorkerSleepKeeps, WorkerTimeoutKeeps,
       WorkerFinishKeeps, CallbackReturnKeeps DEF WorkerStep
  <2>7. CASE Tick
    BY <2>7, TickKeeps
  <2>8. CASE \E t \in Channels \cup {Worker} : SpuriousWakeup(t)
    BY <2>8, SpuriousWakeupKeeps
  <2>9. CASE UNCHANGED vars
    BY <2>9, StutterKeeps
  <2> QED
    BY <2>1, <2>2, <2>3, <2>4, <2>5, <2>6, <2>7, <2>8, <2>9 DEF Next
<1> QED
  BY <1>1, InitIInv, PTL DEF Spec

\* Every variable stays in its range, whatever the channels and rates are.
THEOREM TypeCorrect == Spec => []TypeOK
BY Invariance, PTL DEF IInv

\* The executor never holds a job of a registration that is gone.
THEOREM NoOrphanJob == Spec => []JobBelongsToItsRegistration
<1>1. IInv => JobBelongsToItsRegistration
  BY DEF IInv, TypeOK, JobInv, AtMostOneJob, JobBelongsToItsRegistration
<1> QED
  BY <1>1, Invariance, PTL

\* No completion callback runs after unregister_channel returned.
THEOREM NoCallbackAfterUnregister == Spec => []CallbackOnlyToLiveOwner
<1>1. IInv => CallbackOnlyToLiveOwner
  BY DEF IInv, JobInv, CallbackOnlyToLiveOwner
<1> QED
  BY <1>1, Invariance, PTL

\* At most one frame is being inferred in the whole process.
THEOREM GlobalSerial == Spec => []AtMostOneJob
BY Invariance, PTL DEF IInv

\* The three together: what unregister_channel promises its caller.
THEOREM OwnersOutliveJobs == Spec => []OneJobOfALiveOwner
BY NoOrphanJob, NoCallbackAfterUnregister, GlobalSerial, PTL DEF OneJobOfALiveOwner

\* Neither the worker nor a caller of unregister_channel misses its wakeup,
\* although submit wakes only one of the threads on the condition variable.
THEOREM NoLostWakeup == Spec => []NoSleeperIsForgotten
<1>1. IInv => NoSleeperIsForgotten
  BY DEF IInv, WaitInv, NoSleeperIsForgotten
<1> QED
  BY <1>1, Invariance, PTL

\* A stopped scheduler is empty.
THEOREM StoppedIsQuiescent == Spec => []QuiescentWhenStopped
<1>1. IInv => QuiescentWhenStopped
  BY DEF IInv, TypeOK, FlagInv, AtMostOneJob, QuiescentWhenStopped, Idle
<1> QED
  BY <1>1, Invariance, PTL

\* The round robin order is a duplicate-free list of the registered channels.
THEOREM OrderConsistent == Spec => []OrderMatchesChannels
BY Invariance, PTL DEF IInv

\* A stop drains the scheduler: no callback starts once it is requested, stop
\* returns after the last, and nothing is left behind.
THEOREM StopDrains == Spec => StopLeavesNothing
<1>1. IInv /\ [Next]_vars =>
        [/\ pc # "callback" /\ pc' = "callback" => ~stopRequested
         /\ stopPc = "join" /\ stopPc' = "idle" => pc \notin {"exec", "callback"}]_vars
  <2> SUFFICES ASSUME IInv, Next,
                      \/ pc # "callback" /\ pc' = "callback"
                      \/ stopPc = "join" /\ stopPc' = "idle"
               PROVE  /\ pc # "callback" /\ pc' = "callback" => ~stopRequested
                      /\ stopPc = "join" /\ stopPc' = "idle" => pc \notin {"exec", "callback"}
    OBVIOUS
  <2>1. WorkerFinish \/ StopJoin
    BY DEF Next, WorkerStep, Register, Submit, Unregister, UnregisterRecheck, Start, StopRequest,
           StopNotify, WorkerExit, WorkerDispatch, WorkerSleep, WorkerTimeout, CallbackReturn,
           Tick, SpuriousWakeup, workerVars
  <2> QED
    BY <2>1 DEF WorkerFinish, MayCallBack, StopJoin, workerVars, IInv, FlagInv
<1> QED
  BY <1>1, Invariance, StoppedIsQuiescent, PTL DEF Spec, NoCallbackAfterStop, StopLeavesNothing

-----------------------------------------------------------------------------
(***************************************************************************)
(* NpuScheduler implements NpuService: with the channels_ map as the open  *)
(* channels, the mailboxes as the waiting frames and the worker's job as   *)
(* the frame being served, every step is a step of the service or none.    *)
(***************************************************************************)

Mail == {c \in Channels : mailbox[c] # NoFrame}

\* The service's view of a step, spelled out.
LEMMA ServiceVarsUnchanged ==
  ASSUME channels' = channels, Mail' = Mail, job' = job, pc' = pc
  PROVE  UNCHANGED Service!svars
BY DEF Service!svars, Mail

\* A step that only empties mailboxes gives frames up.
LEMMA DiscardStep ==
  ASSUME Mail' \subseteq Mail, Mail \subseteq Channels,
         channels' = channels, job' = job,
         (pc' = "callback") <=> (pc = "callback")
  PROVE  [Service!Next]_Service!svars
<1>1. PICK S \in SUBSET Channels : Mail' = Mail \ S
  <2>1. Mail \ Mail' \in SUBSET Channels /\ Mail' = Mail \ (Mail \ Mail')
    OBVIOUS
  <2> QED BY <2>1
<1>2. Service!Discard(S)
  BY <1>1 DEF Service!Discard, Mail
<1> QED
  BY <1>1, <1>2 DEF Service!Next

\* Leaving the map while the worker is elsewhere closes the channel.
LEMMA CloseStep ==
  ASSUME IInv, NEW c \in Channels, c \in channels, Idle(c),
         channels' = channels \ {c}, Mail' = Mail \ {c}, job' = job, pc' = pc
  PROVE  Service!Next
<1>1. job.channel # c
  BY SchedulerAssumption DEF IInv, TypeOK, JobInv, AtMostOneJob, Idle, NoJob
<1>2. Service!Close(c)
  BY <1>1 DEF Service!Close, Mail
<1> QED
  BY <1>2 DEF Service!Next

\* The scheduler starts where the service does.
LEMMA InitService == Init => Service!Init
BY DEF Init, Service!Init, NoJob, NoFrame

\* Calls of the channels.
LEMMA CallerSteps ==
  ASSUME IInv, NEW c \in Channels,
         \/ \E withCompletion \in BOOLEAN : Register(c, withCompletion)
         \/ \E frameAge \in 0 .. MaxFrameAge + 1 : Submit(c, frameAge)
         \/ Unregister(c)
         \/ UnregisterRecheck(c)
  PROVE  [Service!Next]_Service!svars
<1>0. Mail \subseteq Channels /\ mailbox \in [Channels -> NoFrame .. MaxFrameAge + 1]
  BY DEF Mail, IInv, TypeOK
<1>1. CASE \E withCompletion \in BOOLEAN : Register(c, withCompletion)
  <2>1. PICK withCompletion \in BOOLEAN : Register(c, withCompletion)
    BY <1>1
  <2>2. mailbox[c] = NoFrame
    BY <2>1 DEF Register, IInv, SlotInv
  <2>3. Mail' = Mail
    BY <1>0, <2>1, <2>2 DEF Register, Mail
  <2>4. Service!Open(c)
    BY <2>1, <2>3 DEF Register, Service!Open, Mail, workerVars
  <2> QED
    BY <2>4 DEF Service!Next
<1>2. CASE \E frameAge \in 0 .. MaxFrameAge + 1 : Submit(c, frameAge)
  <2>1. PICK frameAge \in 0 .. MaxFrameAge + 1 : Submit(c, frameAge)
    BY <1>2
  <2>2. frameAge # NoFrame
    BY SchedulerAssumption DEF NoFrame
  <2>3. Mail' = Mail \cup {c}
    BY <1>0, <2>1, <2>2 DEF Submit, Mail
  <2>4. Service!Put(c)
    BY <2>1, <2>3 DEF Submit, Service!Put, Mail, chanVars, workerVars
  <2> QED
    BY <2>4 DEF Service!Next
<1>3. CASE Unregister(c)
  <2>1. Mail' = Mail \ {c}
    BY <1>0, <1>3 DEF Unregister, Mail
  <2>2. CASE Idle(c)
    BY <1>3, <2>1, <2>2, CloseStep DEF Unregister, Erase, workerVars
  <2>3. CASE ~Idle(c)
    BY <1>0, <1>3, <2>1, <2>3, DiscardStep DEF Unregister, chanVars, workerVars
  <2> QED
    BY <2>2, <2>3
<1>4. CASE UnregisterRecheck(c)
  <2>1. Mail' = Mail /\ c \notin Mail
    BY <1>4 DEF UnregisterRecheck, Mail, slotVars, IInv, SlotInv
  <2>2. CASE Idle(c)
    BY <1>4, <2>1, <2>2, CloseStep DEF UnregisterRecheck, Erase, workerVars
  <2>3. CASE ~Idle(c)
    BY <1>4, <2>1, <2>3, ServiceVarsUnchanged DEF UnregisterRecheck, chanVars, workerVars
  <2> QED
    BY <2>2, <2>3
<1> QED
  BY <1>1, <1>2, <1>3, <1>4

\* Steps of the worker.
LEMMA WorkerSteps ==
  ASSUME IInv, WorkerStep
  PROVE  [Service!Next]_Service!svars
<1>0. Mail \subseteq Channels /\ mailbox \in [Channels -> NoFrame .. MaxFrameAge + 1]
  BY DEF Mail, IInv, TypeOK
<1>1. CASE WorkerExit
  <2>1. Mail' = Mail
    BY <1>1 DEF WorkerExit, Mail, slotVars
  <2> QED
    BY <1>0, <1>1, <2>1, DiscardStep DEF WorkerExit, Awake, chanVars
<1>2. CASE WorkerDispatch
  <2>1. PICK offset \in 0 .. Len(order) - 1 :
          LET c == ScanAt(offset) IN
          /\ FirstReady(offset)
          /\ job' = [channel |-> c, completion |-> completion[c]]
          /\ mailbox' = [AfterStaleDrop EXCEPT ![c] = NoFrame]
    BY <1>2 DEF WorkerDispatch
  <2> DEFINE c == ScanAt(offset)
  <2>2. Len(order) \in Nat \ {0} /\ order \in Seq(Channels) /\ nextRR \in Nat
    BY DEF IInv, TypeOK
  <2>3. c \in Channels /\ c \in channels
    <3>1. (nextRR + offset) % Len(order) \in 0 .. Len(order) - 1
      BY <2>2
    <3>2. ((nextRR + offset) % Len(order)) + 1 \in 1 .. Len(order)
      BY <2>2, <3>1
    <3> QED BY <2>2, <3>2 DEF ScanAt, IInv, OrderMatchesChannels
  <2>4. /\ AfterStaleDrop[c] # NoFrame
        /\ job'.channel = c
        /\ mailbox' = [AfterStaleDrop EXCEPT ![c] = NoFrame]
    BY <2>1 DEF FirstReady, Ready, Candidate
  <2> HIDE DEF c
  <2>5. c \in Mail
    BY <2>3, <2>4 DEF AfterStaleDrop, Mail
  <2>6. Mail' \subseteq Mail /\ c \notin Mail'
    BY <2>3, <2>4 DEF AfterStaleDrop, Mail
  <2>7. PICK S \in SUBSET Channels : Mail' = Mail \ (S \cup {job'.channel})
    <3>1. Mail \ Mail' \in SUBSET Channels /\ Mail' = Mail \ ((Mail \ Mail') \cup {job'.channel})
      BY <1>0, <2>4, <2>6
    <3> QED BY <3>1
  <2>8. job.channel = None /\ pc # "callback" /\ pc' # "callback" /\ channels' = channels
    BY <1>2 DEF WorkerDispatch, Awake, IInv, JobInv, NoJob
  <2>9. PICK d \in Channels : d = job'.channel
    BY <2>3, <2>4
  <2>10. Service!Take(d, S)
    BY <2>3, <2>4, <2>5, <2>7, <2>8, <2>9 DEF Service!Take, Mail
  <2> QED
    BY <2>10 DEF Service!Next
<1>3. CASE WorkerSleep
  <2>1. Mail' \subseteq Mail
    BY <1>3 DEF WorkerSleep, AfterStaleDrop, Mail
  <2> QED
    BY <1>0, <1>3, <2>1, DiscardStep DEF WorkerSleep, workerVars
<1>4. CASE WorkerTimeout
  <2>1. Mail' = Mail
    BY <1>4 DEF WorkerTimeout, Mail, slotVars
  <2> QED
    BY <1>4, <2>1, ServiceVarsUnchanged DEF WorkerTimeout, chanVars, workerVars
<1>5. CASE WorkerFinish
  <2>1. /\ job.channel \in channels /\ pc = "exec"
        /\ channels' = channels /\ mailbox' = mailbox
    BY <1>5 DEF WorkerFinish, IInv, JobInv, chanVars
  <2>2. job.channel \in Channels
    BY <2>1 DEF IInv, TypeOK
  <2>3. CASE MayCallBack(job.channel)
    <3>1. pc' = "callback" /\ job' = job
      BY <1>5, <2>1, <2>3 DEF WorkerFinish
    <3>2. Service!Answer
      BY <2>1, <3>1 DEF Service!Answer, Mail
    <3> QED BY <3>2 DEF Service!Next
  <2>4. CASE ~MayCallBack(job.channel)
    <3>1. pc' = "loop" /\ job' = NoJob
      BY <1>5, <2>1, <2>4 DEF WorkerFinish
    <3>2. Service!Finish
      BY SchedulerAssumption, <2>1, <2>2, <3>1 DEF Service!Finish, NoJob
    <3> QED BY <3>2 DEF Service!Next
  <2> QED
    BY <2>3, <2>4
<1>6. CASE CallbackReturn
  <2>1. job.channel \in channels /\ job.channel \in Channels
    BY <1>6 DEF CallbackReturn, IInv, TypeOK, JobInv
  <2>2. Service!Finish
    BY SchedulerAssumption, <1>6, <2>1 DEF CallbackReturn, Service!Finish, NoJob, chanVars
  <2> QED
    BY <2>2 DEF Service!Next
<1> QED
  BY <1>1, <1>2, <1>3, <1>4, <1>5, <1>6 DEF WorkerStep

\* Starting and stopping, the clock, and wakeups out of nowhere.
LEMMA OtherSteps ==
  ASSUME IInv,
         \/ Start \/ StopRequest \/ StopNotify \/ StopJoin \/ Tick
         \/ \E t \in Channels \cup {Worker} : SpuriousWakeup(t)
         \/ UNCHANGED vars
  PROVE  [Service!Next]_Service!svars
<1>0. Mail \subseteq Channels /\ mailbox \in [Channels -> NoFrame .. MaxFrameAge + 1]
  BY DEF Mail, IInv, TypeOK
<1>1. Mail' \subseteq Mail
  <2>1. CASE Tick
    BY <1>0, <2>1, SchedulerAssumption DEF Tick, Mail, NoFrame
  <2>2. CASE StopRequest
    BY <2>2 DEF StopRequest, Mail
  <2>3. CASE mailbox' = mailbox
    BY <2>3 DEF Mail
  <2> QED
    BY <2>1, <2>2, <2>3 DEF Start, StopNotify, StopJoin, SpuriousWakeup, vars, slotVars
<1>2. /\ channels' = channels /\ job' = job
      /\ (pc' = "callback") <=> (pc = "callback")
  BY DEF Start, StopRequest, StopNotify, StopJoin, Tick, SpuriousWakeup, vars, chanVars,
         workerVars, IInv, FlagInv
<1> QED
  BY <1>0, <1>1, <1>2, DiscardStep

\* The scheduler implements the service.
THEOREM SchedulerImplementsService == Spec => ImplementsService
<1>1. IInv /\ [Next]_vars => [Service!Next]_Service!svars
  BY CallerSteps, WorkerSteps, OtherSteps DEF Next
<1> QED
  BY <1>1, InitService, Invariance, PTL DEF Spec, ImplementsService, Service!Spec

-----------------------------------------------------------------------------
(***************************************************************************)
(* The counters.  A window of the statistics begins with the frames then   *)
(* pending; totals are compared with what channels have counted unit by    *)
(* unit, so that an unregistration only takes units away.                  *)
(***************************************************************************)

StatsTypeOK ==
  /\ stat \in [Channels -> [Counters -> Nat]]
  /\ total \in [Totals -> Nat]
  /\ carried \in [Channels -> Nat]
  /\ discarded \in [Channels -> Nat]

\* In this form the totals cover the channels step by step.
Covered(k) ==
  /\ IsFiniteSet(CountedByChannels(k))
  /\ Cardinality(CountedByChannels(k)) <= total[k]

StatsInv ==
  /\ StatsTypeOK
  /\ EveryFrameExplained
  /\ EveryJobExplained
  /\ \A k \in Totals : Covered(k)

\* Every counted step is a step of the scheduler.
LEMMA CountedStep == StatsNext => Next
BY DEF StatsNext, Next, WorkerStep, CountRegister, CountSubmit, CountUnregister,
       CountStopRequest, CountDispatch, CountSleep, CountFinish

\* So the counters do not change what the scheduler does.
LEMMA CountingSchedules == StatsSpec => Spec
<1>1. StatsInit => Init
  BY DEF StatsInit
<1>2. [StatsNext]_<<vars, statVars>> => [Next]_vars
  BY CountedStep
<1> QED
  BY <1>1, <1>2, PTL DEF StatsSpec, Spec

\* What a condition adds to a counter.
LEMMA OneIsANumber ==
  ASSUME NEW b
  PROVE  One(b) \in {0, 1} /\ (b => One(b) = 1) /\ (~b => One(b) = 0)
BY DEF One

-----------------------------------------------------------------------------
(* Types. *)

\* The names of the counters.
LEMMA CountersAre ==
  /\ {"received", "mailbox_replaced", "stale_dropped", "dispatched", "completed", "failed"}
       = Counters
  /\ Totals \subseteq Counters
  /\ NoStats \in [Counters -> Nat] /\ NoTotals \in [Totals -> Nat]
BY DEF Counters, Totals, NoStats, NoTotals

\* An iteration counts the stale frame of a channel, and nothing else of it.
LEMMA AfterStaleType ==
  ASSUME StatsTypeOK, NEW c \in Channels
  PROVE  /\ AfterStale(c) \in [Counters -> Nat]
         /\ StatsOfWindow(c) \in [Counters -> Nat]
         /\ AfterStale(c)["stale_dropped"] = StatsOfWindow(c)["stale_dropped"] + One(StaleNow(c))
         /\ \A k \in Counters \ {"stale_dropped"} : AfterStale(c)[k] = StatsOfWindow(c)[k]
<1>1. StatsOfWindow(c) \in [Counters -> Nat]
  BY CountersAre DEF StatsOfWindow, StatsTypeOK
<1>2. One(StaleNow(c)) \in Nat
  BY DEF One
<1> QED
  BY <1>1, <1>2, CountersAre DEF AfterStale

\* At first nothing is counted.
LEMMA ExplainedInitially == StatsInit => StatsInv
<1> SUFFICES ASSUME StatsInit PROVE StatsInv
  OBVIOUS
<1>1. StatsTypeOK
  BY CountersAre DEF StatsInit, StatsTypeOK
<1>2. channels = {} /\ pc = "off" /\ total = NoTotals
  BY DEF StatsInit, Init
<1>3. EveryFrameExplained
  BY <1>2 DEF EveryFrameExplained
<1>4. EveryJobExplained
  BY <1>2 DEF EveryJobExplained, NoTotals, Totals, One
<1>5. ASSUME NEW k \in Totals PROVE Covered(k)
  <2>1. CountedByChannels(k) = {}
    BY <1>2 DEF CountedByChannels
  <2> QED
    BY <1>1, <2>1, FS_EmptySet DEF Covered, StatsTypeOK
<1> QED
  BY <1>1, <1>3, <1>4, <1>5 DEF StatsInv

-----------------------------------------------------------------------------
(* The steps, types and equations per channel. *)

\* Steps that count nothing: nothing pending comes or goes, no job starts or ends.
LEMMA QuietStep ==
  ASSUME StatsInv, UNCHANGED <<statVars, running>>,
         channels' \subseteq channels, channels \subseteq Channels,
         \A c \in channels' : Pending(c)' = Pending(c),
         (pc' = "exec") <=> (pc = "exec")
  PROVE  /\ StatsTypeOK' /\ EveryFrameExplained' /\ EveryJobExplained'
         /\ \A k \in Totals : CountedByChannels(k)' \subseteq CountedByChannels(k)
<1> USE DEF statVars
<1>1. StatsTypeOK'
  BY DEF StatsInv, StatsTypeOK
<1>2. EveryFrameExplained'
  BY DEF StatsInv, EveryFrameExplained, One
<1>3. EveryJobExplained'
  BY DEF StatsInv, EveryJobExplained, One
<1>4. \A k \in Totals : CountedByChannels(k)' \subseteq CountedByChannels(k)
  BY DEF CountedByChannels
<1> QED
  BY <1>1, <1>2, <1>3, <1>4

\* A fresh channel has counted nothing.
LEMMA CountRegisterExplained ==
  ASSUME IInv, StatsInv, NEW c \in Channels, CountRegister(c)
  PROVE  /\ StatsTypeOK' /\ EveryFrameExplained' /\ EveryJobExplained'
         /\ \A k \in Totals : CountedByChannels(k)' \subseteq CountedByChannels(k)
<1>0. /\ channels' = channels \cup {c} /\ c \notin channels /\ channels \subseteq Channels
      /\ mailbox \in [Channels -> NoFrame .. MaxFrameAge + 1]
      /\ running \in [Channels -> BOOLEAN]
      /\ mailbox' = [mailbox EXCEPT ![c] = NoFrame]
      /\ running' = [running EXCEPT ![c] = FALSE]
      /\ stat' = [stat EXCEPT ![c] = NoStats]
      /\ carried' = [carried EXCEPT ![c] = 0]
      /\ discarded' = [discarded EXCEPT ![c] = 0]
      /\ UNCHANGED <<total, pc>>
  BY DEF CountRegister, Register, workerVars, IInv, TypeOK
<1>1. StatsTypeOK'
  BY <1>0, CountersAre DEF StatsInv, StatsTypeOK
<1>2. /\ stat'[c] = NoStats /\ carried'[c] = 0 /\ discarded'[c] = 0
      /\ ~Pending(c)' /\ ~running'[c]
  BY <1>0 DEF StatsInv, StatsTypeOK, Pending
<1>3. ASSUME NEW d \in channels
      PROVE  /\ stat'[d] = stat[d] /\ carried'[d] = carried[d] /\ discarded'[d] = discarded[d]
             /\ Pending(d)' = Pending(d) /\ running'[d] = running[d]
  BY <1>0 DEF StatsInv, StatsTypeOK, Pending
<1>4. EveryFrameExplained'
  BY <1>0, <1>2, <1>3 DEF StatsInv, EveryFrameExplained, One, Pending, NoStats, Counters
<1>5. EveryJobExplained'
  BY <1>0, <1>2, <1>3 DEF StatsInv, EveryJobExplained, One, NoStats, Counters
<1>6. ASSUME NEW k \in Totals
      PROVE  CountedByChannels(k)' \subseteq CountedByChannels(k)
  <2>1. stat'[c][k] = 0
    BY <1>2 DEF NoStats, Totals, Counters
  <2> QED
    BY <1>0, <1>3, <2>1 DEF CountedByChannels
<1> QED
  BY <1>1, <1>4, <1>5, <1>6

\* A submitted frame is pending, and what it overwrote is replaced.
LEMMA CountSubmitExplained ==
  ASSUME IInv, StatsInv, NEW c \in Channels, NEW frameAge \in 0 .. MaxFrameAge + 1,
         CountSubmit(c, frameAge)
  PROVE  /\ StatsTypeOK' /\ EveryFrameExplained' /\ EveryJobExplained'
         /\ total' = [total EXCEPT !["mailbox_replaced"] = @ + One(Pending(c))]
         /\ \A k \in Totals : CountedByChannels(k)' \subseteq CountedByChannels(k)
              \cup (IF k = "mailbox_replaced" /\ Pending(c) THEN {<<c, stat[c][k] + 1>>} ELSE {})
<1>0. /\ channels \subseteq Channels
      /\ mailbox \in [Channels -> NoFrame .. MaxFrameAge + 1]
      /\ mailbox' = [mailbox EXCEPT ![c] = frameAge]
      /\ UNCHANGED <<channels, running, pc, carried, discarded>>
      /\ stat' = [stat EXCEPT ![c].received = @ + 1, ![c].mailbox_replaced = @ + One(Pending(c))]
      /\ total' = [total EXCEPT !.mailbox_replaced = @ + One(Pending(c))]
  BY DEF CountSubmit, Submit, chanVars, workerVars, IInv, TypeOK
<1>a. One(Pending(c)) \in Nat
  BY DEF One
<1>1. /\ stat'[c] \in [Counters -> Nat]
      /\ stat'[c]["received"] = stat[c]["received"] + 1
      /\ stat'[c]["mailbox_replaced"] = stat[c]["mailbox_replaced"] + One(Pending(c))
      /\ \A k \in Counters \ {"received", "mailbox_replaced"} : stat'[c][k] = stat[c][k]
      /\ \A d \in Channels \ {c} : stat'[d] = stat[d]
      /\ stat' \in [Channels -> [Counters -> Nat]]
  <2> DEFINE more == [stat[c] EXCEPT !.received = @ + 1, !.mailbox_replaced = @ + One(Pending(c))]
  <2>1. stat \in [Channels -> [Counters -> Nat]]
    BY DEF StatsInv, StatsTypeOK
  <2>2. stat' = [stat EXCEPT ![c] = more]
    BY <1>0, <2>1
  <2>3. /\ more \in [Counters -> Nat]
        /\ more["received"] = stat[c]["received"] + 1
        /\ more["mailbox_replaced"] = stat[c]["mailbox_replaced"] + One(Pending(c))
        /\ \A k \in Counters \ {"received", "mailbox_replaced"} : more[k] = stat[c][k]
    <3> DEFINE first == [stat[c] EXCEPT !["received"] = stat[c]["received"] + 1]
    <3>1. /\ first \in [Counters -> Nat]
          /\ first["received"] = stat[c]["received"] + 1
          /\ \A k \in Counters \ {"received"} : first[k] = stat[c][k]
      BY <2>1, CountersAre
    <3>2. more = [first EXCEPT !["mailbox_replaced"] = first["mailbox_replaced"] + One(Pending(c))]
      OBVIOUS
    <3> HIDE DEF first, more
    <3> QED
      BY <1>a, <3>1, <3>2, CountersAre
  <2> QED
    BY <2>1, <2>2, <2>3
<1>2. StatsTypeOK'
  BY <1>0, <1>1, <1>a, CountersAre DEF StatsInv, StatsTypeOK, Totals
<1>3. /\ Pending(c)'
      /\ \A d \in Channels \ {c} : Pending(d)' = Pending(d)
  BY <1>0, SchedulerAssumption DEF Pending, NoFrame
<1>4. EveryFrameExplained'
  <2> SUFFICES ASSUME NEW d \in channels
               PROVE  carried[d] + stat'[d].received =
                        stat'[d].mailbox_replaced + stat'[d].stale_dropped + stat'[d].dispatched
                          + discarded[d] + One(Pending(d)')
    BY <1>0 DEF EveryFrameExplained
  <2>1. /\ carried[d] + stat[d].received =
             stat[d].mailbox_replaced + stat[d].stale_dropped + stat[d].dispatched
               + discarded[d] + One(Pending(d))
        /\ carried[d] \in Nat /\ discarded[d] \in Nat /\ stat[d] \in [Counters -> Nat]
    BY <1>0 DEF StatsInv, EveryFrameExplained, StatsTypeOK
  <2>2. CASE d = c
    BY <1>1, <1>3, <2>1, <2>2, CountersAre DEF One, Pending
  <2>3. CASE d # c
    BY <1>0, <1>1, <1>3, <2>1, <2>3 DEF One, Pending
  <2> QED
    BY <2>2, <2>3
<1>5. EveryJobExplained'
  BY <1>0, <1>1, CountersAre DEF StatsInv, StatsTypeOK, EveryJobExplained, Totals, One
<1>6. ASSUME NEW k \in Totals
      PROVE  CountedByChannels(k)' \subseteq CountedByChannels(k)
              \cup (IF k = "mailbox_replaced" /\ Pending(c) THEN {<<c, stat[c][k] + 1>>} ELSE {})
  <2>1. stat[c][k] \in Nat
    BY CountersAre DEF StatsInv, StatsTypeOK
  <2>2. stat'[c][k] = IF k = "mailbox_replaced" /\ Pending(c) THEN stat[c][k] + 1 ELSE stat[c][k]
    BY <1>1, CountersAre DEF Totals, One, StatsInv, StatsTypeOK
  <2> QED
    BY <1>0, <1>1, <2>1, <2>2 DEF CountedByChannels
<1> QED
  BY <1>0, <1>2, <1>4, <1>5, <1>6

\* Frames that an unregistration or a stop gives up are discarded.
LEMMA DiscardExplained ==
  ASSUME StatsInv, UNCHANGED <<stat, total, carried, running>>,
         channels' \subseteq channels, channels \subseteq Channels,
         (pc' = "exec") <=> (pc = "exec"),
         discarded' \in [Channels -> Nat],
         \A c \in channels' :
           discarded'[c] + One(Pending(c)') = discarded[c] + One(Pending(c))
  PROVE  /\ StatsTypeOK' /\ EveryFrameExplained' /\ EveryJobExplained'
         /\ \A k \in Totals : CountedByChannels(k)' \subseteq CountedByChannels(k)
<1>1. StatsTypeOK'
  BY DEF StatsInv, StatsTypeOK
<1>2. EveryFrameExplained'
  <2> SUFFICES ASSUME NEW c \in channels'
               PROVE  carried[c] + stat[c].received =
                        stat[c].mailbox_replaced + stat[c].stale_dropped + stat[c].dispatched
                          + discarded'[c] + One(Pending(c)')
    BY DEF EveryFrameExplained, One, Pending
  <2>1. /\ carried[c] + stat[c].received =
             stat[c].mailbox_replaced + stat[c].stale_dropped + stat[c].dispatched
               + discarded[c] + One(Pending(c))
        /\ discarded'[c] + One(Pending(c)') = discarded[c] + One(Pending(c))
        /\ discarded[c] \in Nat /\ discarded'[c] \in Nat /\ stat[c] \in [Counters -> Nat]
    BY DEF StatsInv, EveryFrameExplained, StatsTypeOK
  <2> QED
    BY <2>1, CountersAre DEF One, Pending
<1>3. EveryJobExplained'
  BY DEF StatsInv, EveryJobExplained, One
<1>4. \A k \in Totals : CountedByChannels(k)' \subseteq CountedByChannels(k)
  BY DEF CountedByChannels
<1> QED
  BY <1>1, <1>2, <1>3, <1>4

\* Unregistering erases the waiting frame with the counters of the channel.
LEMMA CountUnregisterExplained ==
  ASSUME IInv, StatsInv, NEW c \in Channels, CountUnregister(c)
  PROVE  /\ StatsTypeOK' /\ EveryFrameExplained' /\ EveryJobExplained' /\ total' = total
         /\ \A k \in Totals : CountedByChannels(k)' \subseteq CountedByChannels(k)
<1>0. /\ channels \subseteq Channels
      /\ mailbox \in [Channels -> NoFrame .. MaxFrameAge + 1]
      /\ mailbox' = [mailbox EXCEPT ![c] = NoFrame]
      /\ UNCHANGED <<running, pc, stat, total, carried>>
      /\ channels' \subseteq channels
      /\ discarded \in [Channels -> Nat]
      /\ discarded' = [discarded EXCEPT ![c] = @ + One(Pending(c))]
  BY DEF CountUnregister, Unregister, Erase, chanVars, workerVars, IInv, TypeOK, StatsInv,
         StatsTypeOK
<1>1. One(Pending(c)) \in Nat
  BY DEF One
<1>2. discarded' \in [Channels -> Nat]
  BY <1>0, <1>1
<1>3. ASSUME NEW d \in channels'
      PROVE  discarded'[d] + One(Pending(d)') = discarded[d] + One(Pending(d))
  BY <1>0 DEF Pending, One
<1> QED
  BY <1>0, <1>2, <1>3, DiscardExplained

\* A stop accounts for the frames it throws away.
LEMMA CountStopExplained ==
  ASSUME IInv, StatsInv, CountStopRequest
  PROVE  /\ StatsTypeOK' /\ EveryFrameExplained' /\ EveryJobExplained' /\ total' = total
         /\ \A k \in Totals : CountedByChannels(k)' \subseteq CountedByChannels(k)
<1>0. /\ channels \subseteq Channels
      /\ mailbox' = [c \in Channels |-> NoFrame]
      /\ UNCHANGED <<channels, running, pc, stat, total, carried>>
      /\ discarded \in [Channels -> Nat]
      /\ discarded' = [c \in Channels |-> discarded[c] + One(Pending(c))]
  BY DEF CountStopRequest, CountDiscards, StopRequest, chanVars, workerVars, IInv, TypeOK,
         StatsInv, StatsTypeOK
<1>1. discarded' \in [Channels -> Nat]
  BY <1>0 DEF One
<1>2. ASSUME NEW d \in channels'
      PROVE  discarded'[d] + One(Pending(d)') = discarded[d] + One(Pending(d))
  BY <1>0 DEF Pending, One
<1> QED
  BY <1>0, <1>1, <1>2, DiscardExplained

\* A job that ends has completed or failed.
LEMMA CountFinishExplained ==
  ASSUME IInv, StatsInv, NEW success \in BOOLEAN, CountFinish(success)
  PROVE  /\ StatsTypeOK' /\ EveryFrameExplained' /\ EveryJobExplained'
         /\ \E j \in {"completed", "failed"} :
              /\ total' = [total EXCEPT ![j] = @ + 1]
              /\ \A k \in Totals : CountedByChannels(k)' \subseteq CountedByChannels(k)
                   \cup (IF k = j THEN {<<job.channel, stat[job.channel][k] + 1>>} ELSE {})
<1> DEFINE c == job.channel
           j == IF success THEN "completed" ELSE "failed"
<1>0. /\ c \in channels /\ c \in Channels /\ channels \subseteq Channels
      /\ pc = "exec" /\ pc' # "exec" /\ running[c] /\ running \in [Channels -> BOOLEAN]
      /\ running' = [running EXCEPT ![c] = FALSE]
      /\ UNCHANGED <<channels, mailbox, carried, discarded>>
      /\ stat' = [stat EXCEPT ![c][j] = @ + 1]
      /\ total' = [total EXCEPT ![j] = @ + 1]
  BY DEF CountFinish, WorkerFinish, chanVars, IInv, TypeOK, JobInv, AtMostOneJob
<1>1. /\ j \in Totals \cap Counters /\ j \in {"completed", "failed"}
      /\ stat \in [Channels -> [Counters -> Nat]] /\ total \in [Totals -> Nat]
  BY DEF Totals, Counters, StatsInv, StatsTypeOK
<1> HIDE DEF c, j
<1>2. /\ stat' \in [Channels -> [Counters -> Nat]] /\ total' \in [Totals -> Nat]
      /\ stat'[c][j] = stat[c][j] + 1 /\ total'[j] = total[j] + 1
      /\ \A k \in Counters \ {j} : stat'[c][k] = stat[c][k]
      /\ \A k \in Totals \ {j} : total'[k] = total[k]
      /\ \A d \in Channels \ {c} : stat'[d] = stat[d]
  <2>1. [stat[c] EXCEPT ![j] = @ + 1] \in [Counters -> Nat]
    BY <1>0, <1>1
  <2>2. stat' = [stat EXCEPT ![c] = [stat[c] EXCEPT ![j] = @ + 1]]
    BY <1>0, <1>1
  <2> QED
    BY <1>0, <1>1, <2>1, <2>2
<1>3. StatsTypeOK'
  BY <1>0, <1>2 DEF StatsInv, StatsTypeOK
<1>4. EveryFrameExplained'
  <2> SUFFICES ASSUME NEW d \in channels
               PROVE  carried[d] + stat'[d].received =
                        stat'[d].mailbox_replaced + stat'[d].stale_dropped + stat'[d].dispatched
                          + discarded[d] + One(Pending(d))
    BY <1>0 DEF EveryFrameExplained, One, Pending
  <2>1. carried[d] + stat[d].received =
             stat[d].mailbox_replaced + stat[d].stale_dropped + stat[d].dispatched
               + discarded[d] + One(Pending(d))
    BY DEF StatsInv, EveryFrameExplained
  <2>2. \A k \in Counters \ {"completed", "failed"} : stat'[d][k] = stat[d][k]
    BY <1>0, <1>1, <1>2
  <2> QED
    BY <2>1, <2>2, CountersAre DEF One, Pending
<1>5. EveryJobExplained'
  <2>1. ASSUME NEW d \in channels
        PROVE  stat'[d].dispatched = stat'[d].completed + stat'[d].failed + One(running'[d])
    <3>1. stat[d].dispatched = stat[d].completed + stat[d].failed + One(running[d])
      BY DEF StatsInv, EveryJobExplained
    <3>2. CASE d = c
      BY <1>0, <1>1, <1>2, <3>1, <3>2, CountersAre DEF One
    <3>3. CASE d # c
      BY <1>0, <1>1, <1>2, <3>1, <3>3, CountersAre DEF One
    <3> QED
      BY <3>2, <3>3
  <2>2. total'.dispatched = total'.completed + total'.failed + One(pc' = "exec")
    BY <1>0, <1>1, <1>2 DEF StatsInv, EveryJobExplained, Totals, One
  <2> QED
    BY <1>0, <2>1, <2>2 DEF EveryJobExplained, One
<1>6. ASSUME NEW k \in Totals
      PROVE  CountedByChannels(k)' \subseteq CountedByChannels(k)
                   \cup (IF k = j THEN {<<c, stat[c][k] + 1>>} ELSE {})
  <2>1. stat[c][k] \in Nat
    BY <1>0, <1>1, CountersAre
  <2>2. stat'[c][k] = IF k = j THEN stat[c][k] + 1 ELSE stat[c][k]
    BY <1>2, CountersAre
  <2>3. ASSUME NEW p \in CountedByChannels(k)', p \notin CountedByChannels(k)
        PROVE  k = j /\ p = <<c, stat[c][k] + 1>>
    <3>1. PICK d \in channels : \E i \in 1 .. stat'[d][k] : p = <<d, i>>
      BY <1>0, <2>3 DEF CountedByChannels
    <3>2. PICK i \in 1 .. stat'[d][k] : p = <<d, i>>
      BY <3>1
    <3>3. i \notin 1 .. stat[d][k]
      BY <2>3, <3>2 DEF CountedByChannels
    <3>4. d = c
      BY <1>0, <1>2, <3>2, <3>3
    <3> QED
      BY <2>1, <2>2, <3>2, <3>3, <3>4
  <2> QED
    BY <2>3
<1> QED
  BY <1>0, <1>1, <1>3, <1>4, <1>5, <1>6 DEF c

\* At the end of a window its figures start anew, with the frames then pending.
LEMMA WindowExplained ==
  ASSUME IInv, StatsInv, CarryOver, pc = "loop", NEW c \in channels
  PROVE  LET w == StatsOfWindow(c) IN
         /\ w \in [Counters -> Nat] /\ carried'[c] \in Nat /\ discarded'[c] \in Nat
         /\ carried'[c] + w.received =
              w.mailbox_replaced + w.stale_dropped + w.dispatched + discarded'[c]
                + One(Pending(c))
         /\ w.dispatched = w.completed + w.failed
<1>0. c \in Channels /\ ~running[c] /\ running \in [Channels -> BOOLEAN]
  BY DEF IInv, TypeOK, AtMostOneJob
<1>1. CASE WindowOver
  <2>1. /\ StatsOfWindow(c) = NoStats /\ carried'[c] = One(Pending(c)) /\ discarded'[c] = 0
    BY <1>0, <1>1 DEF StatsOfWindow, CarryOver
  <2> QED
    BY <2>1, CountersAre DEF NoStats, One, Pending
<1>2. CASE ~WindowOver
  <2>1. /\ StatsOfWindow(c) = stat[c] /\ carried'[c] = carried[c]
        /\ discarded'[c] = discarded[c]
    BY <1>0, <1>2 DEF StatsOfWindow, CarryOver
  <2>2. stat[c].dispatched = stat[c].completed + stat[c].failed + One(running[c])
    BY DEF StatsInv, EveryJobExplained
  <2>3. stat[c] \in [Counters -> Nat] /\ carried[c] \in Nat /\ discarded[c] \in Nat
    BY <1>0 DEF StatsInv, StatsTypeOK
  <2>4. stat[c].dispatched = stat[c].completed + stat[c].failed
    BY <1>0, <2>2, <2>3, CountersAre DEF One
  <2> QED
    BY <2>1, <2>3, <2>4 DEF StatsInv, EveryFrameExplained
<1> QED
  BY <1>1, <1>2

\* A pending frame is stale or stays pending.
LEMMA StaleOrKept ==
  ASSUME IInv, NEW c \in Channels
  PROVE  One(Pending(c)) = One(StaleNow(c)) + One(AfterStaleDrop[c] # NoFrame)
BY DEF One, StaleNow, Pending, AfterStaleDrop

\* What the channels have counted when an iteration of the worker has begun.
CountedInWindow(k) == IF WindowOver THEN {} ELSE CountedByChannels(k)
StaleUnits == {<<c, StatsOfWindow(c)["stale_dropped"] + 1>> : c \in {d \in Channels : StaleNow(d)}}

\* An iteration counts as many stale frames in the total as there are channels with one.
LEMMA TotalsOfIteration ==
  ASSUME IInv, StatsInv, pc = "loop"
  PROVE  LET n == Cardinality({c \in Channels : StaleNow(c)}) IN
         /\ n \in Nat /\ IsFiniteSet({c \in Channels : StaleNow(c)})
         /\ TotalsOfWindow \in [Totals -> Nat]
         /\ TotalsAfterStale \in [Totals -> Nat]
         /\ TotalsAfterStale["stale_dropped"] = TotalsOfWindow["stale_dropped"] + n
         /\ \A k \in Totals \ {"stale_dropped"} : TotalsAfterStale[k] = TotalsOfWindow[k]
         /\ TotalsAfterStale.dispatched = TotalsAfterStale.completed + TotalsAfterStale.failed
<1> DEFINE stale == {c \in Channels : StaleNow(c)}
           n == Cardinality(stale)
<1>1. IsFiniteSet(channels)
  <2>1. order \in Surjection(1 .. Len(order), channels) /\ Len(order) \in Nat
    <3>1. order \in Seq(Channels) /\ channels = {order[i] : i \in 1 .. Len(order)}
      BY DEF IInv, TypeOK, OrderMatchesChannels
    <3>2. order \in [1 .. Len(order) -> channels] /\ Len(order) \in Nat
      BY <3>1
    <3> QED
      BY <3>1, <3>2 DEF Surjection
  <2> QED
    BY <2>1, FS_Interval, FS_Surjection
<1>2. stale \subseteq channels
  BY DEF StaleNow, Pending, IInv, SlotInv
<1>3. n \in Nat /\ IsFiniteSet(stale)
  BY <1>1, <1>2, FS_Subset, FS_CardinalityType
<1>4. TotalsOfWindow \in [Totals -> Nat] /\ "stale_dropped" \in Totals
  BY CountersAre DEF TotalsOfWindow, StatsInv, StatsTypeOK, Totals
<1>5. TotalsOfWindow.dispatched = TotalsOfWindow.completed + TotalsOfWindow.failed
  BY DEF TotalsOfWindow, NoTotals, Totals, StatsInv, StatsTypeOK, EveryJobExplained, One
<1>6. TotalsAfterStale = [TotalsOfWindow EXCEPT !["stale_dropped"] = @ + n]
  BY DEF TotalsAfterStale
<1> HIDE DEF n
<1>7. /\ TotalsAfterStale \in [Totals -> Nat]
      /\ TotalsAfterStale["stale_dropped"] = TotalsOfWindow["stale_dropped"] + n
      /\ \A k \in Totals \ {"stale_dropped"} : TotalsAfterStale[k] = TotalsOfWindow[k]
  BY <1>3, <1>4, <1>6
<1>8. TotalsAfterStale.dispatched = TotalsAfterStale.completed + TotalsAfterStale.failed
  BY <1>5, <1>7 DEF Totals
<1> QED
  BY <1>3, <1>4, <1>7, <1>8 DEF n

\* What is not counted in the window is beyond the channel's figure.
LEMMA NotCountedBefore ==
  ASSUME NEW k \in Totals, NEW c \in channels, NEW i \in Nat \ {0},
         <<c, i>> \notin CountedInWindow(k)
  PROVE  i \notin 1 .. StatsOfWindow(c)[k]
<1>1. CASE WindowOver
  BY <1>1, CountersAre DEF StatsOfWindow, NoStats
<1>2. CASE ~WindowOver
  BY <1>2 DEF StatsOfWindow, CountedInWindow, CountedByChannels
<1> QED
  BY <1>1, <1>2

\* What channels count for the stale frames they drop.
LEMMA StaleCounted ==
  ASSUME StatsInv, channels \subseteq Channels, channels' = channels,
         stat' = [c \in Channels |-> AfterStale(c)], NEW k \in Totals
  PROVE  CountedByChannels(k)' \subseteq CountedInWindow(k)
              \cup (IF k = "stale_dropped" THEN StaleUnits ELSE {})
<1> SUFFICES ASSUME NEW p \in CountedByChannels(k)', p \notin CountedInWindow(k)
             PROVE  k = "stale_dropped" /\ p \in StaleUnits
  OBVIOUS
<1>1. PICK c \in channels : \E i \in 1 .. stat'[c][k] : p = <<c, i>>
  BY DEF CountedByChannels
<1>2. PICK i \in 1 .. stat'[c][k] : p = <<c, i>>
  BY <1>1
<1>3. StatsOfWindow(c) \in [Counters -> Nat] /\ stat'[c] = AfterStale(c) /\ k \in Counters
  BY AfterStaleType, CountersAre DEF StatsInv
<1>4. i \notin 1 .. StatsOfWindow(c)[k]
  BY <1>2, NotCountedBefore
<1>5. /\ k = "stale_dropped" /\ stat'[c][k] = StatsOfWindow(c)[k] + One(StaleNow(c))
  BY <1>2, <1>3, <1>4, AfterStaleType, CountersAre DEF StatsInv
<1>6. StaleNow(c) /\ i = StatsOfWindow(c)[k] + 1
  BY <1>2, <1>3, <1>4, <1>5 DEF One, StaleNow, Pending
<1> QED
  BY <1>2, <1>5, <1>6 DEF StaleUnits

\* A worker that finds nothing to do has counted the stale frames only.
LEMMA WorkerSleepExplained ==
  ASSUME IInv, StatsInv, CountSleep
  PROVE  /\ StatsTypeOK' /\ EveryFrameExplained' /\ EveryJobExplained'
         /\ total' = TotalsAfterStale
         /\ \A k \in Totals : CountedByChannels(k)' \subseteq CountedInWindow(k)
              \cup (IF k = "stale_dropped" THEN StaleUnits ELSE {})
<1>0. /\ channels \subseteq Channels /\ pc = "loop" /\ UNCHANGED <<channels, running, pc>>
      /\ mailbox' = AfterStaleDrop
      /\ stat' = [c \in Channels |-> AfterStale(c)]
      /\ total' = TotalsAfterStale /\ CarryOver
      /\ running \in [Channels -> BOOLEAN] /\ \A c \in Channels : ~running[c]
  BY DEF CountSleep, WorkerSleep, Awake, workerVars, IInv, TypeOK, AtMostOneJob
<1>1. /\ stat' \in [Channels -> [Counters -> Nat]]
      /\ carried' \in [Channels -> Nat] /\ discarded' \in [Channels -> Nat]
  BY <1>0, AfterStaleType DEF StatsInv, StatsTypeOK, CarryOver, One
<1>2. total' \in [Totals -> Nat] /\ total'.dispatched = total'.completed + total'.failed
  BY <1>0, TotalsOfIteration
<1>3. EveryFrameExplained'
  <2> SUFFICES ASSUME NEW c \in channels
               PROVE  carried'[c] + stat'[c].received =
                        stat'[c].mailbox_replaced + stat'[c].stale_dropped + stat'[c].dispatched
                          + discarded'[c] + One(Pending(c)')
    BY <1>0 DEF EveryFrameExplained, One, Pending
  <2> DEFINE w == StatsOfWindow(c)
  <2>1. /\ w \in [Counters -> Nat] /\ carried'[c] \in Nat /\ discarded'[c] \in Nat
        /\ carried'[c] + w.received =
              w.mailbox_replaced + w.stale_dropped + w.dispatched + discarded'[c]
                + One(Pending(c))
    BY <1>0, WindowExplained
  <2>2. /\ stat'[c].stale_dropped = w.stale_dropped + One(StaleNow(c))
        /\ \A k \in Counters \ {"stale_dropped"} : stat'[c][k] = w[k]
    BY <1>0, AfterStaleType DEF StatsInv
  <2>3. One(Pending(c)') = One(AfterStaleDrop[c] # NoFrame)
    BY <1>0 DEF Pending, One
  <2>4. One(Pending(c)) = One(StaleNow(c)) + One(Pending(c)')
    BY <1>0, <2>3, StaleOrKept
  <2>5. One(StaleNow(c)) \in Nat /\ One(Pending(c)') \in Nat
    BY DEF One
  <2> HIDE DEF w
  <2> QED
    BY <2>1, <2>2, <2>4, <2>5, CountersAre
<1>4. EveryJobExplained'
  <2>1. ASSUME NEW c \in channels
        PROVE  stat'[c].dispatched = stat'[c].completed + stat'[c].failed
    BY <1>0, WindowExplained, AfterStaleType, CountersAre DEF StatsInv
  <2>3. ASSUME NEW c \in channels
        PROVE  stat'[c].dispatched = stat'[c].completed + stat'[c].failed + One(running'[c])
    <3>1. stat'[c] \in [Counters -> Nat] /\ ~running'[c]
      BY <1>0, <1>1
    <3> QED
      BY <2>1, <3>1, CountersAre DEF One
  <2>4. total'.dispatched = total'.completed + total'.failed + One(pc' = "exec")
    BY <1>0, <1>2 DEF One, Totals
  <2> QED
    BY <1>0, <2>3, <2>4 DEF EveryJobExplained, One
<1>5. ASSUME NEW k \in Totals
      PROVE  CountedByChannels(k)' \subseteq CountedInWindow(k)
              \cup (IF k = "stale_dropped" THEN StaleUnits ELSE {})
  BY <1>0, StaleCounted
<1> QED
  BY <1>0, <1>1, <1>2, <1>3, <1>4, <1>5 DEF StatsTypeOK

\* One that takes a frame has counted it besides.
LEMMA WorkerDispatchExplained ==
  ASSUME IInv, StatsInv, CountDispatch
  PROVE  /\ StatsTypeOK' /\ EveryFrameExplained' /\ EveryJobExplained'
         /\ total' = [TotalsAfterStale EXCEPT !["dispatched"] = @ + 1]
         /\ \A k \in Totals : CountedByChannels(k)' \subseteq CountedInWindow(k)
              \cup (IF k = "stale_dropped" THEN StaleUnits
                    ELSE IF k = "dispatched"
                    THEN {<<job'.channel, StatsOfWindow(job'.channel)[k] + 1>>} ELSE {})
<1> DEFINE c == job'.channel
<1>a. c \in channels /\ AfterStaleDrop[c] # NoFrame
        /\ mailbox' = [AfterStaleDrop EXCEPT ![c] = NoFrame]
        /\ running' = [running EXCEPT ![c] = TRUE]
  <2>1. PICK offset \in 0 .. Len(order) - 1 :
          /\ FirstReady(offset)
          /\ job' = [channel |-> ScanAt(offset), completion |-> completion[ScanAt(offset)]]
          /\ mailbox' = [AfterStaleDrop EXCEPT ![ScanAt(offset)] = NoFrame]
          /\ running' = [running EXCEPT ![ScanAt(offset)] = TRUE]
    BY DEF CountDispatch, WorkerDispatch
  <2>2. ScanAt(offset) \in channels
    <3>1. Len(order) \in Nat \ {0} /\ nextRR \in Nat
      BY DEF IInv, TypeOK
    <3>2. \E i \in 1 .. Len(order) : ScanAt(offset) = order[i]
      BY <3>1, ScanInOrder
    <3> QED
      BY <3>2 DEF IInv, OrderMatchesChannels
  <2>3. c = ScanAt(offset)
    BY <2>1
  <2> QED
    BY <2>1, <2>2, <2>3 DEF FirstReady, Ready, Candidate
<1>0. /\ channels \subseteq Channels /\ pc = "loop" /\ pc' = "exec" /\ UNCHANGED channels
      /\ stat' = [d \in Channels |->
           IF d = c THEN [AfterStale(d) EXCEPT !.dispatched = @ + 1] ELSE AfterStale(d)]
      /\ total' = [TotalsAfterStale EXCEPT !.dispatched = @ + 1] /\ CarryOver
      /\ running \in [Channels -> BOOLEAN] /\ \A d \in Channels : ~running[d]
  BY DEF CountDispatch, WorkerDispatch, Awake, IInv, TypeOK, AtMostOneJob
<1> HIDE DEF c
<1>b. /\ stat'[c] \in [Counters -> Nat]
      /\ stat'[c]["dispatched"] = AfterStale(c)["dispatched"] + 1
      /\ \A k \in Counters \ {"dispatched"} : stat'[c][k] = AfterStale(c)[k]
      /\ \A d \in Channels \ {c} : stat'[d] = AfterStale(d)
  <2>1. AfterStale(c) \in [Counters -> Nat]
    BY <1>a, <1>0, AfterStaleType DEF StatsInv
  <2>2. stat'[c] = [AfterStale(c) EXCEPT !["dispatched"] = @ + 1]
    BY <1>a, <1>0
  <2>3. \A d \in Channels \ {c} : stat'[d] = AfterStale(d)
    BY <1>0
  <2> QED
    BY <2>1, <2>2, <2>3, CountersAre
<1>1. /\ stat' \in [Channels -> [Counters -> Nat]]
      /\ carried' \in [Channels -> Nat] /\ discarded' \in [Channels -> Nat]
  <2>1. ASSUME NEW d \in Channels PROVE stat'[d] \in [Counters -> Nat]
    BY <1>b, AfterStaleType DEF StatsInv
  <2>2. stat' = [d \in Channels |-> stat'[d]]
    BY <1>0
  <2> QED
    BY <1>0, <2>1, <2>2 DEF StatsInv, StatsTypeOK, CarryOver, One
<1>2. /\ total' \in [Totals -> Nat]
      /\ total'.dispatched = total'.completed + total'.failed + 1
  <2>1. /\ TotalsAfterStale \in [Totals -> Nat]
        /\ TotalsAfterStale.dispatched = TotalsAfterStale.completed + TotalsAfterStale.failed
    BY <1>0, TotalsOfIteration
  <2> QED
    BY <1>0, <2>1 DEF Totals
<1>3. EveryFrameExplained'
  <2> SUFFICES ASSUME NEW d \in channels
               PROVE  carried'[d] + stat'[d].received =
                        stat'[d].mailbox_replaced + stat'[d].stale_dropped + stat'[d].dispatched
                          + discarded'[d] + One(Pending(d)')
    BY <1>0 DEF EveryFrameExplained, One, Pending
  <2> DEFINE w == StatsOfWindow(d)
  <2>1. /\ w \in [Counters -> Nat] /\ carried'[d] \in Nat /\ discarded'[d] \in Nat
        /\ carried'[d] + w.received =
              w.mailbox_replaced + w.stale_dropped + w.dispatched + discarded'[d]
                + One(Pending(d))
    BY <1>0, WindowExplained
  <2>2. /\ AfterStale(d).stale_dropped = w.stale_dropped + One(StaleNow(d))
        /\ \A k \in Counters \ {"stale_dropped"} : AfterStale(d)[k] = w[k]
    BY <1>0, AfterStaleType DEF StatsInv
  <2>3. One(Pending(d)) = One(StaleNow(d)) + One(AfterStaleDrop[d] # NoFrame)
    BY <1>0, StaleOrKept
  <2>4. One(StaleNow(d)) \in Nat
    BY DEF One
  <2> HIDE DEF w
  <2>5. CASE d = c
    <3>1. One(AfterStaleDrop[d] # NoFrame) = 1 /\ One(Pending(d)') = 0
      BY <1>a, <1>0, <2>5 DEF Pending, One, AfterStaleDrop
    <3>2. /\ stat'[d].received = w.received /\ stat'[d].stale_dropped = AfterStale(d).stale_dropped
          /\ stat'[d].mailbox_replaced = w.mailbox_replaced
          /\ stat'[d].dispatched = w.dispatched + 1
      BY <1>b, <2>2, <2>5, CountersAre
    <3>3. /\ w.received \in Nat /\ w.mailbox_replaced \in Nat /\ w.stale_dropped \in Nat
          /\ w.dispatched \in Nat
      BY <2>1, CountersAre
    <3>4. One(Pending(d)) = One(StaleNow(d)) + 1
      BY <2>3, <3>1
    <3> QED
      BY <2>1, <2>2, <2>4, <3>1, <3>2, <3>3, <3>4
  <2>6. CASE d # c
    <3>1. One(AfterStaleDrop[d] # NoFrame) = One(Pending(d)') /\ One(Pending(d)') \in Nat
      BY <1>a, <1>0, <2>6 DEF Pending, One, AfterStaleDrop
    <3> QED
      BY <1>0, <1>b, <2>1, <2>2, <2>3, <2>4, <2>6, <3>1, CountersAre
  <2> QED
    BY <2>5, <2>6
<1>4. EveryJobExplained'
  <2>1. ASSUME NEW d \in channels
        PROVE  stat'[d].dispatched = stat'[d].completed + stat'[d].failed + One(running'[d])
    <3> DEFINE w == StatsOfWindow(d)
    <3>1. /\ w \in [Counters -> Nat] /\ w.dispatched = w.completed + w.failed
      BY <1>0, WindowExplained
    <3>2. \A k \in Counters \ {"stale_dropped"} : AfterStale(d)[k] = w[k]
      BY <1>0, AfterStaleType DEF StatsInv
    <3> HIDE DEF w
    <3>3. CASE d = c
      <4>1. running'[d]
        BY <1>a, <1>0, <3>3
      <4> QED
        BY <1>b, <3>1, <3>2, <3>3, <4>1, CountersAre DEF One
    <3>4. CASE d # c
      <4>1. ~running'[d]
        BY <1>a, <1>0, <3>4
      <4> QED
        BY <1>0, <1>b, <3>1, <3>2, <3>4, <4>1, CountersAre DEF One
    <3> QED
      BY <3>3, <3>4
  <2>2. total'.dispatched = total'.completed + total'.failed + One(pc' = "exec")
    BY <1>0, <1>2 DEF One
  <2> QED
    BY <1>0, <2>1, <2>2 DEF EveryJobExplained, One
<1>5. ASSUME NEW k \in Totals
      PROVE  CountedByChannels(k)' \subseteq CountedInWindow(k)
              \cup (IF k = "stale_dropped" THEN StaleUnits
                    ELSE IF k = "dispatched" THEN {<<c, StatsOfWindow(c)[k] + 1>>} ELSE {})
  <2> SUFFICES ASSUME NEW p \in CountedByChannels(k)', p \notin CountedInWindow(k)
               PROVE  \/ k = "stale_dropped" /\ p \in StaleUnits
                      \/ k = "dispatched" /\ p = <<c, StatsOfWindow(c)[k] + 1>>
    OBVIOUS
  <2>1. PICK d \in channels : \E i \in 1 .. stat'[d][k] : p = <<d, i>>
    BY <1>0 DEF CountedByChannels
  <2>2. PICK i \in 1 .. stat'[d][k] : p = <<d, i>>
    BY <2>1
  <2>3. i \notin 1 .. StatsOfWindow(d)[k]
    BY <2>2, NotCountedBefore
  <2>4. /\ StatsOfWindow(d) \in [Counters -> Nat] /\ k \in Counters
        /\ AfterStale(d)["stale_dropped"] = StatsOfWindow(d)["stale_dropped"] + One(StaleNow(d))
        /\ \A j \in Counters \ {"stale_dropped"} : AfterStale(d)[j] = StatsOfWindow(d)[j]
    BY <1>0, AfterStaleType, CountersAre DEF StatsInv
  <2>5. CASE k = "stale_dropped"
    <3>1. stat'[d][k] = StatsOfWindow(d)[k] + One(StaleNow(d))
      BY <1>0, <1>b, <2>4, <2>5, CountersAre
    <3>2. StaleNow(d) /\ i = StatsOfWindow(d)[k] + 1
      BY <2>2, <2>3, <2>4, <3>1 DEF One, StaleNow, Pending
    <3> QED
      BY <1>0, <2>2, <2>5, <3>2 DEF StaleUnits
  <2>6. CASE k = "dispatched"
    BY <1>0, <1>b, <2>2, <2>3, <2>4, <2>6, CountersAre
  <2>7. CASE k \notin {"stale_dropped", "dispatched"}
    BY <1>0, <1>b, <2>2, <2>3, <2>4, <2>7, CountersAre
  <2> QED
    BY <2>5, <2>6, <2>7
<1> QED
  BY <1>0, <1>1, <1>2, <1>3, <1>4, <1>5 DEF StatsTypeOK, c

-----------------------------------------------------------------------------
(* The totals.                                                             *)

\* What channels have counted grows by no more than the total does.
LEMMA StillCovered ==
  ASSUME NEW k \in Totals, NEW old, NEW new, NEW n \in Nat,
         IsFiniteSet(old), Cardinality(old) <= n, IsFiniteSet(new),
         CountedByChannels(k)' \subseteq old \cup new,
         total'[k] = n + Cardinality(new)
  PROVE  Covered(k)'
<1>1. /\ IsFiniteSet(old \cup new)
      /\ Cardinality(old \cup new) = Cardinality(old) + Cardinality(new) - Cardinality(old \cap new)
  BY FS_Union
<1>2. /\ Cardinality(old) \in Nat /\ Cardinality(new) \in Nat
      /\ Cardinality(old \cap new) \in Nat
  BY FS_CardinalityType, FS_Intersection
<1>3. IsFiniteSet(CountedByChannels(k)')
        /\ Cardinality(CountedByChannels(k)') <= Cardinality(old \cup new)
  BY <1>1, FS_Subset
<1>4. Cardinality(CountedByChannels(k)') \in Nat
  BY <1>3, FS_CardinalityType
<1>5. Cardinality(CountedByChannels(k)') <= total'[k]
  BY <1>1, <1>2, <1>3, <1>4
<1> QED
  BY <1>3, <1>5 DEF Covered

\* A step that counts at most one unit, in the total too.
LEMMA StillCoveredByOne ==
  ASSUME StatsInv, NEW k \in Totals, NEW unit, NEW b \in BOOLEAN,
         CountedByChannels(k)' \subseteq CountedByChannels(k) \cup (IF b THEN {unit} ELSE {}),
         total'[k] = total[k] + (IF b THEN 1 ELSE 0)
  PROVE  Covered(k)'
<1>1. /\ total[k] \in Nat /\ IsFiniteSet(CountedByChannels(k))
      /\ Cardinality(CountedByChannels(k)) <= total[k]
  BY DEF StatsInv, StatsTypeOK, Covered
<1>2. IsFiniteSet(IF b THEN {unit} ELSE {})
        /\ Cardinality(IF b THEN {unit} ELSE {}) = IF b THEN 1 ELSE 0
  BY FS_EmptySet, FS_Singleton
<1> QED
  BY <1>1, <1>2, StillCovered

\* The totals cover channels that count less than before.
LEMMA StillCoveredByNone ==
  ASSUME StatsInv, total' = total,
         \A k \in Totals : CountedByChannels(k)' \subseteq CountedByChannels(k)
  PROVE  \A k \in Totals : Covered(k)'
<1> SUFFICES ASSUME NEW k \in Totals PROVE Covered(k)'
  OBVIOUS
<1>1. /\ FALSE \in BOOLEAN
      /\ CountedByChannels(k)' \subseteq CountedByChannels(k) \cup (IF FALSE THEN {k} ELSE {})
      /\ total'[k] = total[k] + (IF FALSE THEN 1 ELSE 0)
  BY DEF StatsInv, StatsTypeOK
<1> QED
  BY <1>1, StillCoveredByOne

\* The window with which the worker begins an iteration.
LEMMA WindowCovered ==
  ASSUME StatsInv, NEW k \in Totals
  PROVE  /\ TotalsOfWindow[k] \in Nat /\ IsFiniteSet(CountedInWindow(k))
         /\ Cardinality(CountedInWindow(k)) <= TotalsOfWindow[k]
BY FS_EmptySet DEF CountedInWindow, TotalsOfWindow, StatsInv, StatsTypeOK, Covered, NoTotals

\* Stale frames add one unit for each of their channels.
LEMMA StaleUnitsCounted ==
  ASSUME IsFiniteSet({c \in Channels : StaleNow(c)})
  PROVE  /\ IsFiniteSet(StaleUnits)
         /\ Cardinality(StaleUnits) = Cardinality({c \in Channels : StaleNow(c)})
<1> DEFINE stale == {c \in Channels : StaleNow(c)}
           unit == [c \in stale |-> <<c, StatsOfWindow(c)["stale_dropped"] + 1>>]
<1>1. unit \in [stale -> StaleUnits] /\ \A p \in StaleUnits : \E c \in stale : unit[c] = p
  BY DEF StaleUnits
<1>2. \A c, d \in stale : unit[c] = unit[d] => c = d
  OBVIOUS
<1> HIDE DEF unit, stale
<1>3. unit \in Bijection(stale, StaleUnits)
  BY <1>1, <1>2 DEF Bijection, Injection, Surjection, IsInjective
<1>4. ExistsBijection(stale, StaleUnits)
  BY <1>3 DEF ExistsBijection
<1> QED
  BY <1>4, FS_Bijection DEF stale

\* The invariant of the counters, by the steps that count and those that do not.
LEMMA CountingKeeps ==
  ASSUME IInv, StatsInv, [StatsNext]_<<vars, statVars>>
  PROVE  StatsInv'
<1>1. ASSUME NEW c \in Channels, CountRegister(c)
      PROVE  StatsInv'
  <2>1. total' = total
    BY <1>1 DEF CountRegister
  <2> QED
    BY <1>1, <2>1, CountRegisterExplained, StillCoveredByNone DEF StatsInv
<1>2. ASSUME NEW c \in Channels, NEW frameAge \in 0 .. MaxFrameAge + 1, CountSubmit(c, frameAge)
      PROVE  StatsInv'
  <2>1. /\ StatsTypeOK' /\ EveryFrameExplained' /\ EveryJobExplained'
        /\ total' = [total EXCEPT !["mailbox_replaced"] = @ + One(Pending(c))]
        /\ \A k \in Totals : CountedByChannels(k)' \subseteq CountedByChannels(k)
              \cup (IF k = "mailbox_replaced" /\ Pending(c) THEN {<<c, stat[c][k] + 1>>} ELSE {})
    BY <1>2, CountSubmitExplained
  <2>2. ASSUME NEW k \in Totals
        PROVE  Covered(k)'
    <3>1. total'[k] = total[k] + (IF k = "mailbox_replaced" /\ Pending(c) THEN 1 ELSE 0)
      BY <2>1 DEF StatsInv, StatsTypeOK, One, Pending
    <3> DEFINE b == k = "mailbox_replaced" /\ Pending(c)
    <3>2. /\ b \in BOOLEAN /\ total'[k] = total[k] + (IF b THEN 1 ELSE 0)
          /\ CountedByChannels(k)' \subseteq
                CountedByChannels(k) \cup (IF b THEN {<<c, stat[c][k] + 1>>} ELSE {})
      BY <2>1, <3>1 DEF Pending
    <3> HIDE DEF b
    <3> QED
      BY <3>2, StillCoveredByOne
  <2> QED
    BY <2>1, <2>2 DEF StatsInv
<1>3. ASSUME NEW c \in Channels, CountUnregister(c)
      PROVE  StatsInv'
  BY <1>3, CountUnregisterExplained, StillCoveredByNone DEF StatsInv
<1>4. CASE CountStopRequest
  BY <1>4, CountStopExplained, StillCoveredByNone DEF StatsInv
<1>5. CASE CountDispatch
  <2>1. /\ StatsTypeOK' /\ EveryFrameExplained' /\ EveryJobExplained'
        /\ total' = [TotalsAfterStale EXCEPT !["dispatched"] = @ + 1]
        /\ \A k \in Totals : CountedByChannels(k)' \subseteq CountedInWindow(k)
              \cup (IF k = "stale_dropped" THEN StaleUnits
                    ELSE IF k = "dispatched"
                    THEN {<<job'.channel, StatsOfWindow(job'.channel)[k] + 1>>} ELSE {})
    BY <1>5, WorkerDispatchExplained
  <2>2. pc = "loop"
    BY <1>5 DEF CountDispatch, WorkerDispatch, Awake
  <2>3. ASSUME NEW k \in Totals
        PROVE  Covered(k)'
    <3> DEFINE new == IF k = "stale_dropped" THEN StaleUnits
                    ELSE IF k = "dispatched"
                    THEN {<<job'.channel, StatsOfWindow(job'.channel)[k] + 1>>} ELSE {}
    <3>1. IsFiniteSet(new) /\ total'[k] = TotalsOfWindow[k] + Cardinality(new)
      <4>1. CASE k = "stale_dropped"
        BY <2>1, <2>2, <4>1, TotalsOfIteration, StaleUnitsCounted
      <4>2. CASE k = "dispatched"
        BY <2>1, <2>2, <4>2, TotalsOfIteration, FS_Singleton
      <4>3. CASE k \notin {"stale_dropped", "dispatched"}
        BY <2>1, <2>2, <4>3, TotalsOfIteration, FS_EmptySet, WindowCovered
      <4> QED
        BY <4>1, <4>2, <4>3
    <3>2. CountedByChannels(k)' \subseteq CountedInWindow(k) \cup new
      BY <2>1
    <3> HIDE DEF new
    <3> QED
      BY <3>1, <3>2, WindowCovered, StillCovered
  <2> QED
    BY <2>1, <2>3 DEF StatsInv
<1>6. CASE CountSleep
  <2>1. /\ StatsTypeOK' /\ EveryFrameExplained' /\ EveryJobExplained'
        /\ total' = TotalsAfterStale
        /\ \A k \in Totals : CountedByChannels(k)' \subseteq CountedInWindow(k)
              \cup (IF k = "stale_dropped" THEN StaleUnits ELSE {})
    BY <1>6, WorkerSleepExplained
  <2>2. pc = "loop"
    BY <1>6 DEF CountSleep, WorkerSleep, Awake
  <2>3. ASSUME NEW k \in Totals
        PROVE  Covered(k)'
    <3> DEFINE new == IF k = "stale_dropped" THEN StaleUnits ELSE {}
    <3>1. IsFiniteSet(new) /\ total'[k] = TotalsOfWindow[k] + Cardinality(new)
      <4>1. CASE k = "stale_dropped"
        BY <2>1, <2>2, <4>1, TotalsOfIteration, StaleUnitsCounted
      <4>2. CASE k # "stale_dropped"
        BY <2>1, <2>2, <4>2, TotalsOfIteration, FS_EmptySet, WindowCovered
      <4> QED
        BY <4>1, <4>2
    <3>2. CountedByChannels(k)' \subseteq CountedInWindow(k) \cup new
      BY <2>1
    <3> HIDE DEF new
    <3> QED
      BY <3>1, <3>2, WindowCovered, StillCovered
  <2> QED
    BY <2>1, <2>3 DEF StatsInv
<1>7. ASSUME NEW success \in BOOLEAN, CountFinish(success)
      PROVE  StatsInv'
  <2>1. StatsTypeOK' /\ EveryFrameExplained' /\ EveryJobExplained'
    BY <1>7, CountFinishExplained
  <2>2. PICK j \in {"completed", "failed"} :
          /\ total' = [total EXCEPT ![j] = @ + 1]
          /\ \A k \in Totals : CountedByChannels(k)' \subseteq CountedByChannels(k)
                \cup (IF k = j THEN {<<job.channel, stat[job.channel][k] + 1>>} ELSE {})
    BY <1>7, CountFinishExplained
  <2>3. ASSUME NEW k \in Totals
        PROVE  Covered(k)'
    <3>1. total'[k] = total[k] + (IF k = j THEN 1 ELSE 0)
      BY <2>2 DEF StatsInv, StatsTypeOK
    <3> QED
      BY <2>2, <3>1, StillCoveredByOne
  <2> QED
    BY <2>1, <2>3 DEF StatsInv
<1>8. CASE \/ \E c \in Channels : UnregisterRecheck(c) /\ UNCHANGED statVars
           \/ /\ \/ Start \/ StopNotify \/ StopJoin
                 \/ WorkerExit \/ WorkerTimeout \/ CallbackReturn
                 \/ Tick
              /\ UNCHANGED statVars
           \/ UNCHANGED <<vars, statVars>>
  <2>1. /\ UNCHANGED <<statVars, running>> /\ channels' \subseteq channels
        /\ (pc' = "exec") <=> (pc = "exec")
    BY <1>8 DEF UnregisterRecheck, Erase, Start, StopNotify, StopJoin, WorkerExit, WorkerTimeout,
       CallbackReturn, Tick, vars, chanVars, slotVars, workerVars, IInv, FlagInv, Awake
  <2>2. ASSUME NEW c \in channels'
        PROVE  Pending(c)' = Pending(c)
    <3>1. c \in Channels /\ mailbox \in [Channels -> NoFrame .. MaxFrameAge + 1]
      BY <2>1 DEF IInv, TypeOK
    <3>2. CASE Tick
      BY <3>1, <3>2, SchedulerAssumption DEF Tick, Pending, NoFrame
    <3>3. CASE ~Tick
      BY <1>8, <3>3 DEF UnregisterRecheck, Start, StopNotify, StopJoin, WorkerExit,
         WorkerTimeout, CallbackReturn, vars, slotVars, Pending
    <3> QED
      BY <3>2, <3>3
  <2>3. /\ StatsTypeOK' /\ EveryFrameExplained' /\ EveryJobExplained'
        /\ \A k \in Totals : CountedByChannels(k)' \subseteq CountedByChannels(k)
    BY <2>1, <2>2, QuietStep DEF IInv, TypeOK
  <2>4. total' = total
    BY <2>1 DEF statVars
  <2> QED
    BY <2>3, <2>4, StillCoveredByNone DEF StatsInv
<1> QED
  BY <1>1, <1>2, <1>3, <1>4, <1>5, <1>6, <1>7, <1>8 DEF StatsNext

\* The statistics add up for every set of channels, however long the windows are:
\* each frame and each job is counted exactly once (log_stats_locked).
THEOREM StatisticsProved == StatsSpec => []StatisticsAddUp
<1>1. StatsInv /\ IInv /\ [StatsNext]_<<vars, statVars>> => StatsInv'
  BY CountingKeeps
<1>2. StatsInv => StatisticsAddUp
  BY DEF StatsInv, StatisticsAddUp, TotalsCoverChannels, Covered
<1> QED
  BY <1>1, <1>2, ExplainedInitially, CountingSchedules, Invariance, PTL DEF StatsSpec

-----------------------------------------------------------------------------
(***************************************************************************)
(* The round robin (NpuRoundRobin).  Turn(i) is the offset at which the    *)
(* scan comes to position i.  Whoever was dispatched while c was ready     *)
(* comes after c, until c is dispatched itself: a registration adds a turn *)
(* behind or between the others, an unregistration takes one out, and only *)
(* if it is before the index, it sends the first turn to the back.         *)
(***************************************************************************)
Turn(i) == IF i - 1 >= nextRR THEN i - 1 - nextRR ELSE i - 1 - nextRR + Len(order)

OvertakenComeLater ==
  /\ overtaken \in [Channels -> SUBSET channels]
  /\ \A c \in Channels, i, j \in 1 .. Len(order) :
       order[i] = c /\ order[j] \in overtaken[c] => Turn(i) < Turn(j)

\* Division by the length of the order, of less than twice that length.
LEMMA OnceAround ==
  ASSUME NEW n \in Nat \ {0}, NEW a \in Nat, NEW b \in Nat, a + b < 2 * n
  PROVE  (a + b) % n = IF a + b < n THEN a + b ELSE a + b - n
OBVIOUS

\* ... and of no more than the length.
LEMMA InsideOrAtEnd ==
  ASSUME NEW n \in Nat \ {0}, NEW a \in 0 .. n
  PROVE  a % n = IF a < n THEN a ELSE 0
OBVIOUS

\* The scan examines position i at offset Turn(i), and no other there.
LEMMA ScanIsInTurn ==
  ASSUME order \in Seq(Channels), nextRR \in Nat, nextRR < Len(order),
         NEW i \in 1 .. Len(order)
  PROVE  /\ Turn(i) \in 0 .. Len(order) - 1
         /\ ScanAt(Turn(i)) = order[i]
         /\ \A offset \in 0 .. Len(order) - 1 :
              ScanAt(offset) = order[i] /\ (\A k, l \in 1 .. Len(order) : order[k] = order[l] => k = l)
                => offset = Turn(i)
<1> DEFINE n == Len(order)
<1>1. n \in Nat \ {0} /\ Turn(i) \in 0 .. n - 1
  BY DEF Turn
<1>2. ASSUME NEW offset \in 0 .. n - 1
      PROVE  ScanAt(offset) =
               order[IF nextRR + offset < n THEN nextRR + offset + 1 ELSE nextRR + offset - n + 1]
  <2>1. (nextRR + offset) % n = IF nextRR + offset < n THEN nextRR + offset ELSE nextRR + offset - n
    <3>1. offset \in Nat /\ nextRR + offset < 2 * n
      BY <1>1
    <3> HIDE DEF n
    <3> QED
      BY <1>1, <3>1, OnceAround
  <2> QED
    BY <1>1, <2>1 DEF ScanAt
<1>3. ScanAt(Turn(i)) = order[i]
  <2>1. /\ nextRR + Turn(i) < n => nextRR + Turn(i) + 1 = i
        /\ ~(nextRR + Turn(i) < n) => nextRR + Turn(i) - n + 1 = i
    BY <1>1 DEF Turn
  <2> QED
    BY <1>1, <1>2, <2>1
<1>4. ASSUME NEW offset \in 0 .. n - 1, ScanAt(offset) = order[i],
             \A k, l \in 1 .. n : order[k] = order[l] => k = l
      PROVE  offset = Turn(i)
  <2> DEFINE k == IF nextRR + offset < n THEN nextRR + offset + 1 ELSE nextRR + offset - n + 1
  <2>1. k \in 1 .. n /\ order[k] = order[i]
    BY <1>1, <1>2, <1>4
  <2>2. k = i
    BY <1>4, <2>1
  <2> QED
    BY <1>1, <2>2 DEF Turn
<1> QED
  BY <1>1, <1>3, <1>4

\* A dispatch moves the scan behind the channel dispatched.
LEMMA TurnAfterDispatch ==
  ASSUME order \in Seq(Channels), nextRR \in Nat, nextRR < Len(order), order' = order,
         NEW offset \in 0 .. Len(order) - 1, nextRR' = (nextRR + offset + 1) % Len(order),
         NEW i \in 1 .. Len(order)
  PROVE  Turn(i)' = IF Turn(i) > offset THEN Turn(i) - offset - 1
                                        ELSE Turn(i) - offset - 1 + Len(order)
<1> DEFINE n == Len(order)
<1>1. n \in Nat \ {0} /\ Turn(i) \in 0 .. n - 1
  BY DEF Turn
<1>2. nextRR' = IF nextRR + offset + 1 < n THEN nextRR + offset + 1 ELSE nextRR + offset + 1 - n
  <2>1. /\ nextRR + offset \in Nat /\ nextRR + offset + 1 < 2 * n
        /\ nextRR' = (nextRR + offset + 1) % n
    BY <1>1
  <2> HIDE DEF n
  <2> QED
    BY <1>1, <2>1, OnceAround
<1>3. Turn(i)' = IF i - 1 >= nextRR' THEN i - 1 - nextRR' ELSE i - 1 - nextRR' + n
  BY DEF Turn
<1>4. Turn(i) = IF i - 1 >= nextRR THEN i - 1 - nextRR ELSE i - 1 - nextRR + n
  BY DEF Turn
<1> HIDE DEF n
<1>5. Turn(i)' = IF Turn(i) > offset THEN Turn(i) - offset - 1 ELSE Turn(i) - offset - 1 + n
  BY <1>1, <1>2, <1>3, <1>4
<1> QED
  BY <1>5 DEF n

\* The round robin index is a position of the order, which has no repetitions.
LEMMA OrderInShape ==
  ASSUME IInv
  PROVE  /\ order \in Seq(Channels) /\ nextRR \in Nat /\ Len(order) \in Nat
         /\ nextRR < Len(order) \/ nextRR = 0
         /\ \A k, l \in 1 .. Len(order) : order[k] = order[l] => k = l
<1>1. order \in Seq(Channels) /\ nextRR \in Nat
  BY DEF IInv, TypeOK
<1>2. OrderMatchesChannels
  BY DEF IInv
<1>3. \A k, l \in 1 .. Len(order) : order[k] = order[l] => k = l
  BY <1>2 DEF OrderMatchesChannels
<1> QED
  BY <1>1, <1>2, <1>3 DEF OrderMatchesChannels

\* A channel registered at the end of the order leaves the others' turns in order.
LEMMA TurnAfterRegister ==
  ASSUME order \in Seq(Channels), nextRR \in Nat, nextRR < Len(order) \/ nextRR = 0,
         NEW d, order' = Append(order, d), nextRR' = nextRR,
         NEW i \in 1 .. Len(order), NEW j \in 1 .. Len(order), Turn(i) < Turn(j)
  PROVE  Turn(i)' < Turn(j)'
<1>1. Len(order') = Len(order) + 1 /\ Len(order) \in Nat
  OBVIOUS
<1>q. QED
  BY <1>1 DEF Turn

\* The earlier of two turns: in front of the index, everything at or behind it
\* has its turn before.
LEMMA EarlierTurn ==
  ASSUME NEW n \in Nat, NEW r \in Nat, NEW p \in 1 .. n, NEW q \in 1 .. n,
         NEW tp, tp = (IF p - 1 >= r THEN p - 1 - r ELSE p - 1 - r + n),
         NEW tq, tq = (IF q - 1 >= r THEN q - 1 - r ELSE q - 1 - r + n),
         r <= n, tp < tq
  PROVE  /\ p - 1 < r => q - 1 < r /\ p < q
         /\ ~(q - 1 < r) => p < q
<1>1. CASE p - 1 < r /\ q - 1 < r
  BY <1>1
<1>2. CASE p - 1 < r /\ ~(q - 1 < r)
  BY <1>2
<1>3. CASE ~(p - 1 < r) /\ q - 1 < r
  BY <1>3
<1>4. CASE ~(p - 1 < r) /\ ~(q - 1 < r)
  BY <1>4
<1> QED
  BY <1>1, <1>2, <1>3, <1>4

\* One taken out of the order leaves the others' turns in order, too, except
\* that the first one goes to the back if the index was behind the gap.
LEMMA TurnAfterErase ==
  ASSUME order \in Seq(Channels), nextRR \in Nat, nextRR < Len(order) \/ nextRR = 0,
         NEW k \in 1 .. Len(order), order' = OrderWithout(k),
         nextRR' = (IF order' = <<>> THEN 0 ELSE nextRR % Len(order')),
         NEW i \in 1 .. Len(order'), NEW j \in 1 .. Len(order'),
         NEW oldI, oldI = (IF i < k THEN i ELSE i + 1),
         NEW oldJ, oldJ = (IF j < k THEN j ELSE j + 1),
         Turn(oldI) < Turn(oldJ),
         ~(k \in 1 .. nextRR /\ oldI = nextRR + 1)
  PROVE  Turn(i)' < Turn(j)'
<1> DEFINE n == Len(order)
           m == Len(order')
<1>0. order' \in Seq(Channels) /\ Len(order') = Len(order) - 1 /\ Len(order) \in Nat
  BY DEF OrderWithout
<1>1. n \in Nat /\ m = n - 1 /\ m \in Nat /\ m > 0
  BY <1>0
<1>2. nextRR' = IF nextRR < m THEN nextRR ELSE 0
  <2>1. order' # <<>>
    BY <1>1
  <2>2. nextRR \in 0 .. m /\ m \in Nat \ {0}
    BY <1>1
  <2>3. nextRR' = nextRR % m
    BY <2>1
  <2> HIDE DEF m
  <2>4. nextRR % m = IF nextRR < m THEN nextRR ELSE 0
    BY <2>2, InsideOrAtEnd
  <2>q. QED
    BY <2>3, <2>4
<1>3. /\ Turn(oldI) = IF oldI - 1 >= nextRR THEN oldI - 1 - nextRR ELSE oldI - 1 - nextRR + n
      /\ Turn(oldJ) = IF oldJ - 1 >= nextRR THEN oldJ - 1 - nextRR ELSE oldJ - 1 - nextRR + n
      /\ Turn(i)' = IF i - 1 >= nextRR' THEN i - 1 - nextRR' ELSE i - 1 - nextRR' + m
      /\ Turn(j)' = IF j - 1 >= nextRR' THEN j - 1 - nextRR' ELSE j - 1 - nextRR' + m
  BY DEF Turn
<1>4. i \in 1 .. m /\ j \in 1 .. m /\ k \in 1 .. n /\ (nextRR < n \/ nextRR = 0) /\ nextRR \in Nat
  OBVIOUS
<1>8. oldI \in 1 .. n /\ oldJ \in 1 .. n /\ n \in Nat /\ nextRR \in Nat /\ nextRR <= n
  BY <1>1, <1>4
<1> HIDE DEF n, m
<1>9. /\ oldI - 1 < nextRR => oldJ - 1 < nextRR /\ oldI < oldJ
      /\ ~(oldJ - 1 < nextRR) => oldI < oldJ
  <2> DEFINE tp == Turn(oldI)
             tq == Turn(oldJ)
  <2>1. /\ tp = IF oldI - 1 >= nextRR THEN oldI - 1 - nextRR ELSE oldI - 1 - nextRR + n
        /\ tq = IF oldJ - 1 >= nextRR THEN oldJ - 1 - nextRR ELSE oldJ - 1 - nextRR + n
        /\ tp < tq
    BY <1>3
  <2> HIDE DEF tp, tq
  <2> QED
    BY <1>8, <2>1, EarlierTurn
<1>5. CASE nextRR < m
  <2>1. CASE k > nextRR
    <3>1. /\ oldI - 1 < nextRR <=> i - 1 < nextRR
          /\ oldJ - 1 < nextRR <=> j - 1 < nextRR
          /\ oldI - 1 < nextRR => oldI = i
          /\ oldJ - 1 < nextRR => oldJ = j
          /\ oldI < oldJ <=> i < j
      BY <1>1, <1>4, <2>1
    <3>2. /\ Turn(i)' = IF i - 1 >= nextRR THEN i - 1 - nextRR ELSE i - 1 - nextRR + m
          /\ Turn(j)' = IF j - 1 >= nextRR THEN j - 1 - nextRR ELSE j - 1 - nextRR + m
      BY <1>2, <1>3, <1>5
    <3>3. oldI \in 1 .. n /\ oldJ \in 1 .. n
      BY <1>1, <1>4
    <3>4. CASE i - 1 < nextRR
      <4>1. oldJ - 1 < nextRR /\ oldI < oldJ
        BY <1>9, <3>1, <3>4
      <4>q. QED
        BY <1>1, <1>4, <3>1, <3>2, <3>4, <4>1
    <3>5. CASE ~(i - 1 < nextRR)
      <4>1. oldJ - 1 < nextRR \/ oldI < oldJ
        BY <1>9
      <4>q. QED
        BY <1>1, <1>4, <3>1, <3>2, <3>5, <4>1
    <3>q. QED
      BY <3>4, <3>5
  <2>2. CASE ~(k > nextRR)
    <3>1. oldI \in Nat /\ oldJ \in Nat /\ oldI # nextRR + 1
      BY <1>1, <1>4, <2>2
    <3>2. /\ oldI - 1 < nextRR => i - 1 < nextRR /\ (i < k \/ i = oldI - 1)
          /\ oldI - 1 > nextRR => i - 1 >= nextRR /\ i = oldI - 1
      BY <1>1, <1>4, <2>2
    <3>3. /\ oldJ - 1 < nextRR => j - 1 < nextRR /\ (j < k \/ j = oldJ - 1)
          /\ oldJ - 1 > nextRR => j - 1 >= nextRR /\ j = oldJ - 1
          /\ oldJ - 1 = nextRR => j = nextRR
      BY <1>1, <1>4, <2>2
    <3>4. CASE oldI - 1 < nextRR
      <4>1. oldJ - 1 < nextRR /\ oldI < oldJ
        BY <1>9, <3>4
      <4>2. i < j
        BY <1>4, <4>1
      <4>q. QED
        BY <1>1, <1>2, <1>3, <1>4, <1>5, <3>2, <3>3, <3>4, <4>1, <4>2
    <3>5. CASE oldI - 1 > nextRR
      <4>1. CASE oldJ - 1 > nextRR
        <5>1. i < j /\ i - 1 >= nextRR /\ j - 1 >= nextRR
          BY <1>8, <1>9, <3>2, <3>3, <3>5, <4>1
        <5>2. nextRR' = nextRR
          BY <1>2, <1>5
        <5> QED
          BY <1>3, <1>4, <1>8, <5>1, <5>2
      <4>2. CASE oldJ - 1 = nextRR
        BY <1>1, <1>3, <1>4, <3>1, <3>5, <4>2
      <4>3. CASE oldJ - 1 < nextRR
        BY <1>1, <1>2, <1>3, <1>4, <1>5, <3>1, <3>2, <3>3, <3>5, <4>3
      <4>q. QED
        BY <1>4, <3>1, <4>1, <4>2, <4>3
    <3>q. QED
      BY <1>4, <3>1, <3>4, <3>5
  <2>q. QED
    BY <2>1, <2>2
<1>6. CASE ~(nextRR < m)
  BY <1>1, <1>2, <1>3, <1>4, <1>6
<1>q. QED
  BY <1>5, <1>6

\* What a step does to the order: nothing (and only a dispatch moves the scan),
\* a channel is registered at its end, or one is taken out.
Kept ==
  /\ channels' = channels /\ order' = order
  /\ WorkerDispatch \/ (nextRR' = nextRR /\ ~Dispatched)
Added ==
  /\ ~Dispatched /\ nextRR' = nextRR
  /\ \E d \in Channels \ channels : order' = Append(order, d)
Removed ==
  /\ ~Dispatched
  /\ nextRR' = (IF order' = <<>> THEN 0 ELSE nextRR % Len(order'))
  /\ \E k \in 1 .. Len(order) :
       channels' = channels \ {order[k]} /\ order' = OrderWithout(k)

LEMMA StepOnOrder ==
  ASSUME IInv, Next
  PROVE  Kept \/ Added \/ Removed
<1> USE DEF Dispatched
<1>1. ASSUME NEW c \in Channels, NEW withCompletion \in BOOLEAN, Register(c, withCompletion)
      PROVE  Added
  BY <1>1 DEF Register, workerVars, Added
<1>2. ASSUME NEW c \in Channels, Erase(c), pc' = pc
      PROVE  Removed
  BY <1>2 DEF Erase, Removed
<1>3. ASSUME NEW c \in Channels, Unregister(c) \/ UnregisterRecheck(c)
      PROVE  Kept \/ Removed
  <2>1. pc' = pc /\ (Erase(c) \/ UNCHANGED chanVars)
    BY <1>3 DEF Unregister, UnregisterRecheck, workerVars
  <2>q. QED
    BY <1>2, <2>1 DEF chanVars, Kept
<1>4. CASE \/ Start \/ StopRequest \/ StopNotify \/ StopJoin \/ Tick
           \/ \E t \in Channels \cup {Worker} : SpuriousWakeup(t)
           \/ \E c \in Channels, frameAge \in 0 .. MaxFrameAge + 1 : Submit(c, frameAge)
  BY <1>4 DEF Start, StopRequest, StopNotify, StopJoin, Tick, SpuriousWakeup, Submit, chanVars,
              workerVars, Kept
<1>5. CASE WorkerSleep
  <2>1. order \in Seq(Channels) /\ nextRR \in Nat /\ (nextRR < Len(order) \/ nextRR = 0)
    BY OrderInShape
  <2>2. order # <<>> => nextRR % Len(order) = nextRR
    BY <2>1
  <2>3. /\ pc' = pc /\ order' = order /\ channels' = channels
        /\ nextRR' = (IF order = <<>> THEN nextRR ELSE nextRR % Len(order))
    BY <1>5 DEF WorkerSleep, workerVars
  <2>q. QED
    BY <2>2, <2>3 DEF Kept
<1>6. CASE WorkerExit \/ WorkerTimeout \/ WorkerFinish \/ CallbackReturn
  BY <1>6 DEF WorkerExit, WorkerTimeout, WorkerFinish, CallbackReturn, chanVars, workerVars, Kept
<1>7. CASE WorkerDispatch
  BY <1>7 DEF WorkerDispatch, Kept
<1>q. QED
  BY <1>1, <1>3, <1>4, <1>5, <1>6, <1>7 DEF Next, WorkerStep

\* A dispatch takes the ready channel whose turn comes first.
LEMMA FirstTurnDispatched ==
  ASSUME IInv, WorkerDispatch
  PROVE  \E j \in 1 .. Len(order) :
           /\ order[j] = job'.channel
           /\ nextRR' = (nextRR + Turn(j) + 1) % Len(order)
           /\ \A i \in 1 .. Len(order) : Ready(order[i]) /\ order[i] # job'.channel => Turn(i) > Turn(j)
<1>1. /\ order \in Seq(Channels) /\ nextRR \in Nat /\ Len(order) \in Nat
      /\ nextRR < Len(order) \/ nextRR = 0
      /\ \A k, l \in 1 .. Len(order) : order[k] = order[l] => k = l
  BY OrderInShape
<1>2. PICK offset \in 0 .. Len(order) - 1 :
        /\ FirstReady(offset)
        /\ job' = [channel |-> ScanAt(offset), completion |-> completion[ScanAt(offset)]]
        /\ nextRR' = (nextRR + offset + 1) % Len(order)
  BY DEF WorkerDispatch
<1>3. nextRR < Len(order)
  BY <1>1, <1>2
<1>4. PICK j \in 1 .. Len(order) : order[j] = ScanAt(offset)
  <2>1. ((nextRR + offset) % Len(order)) + 1 \in 1 .. Len(order)
    BY <1>1, <1>2
  <2> QED
    BY <2>1 DEF ScanAt
<1>5. offset = Turn(j)
  BY <1>1, <1>3, <1>4, ScanIsInTurn
<1>6. ASSUME NEW i \in 1 .. Len(order), Ready(order[i]), order[i] # ScanAt(offset)
      PROVE  Turn(i) > offset
  <2>1. Turn(i) \in 0 .. Len(order) - 1 /\ ScanAt(Turn(i)) = order[i]
    BY <1>1, <1>3, ScanIsInTurn
  <2>2. Turn(i) \notin 0 .. offset - 1
    BY <1>2, <1>6, <2>1 DEF FirstReady
  <2> QED
    BY <1>1, <1>6, <2>1, <2>2
<1> QED
  BY <1>2, <1>4, <1>5, <1>6

\* A step leaves everybody who was overtaken ahead of who overtook.
LEMMA OvertakingKeeps ==
  ASSUME IInv, OvertakenComeLater, RRNext
  PROVE  OvertakenComeLater'
<1>1. overtaken' \in [Channels -> SUBSET channels']
  BY DEF RRNext, Overtake
<1>2. ASSUME NEW c \in Channels, NEW d \in overtaken'[c]
      PROVE  /\ Ready(c) /\ ~PassedOver(c)
             /\ Dispatched => c # job'.channel
             /\ d \in overtaken[c] \/ (Dispatched /\ d = job'.channel)
  BY <1>2 DEF RRNext, Overtake
<1>3. ASSUME NEW c \in Channels, NEW i \in 1 .. Len(order'), NEW j \in 1 .. Len(order'),
             order'[i] = c, order'[j] \in overtaken'[c]
      PROVE  Turn(i)' < Turn(j)'
  <2>1. /\ Ready(c) /\ ~PassedOver(c)
        /\ Dispatched => c # job'.channel
        /\ order'[j] \in overtaken[c] \/ (Dispatched /\ order'[j] = job'.channel)
    BY <1>2, <1>3
  <2>2. /\ order \in Seq(Channels) /\ nextRR \in Nat /\ Len(order) \in Nat
        /\ nextRR < Len(order) \/ nextRR = 0
        /\ \A k, l \in 1 .. Len(order) : order[k] = order[l] => k = l
    BY OrderInShape
  <2>3. CASE Kept
    <3>1. /\ order' = order /\ (WorkerDispatch \/ (nextRR' = nextRR /\ ~Dispatched))
          /\ i \in 1 .. Len(order) /\ j \in 1 .. Len(order)
      BY <2>3, <1>3 DEF Kept
    <3>2. order[j] \in overtaken[c] => Turn(i) < Turn(j)
      BY <1>3, <3>1 DEF OvertakenComeLater
    <3>3. CASE WorkerDispatch
      <4>1. PICK k \in 1 .. Len(order) :
              /\ order[k] = job'.channel
              /\ nextRR' = (nextRR + Turn(k) + 1) % Len(order)
              /\ \A l \in 1 .. Len(order) : Ready(order[l]) /\ order[l] # job'.channel => Turn(l) > Turn(k)
        BY <3>3, FirstTurnDispatched
      <4>2. Dispatched
        BY <3>3 DEF Dispatched, WorkerDispatch, Awake
      <4>3. nextRR < Len(order)
        BY <2>2, <3>1
      <4>4. /\ Turn(i) \in 0 .. Len(order) - 1 /\ Turn(j) \in 0 .. Len(order) - 1
            /\ Turn(k) \in 0 .. Len(order) - 1
        BY <3>1, <2>2, <4>3, ScanIsInTurn
      <4>5. /\ Turn(i)' = IF Turn(i) > Turn(k) THEN Turn(i) - Turn(k) - 1
                                               ELSE Turn(i) - Turn(k) - 1 + Len(order)
            /\ Turn(j)' = IF Turn(j) > Turn(k) THEN Turn(j) - Turn(k) - 1
                                               ELSE Turn(j) - Turn(k) - 1 + Len(order)
        BY <3>1, <2>2, <4>1, <4>3, <4>4, TurnAfterDispatch
      <4>6. Turn(i) > Turn(k)
        BY <1>3, <2>1, <3>1, <4>1, <4>2
      <4>7. Turn(i) < Turn(j) \/ j = k
        BY <2>1, <3>1, <3>2, <2>2, <4>1
      <4> HIDE DEF Turn
      <4> QED
        BY SMTT(20), <2>2, <4>4, <4>5, <4>6, <4>7
    <3>4. CASE nextRR' = nextRR /\ ~Dispatched
      BY <2>1, <3>1, <3>2, <3>4 DEF Turn
    <3> QED
      BY <3>1, <3>3, <3>4
  <2>4. CASE Added
    <3>1. PICK d \in Channels \ channels : order' = Append(order, d)
      BY <2>4 DEF Added
    <3>2. order'[j] \in overtaken[c] /\ c \in channels /\ order'[j] # d /\ c # d
      BY <2>1, <2>4, <3>1 DEF Added, OvertakenComeLater, Ready, Candidate, IInv, SlotInv
    <3>3. i \in 1 .. Len(order) /\ j \in 1 .. Len(order) /\ order[i] = c /\ order[j] = order'[j]
      BY <1>3, <2>2, <3>1, <3>2
    <3>4. Turn(i) < Turn(j)
      BY <3>2, <3>3 DEF OvertakenComeLater
    <3> QED
      BY <2>2, <2>4, <3>1, <3>3, <3>4, TurnAfterRegister DEF Added
  <2>5. CASE Removed
    <3>1. PICK k \in 1 .. Len(order) :
            channels' = channels \ {order[k]} /\ order' = OrderWithout(k)
      BY <2>5 DEF Removed
    <3> DEFINE oldI == IF i < k THEN i ELSE i + 1
               oldJ == IF j < k THEN j ELSE j + 1
    <3>2. /\ oldI \in 1 .. Len(order) /\ order[oldI] = c
          /\ oldJ \in 1 .. Len(order) /\ order[oldJ] = order'[j]
      BY <1>3, <2>2, <3>1 DEF OrderWithout
    <3>3. Turn(oldI) < Turn(oldJ)
      BY <2>1, <2>5, <3>2 DEF Removed, OvertakenComeLater
    <3>4. ~(k \in 1 .. nextRR /\ oldI = nextRR + 1)
      BY <2>1, <3>1, <3>2 DEF PassedOver
    <3>5. nextRR' = (IF order' = <<>> THEN 0 ELSE nextRR % Len(order'))
      BY <2>5 DEF Removed
    <3> QED
      BY <2>2, <3>1, <3>3, <3>4, <3>5, TurnAfterErase
  <2> QED
    BY <2>3, <2>4, <2>5, StepOnOrder DEF RRNext
<1> QED
  BY <1>1, <1>3 DEF OvertakenComeLater

\* Nothing else dispatches.
LEMMA DispatchedByWorker ==
  ASSUME Next, Dispatched
  PROVE  WorkerDispatch
<1> USE DEF Dispatched
<1>1. ASSUME NEW c \in Channels,
             (\E withCompletion \in BOOLEAN : Register(c, withCompletion)) \/ Unregister(c)
               \/ UnregisterRecheck(c) \/ \E frameAge \in 0 .. MaxFrameAge + 1 : Submit(c, frameAge)
      PROVE  FALSE
  BY <1>1 DEF Register, Unregister, UnregisterRecheck, Submit, workerVars
<1>2. ~(Start \/ StopRequest \/ StopNotify \/ StopJoin \/ Tick
          \/ \E t \in Channels \cup {Worker} : SpuriousWakeup(t))
  BY DEF Start, StopRequest, StopNotify, StopJoin, Tick, SpuriousWakeup, workerVars
<1>3. ~(WorkerSleep \/ WorkerExit \/ WorkerTimeout \/ WorkerFinish \/ CallbackReturn)
  BY DEF WorkerSleep, WorkerExit, WorkerTimeout, WorkerFinish, CallbackReturn, workerVars
<1> QED
  BY <1>1, <1>2, <1>3 DEF Next, WorkerStep

\* What NobodyOvertakesTwice says of one step.
LEMMA OvertakesOnce ==
  ASSUME IInv, OvertakenComeLater, Next, NEW c \in Channels,
         Dispatched, Ready(c), job'.channel # c
  PROVE  job'.channel \notin overtaken[c]
<1>1. WorkerDispatch
  BY DispatchedByWorker
<1>2. PICK j \in 1 .. Len(order) :
        /\ order[j] = job'.channel
        /\ \A i \in 1 .. Len(order) : Ready(order[i]) /\ order[i] # job'.channel => Turn(i) > Turn(j)
  BY <1>1, FirstTurnDispatched
<1>3. PICK i \in 1 .. Len(order) : order[i] = c
  BY DEF Ready, Candidate, IInv, SlotInv, OrderMatchesChannels
<1>4. Turn(i) > Turn(j)
  BY <1>2, <1>3
<1>5. Turn(i) \in Int /\ Turn(j) \in Int
  BY DEF Turn, IInv, TypeOK
<1> QED
  BY <1>2, <1>3, <1>4, <1>5 DEF OvertakenComeLater

\* NobodyOvertakesTwice, for any number of channels and any rates: the round
\* robin of select_job_locked makes a ready channel wait for at most one job
\* of each other registration, and for one more of each whenever its turn is
\* passed over by an unregistration before the index.
THEOREM RoundRobinIsFair == RRSpec => NobodyOvertakesTwice
<1>1. RRSpec => Spec
  <2>1. RRInit => Init
    BY DEF RRInit
  <2>2. [RRNext]_rrVars => [Next]_vars
    BY DEF RRNext, rrVars
  <2> QED
    BY <2>1, <2>2, PTL DEF RRSpec, Spec
<1>2. RRInit => OvertakenComeLater
  BY DEF RRInit, OvertakenComeLater
<1>3. IInv /\ OvertakenComeLater /\ [RRNext]_rrVars => OvertakenComeLater'
  <2>1. ASSUME OvertakenComeLater, UNCHANGED rrVars PROVE OvertakenComeLater'
    BY <2>1 DEF OvertakenComeLater, Turn, rrVars, vars, chanVars
  <2> QED
    BY <2>1, OvertakingKeeps
<1>4. IInv /\ OvertakenComeLater /\ [RRNext]_rrVars =>
        [\A c \in Channels :
           Dispatched /\ Ready(c) /\ job'.channel # c => job'.channel \notin overtaken[c]]_rrVars
  BY OvertakesOnce DEF RRNext
<1>5. RRSpec => []OvertakenComeLater
  BY <1>1, <1>2, <1>3, Invariance, PTL DEF RRSpec
<1> QED
  BY <1>1, <1>4, <1>5, Invariance, PTL DEF RRSpec, NobodyOvertakesTwice
=============================================================================
