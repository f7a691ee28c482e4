---------------------------- MODULE NpuScheduler ----------------------------
(***************************************************************************)
(* The process-wide NPU scheduler (src/infer/NpuInferenceScheduler.cpp).   *)
(*                                                                         *)
(* Every channel owns a one-frame mailbox that a newer frame overwrites.   *)
(* One worker thread picks the mailboxes round robin, runs the executor    *)
(* without the mutex, and then calls the channel's completion callback,    *)
(* again without the mutex.  All callers (submit, register, unregister,    *)
(* start, stop) and the worker share one mutex and one condition variable. *)
(*                                                                         *)
(* A critical section of the code is one action here.  A thread blocked in *)
(* wakeup_ is a member of waiters; notify_all empties the set, notify_one  *)
(* removes some member, and a removed thread re-enters its loop.           *)
(*                                                                         *)
(* Time is relative: a deadline is the number of ticks left until it, 0    *)
(* once it has passed, and a frame carries its age.  This keeps the model  *)
(* finite without bounding the run of the clock.                           *)
(*                                                                         *)
(* A definition marked (fault) is no part of the specification: it is a    *)
(* plausible mistake in the definition after it, and put in its place it   *)
(* makes one of the properties fail.                                       *)
(***************************************************************************)
EXTENDS Integers, Sequences, FiniteSets

CONSTANTS
  Channels,          \* the channel ids
  Worker,            \* the worker thread, as a member of waiters
  None,              \* no channel
  Period,            \* per channel, 1000 / target_infer_fps in ticks
  MaxFrameAge,       \* config_.max_frame_age_ms in ticks, 0 disables the check
  StatsInterval,     \* config_.stats_interval_sec in ticks
  MaxRegistrations   \* bound: per channel id, times it is registered

\* validate_npu_scheduler_config: ages are not negative, the statistics
\* interval is positive; 1000 / target_infer_fps may be 0.
ASSUME SchedulerAssumption ==
  /\ Worker \notin Channels
  /\ None \notin Channels
  /\ Period \in [Channels -> Nat]
  /\ MaxFrameAge \in Nat
  /\ StatsInterval \in Nat \ {0}
  /\ MaxRegistrations \in [Channels -> Nat]

VARIABLES
  channels,        \* the keys of channels_
  order,           \* channel_order_
  nextRR,          \* next_round_robin_index_
  registered,      \* per channel, ChannelState.registered
  mailbox,         \* per channel, the age of latest_frame, or NoFrame
  eligibleIn,      \* per channel, ticks until next_eligible_at
  running,         \* per channel, ChannelState.running
  callbacks,       \* per channel, ChannelState.callbacks_in_flight
  completion,      \* per channel, the completion: the registration that owns it, 0 if empty
  registrations,   \* per channel, how often it has been registered
  accepting, stopRequested, workerRunning,
  statsIn,         \* ticks until the statistics window ends
  pc,              \* where the worker is: off, loop, exec, callback
  job,             \* the worker's PendingJob
  wakeIn,          \* ticks until the worker's wait_until expires
  waiters,         \* threads blocked in wakeup_
  stopPc           \* where the thread calling stop() is: idle, notify, join

chanVars   == <<channels, order, nextRR>>
slotVars   == <<registered, mailbox, eligibleIn, running, callbacks, completion>>
flagVars   == <<accepting, stopRequested, workerRunning>>
workerVars == <<pc, job>>
timerVars  == <<statsIn, wakeIn>>
vars == <<chanVars, slotVars, registrations, flagVars, timerVars, workerVars, waiters, stopPc>>

NoFrame == -1
NoJob == [channel |-> None, completion |-> 0]

Init ==
  /\ channels = {}
  /\ order = <<>>
  /\ nextRR = 0
  /\ registered = [c \in Channels |-> FALSE]
  /\ mailbox = [c \in Channels |-> NoFrame]
  /\ eligibleIn = [c \in Channels |-> 0]
  /\ running = [c \in Channels |-> FALSE]
  /\ callbacks = [c \in Channels |-> 0]
  /\ completion = [c \in Channels |-> 0]
  /\ registrations = [c \in Channels |-> 0]
  /\ accepting = FALSE
  /\ stopRequested = FALSE
  /\ workerRunning = FALSE
  /\ statsIn = 0
  /\ pc = "off"
  /\ job = NoJob
  /\ wakeIn = 0
  /\ waiters = {}
  /\ stopPc = "idle"

-----------------------------------------------------------------------------
(* The condition variable.                                                 *)

\* (fault) a forgotten notification
NoNotify == waiters' = waiters

\* notify_all wakes every waiter.
NotifyAll == waiters' = {}

\* notify_one wakes an arbitrary waiter.
NotifyOne ==
  IF waiters = {} THEN waiters' = {}
                  ELSE \E t \in waiters : waiters' = waiters \ {t}

\* The standard allows any waiter to return from wait without a notification.
SpuriousWakeup(t) ==
  /\ t \in waiters
  /\ waiters' = waiters \ {t}
  /\ UNCHANGED <<chanVars, slotVars, registrations, flagVars, timerVars, workerVars, stopPc>>

-----------------------------------------------------------------------------
(* Callers: InferThread registers, submits and unregisters its channel,    *)
(* main starts and stops the scheduler.                                    *)

\* register_channel: a fresh ChannelState at the end of the order.  The
\* completion is empty (0) when the caller passes none.
Register(c, withCompletion) ==
  /\ c \notin channels
  /\ registrations[c] < MaxRegistrations[c]
  /\ registrations' = [registrations EXCEPT ![c] = @ + 1]
  /\ channels' = channels \cup {c}
  /\ order' = Append(order, c)
  /\ registered' = [registered EXCEPT ![c] = TRUE]
  /\ mailbox' = [mailbox EXCEPT ![c] = NoFrame]
  /\ eligibleIn' = [eligibleIn EXCEPT ![c] = 0]
  /\ running' = [running EXCEPT ![c] = FALSE]
  /\ callbacks' = [callbacks EXCEPT ![c] = 0]
  /\ completion' = [completion EXCEPT ![c] = IF withCompletion THEN registrations'[c] ELSE 0]
  /\ NotifyAll
  /\ UNCHANGED <<nextRR, flagVars, timerVars, workerVars, stopPc>>

Submit(c, frameAge) ==
  /\ accepting
  /\ c \in channels
  /\ registered[c]
  /\ mailbox' = [mailbox EXCEPT ![c] = frameAge]
  /\ NotifyOne
  /\ UNCHANGED <<chanVars, registered, eligibleIn, running, callbacks, completion,
                 registrations, flagVars, timerVars, workerVars, stopPc>>

\* The predicate unregister_channel waits for.
\* (fault) unregister_channel does not wait for the executor
IdleIgnoresRunning(c) == callbacks[c] = 0
\* (fault) unregister_channel does not wait for the callback
IdleIgnoresCallbacks(c) == ~running[c]
Idle(c) == ~running[c] /\ callbacks[c] = 0

\* The tail of unregister_channel, once the channel is idle: erase it, keep
\* the round robin index inside the shorter order, wake everybody.
\* (register_channel refuses a duplicate, so the order holds the id once.)
OrderWithout(k) ==
  [i \in 1 .. Len(order) - 1 |-> order[IF i < k THEN i ELSE i + 1]]

\* (fault) an unregistration makes the scan start again at the first channel
EraseToFirst(c) ==
  /\ channels' = channels \ {c}
  /\ \E k \in 1 .. Len(order) : order[k] = c /\ order' = OrderWithout(k)
  /\ nextRR' = 0
  /\ NotifyAll
Erase(c) ==
  /\ channels' = channels \ {c}
  /\ \E k \in 1 .. Len(order) : order[k] = c /\ order' = OrderWithout(k)
  /\ nextRR' = IF order' = <<>> THEN 0 ELSE nextRR % Len(order')
  /\ NotifyAll

\* unregister_channel up to its wait: the frame and the callback are dropped
\* at once; an idle channel is erased in the same critical section, a busy
\* one makes the caller wait (after it has woken everybody else).
Unregister(c) ==
  /\ c \in channels
  /\ registered[c]
  /\ registered' = [registered EXCEPT ![c] = FALSE]
  /\ mailbox' = [mailbox EXCEPT ![c] = NoFrame]
  /\ completion' = [completion EXCEPT ![c] = 0]
  /\ IF Idle(c) THEN Erase(c)
                ELSE waiters' = {c} /\ UNCHANGED chanVars
  /\ UNCHANGED <<eligibleIn, running, callbacks, registrations, flagVars, timerVars,
                 workerVars, stopPc>>

\* The caller of unregister_channel, awake again, tests its predicate.
UnregisterRecheck(c) ==
  /\ c \in channels
  /\ ~registered[c]
  /\ c \notin waiters
  /\ IF Idle(c) THEN Erase(c)
                ELSE waiters' = waiters \cup {c} /\ UNCHANGED chanVars
  /\ UNCHANGED <<slotVars, registrations, flagVars, timerVars, workerVars, stopPc>>

\* start: only a stopped scheduler spawns a worker.
Start ==
  /\ ~workerRunning
  /\ stopPc = "idle"
  /\ accepting' = TRUE
  /\ stopRequested' = FALSE
  /\ workerRunning' = TRUE
  /\ statsIn' = StatsInterval
  /\ pc' = "loop"
  /\ UNCHANGED <<chanVars, slotVars, registrations, wakeIn, job, waiters, stopPc>>

\* stop, the critical section: refuse new frames and drop the pending ones.
StopRequest ==
  /\ workerRunning
  /\ stopPc = "idle"
  /\ accepting' = FALSE
  /\ stopRequested' = TRUE
  /\ mailbox' = [c \in Channels |-> NoFrame]
  /\ stopPc' = "notify"
  /\ UNCHANGED <<chanVars, registered, eligibleIn, running, callbacks, completion,
                 registrations, workerRunning, timerVars, workerVars, waiters>>

\* stop, after the mutex is released.
StopNotify ==
  /\ stopPc = "notify"
  /\ NotifyAll
  /\ stopPc' = "join"
  /\ UNCHANGED <<chanVars, slotVars, registrations, flagVars, timerVars, workerVars>>

\* stop returns from join once the worker's function has returned.
StopJoin ==
  /\ stopPc = "join"
  /\ pc = "off"
  /\ stopPc' = "idle"
  /\ UNCHANGED <<chanVars, slotVars, registrations, flagVars, timerVars, workerVars, waiters>>

-----------------------------------------------------------------------------
(* The worker.                                                             *)

Awake == pc = "loop" /\ Worker \notin waiters

\* drop_stale_locked keeps the frames that are not older than the limit.
AfterStaleDrop ==
  [c \in Channels |-> IF MaxFrameAge > 0 /\ mailbox[c] > MaxFrameAge
                        THEN NoFrame ELSE mailbox[c]]

\* A channel select_job_locked does not skip outright.
Candidate(c) ==
  registered[c] /\ AfterStaleDrop[c] # NoFrame /\ ~running[c]

Ready(c) == Candidate(c) /\ eligibleIn[c] = 0

\* The channel select_job_locked examines at a given offset of its scan.
\* (fault) every scan starts at the first channel
ScanFromFirst(offset) == order[offset + 1]
ScanAt(offset) == order[((nextRR + offset) % Len(order)) + 1]

\* The first ready channel of the scan that starts at nextRR.
FirstReady(offset) ==
  /\ Ready(ScanAt(offset))
  /\ \A earlier \in 0 .. offset - 1 : ~Ready(ScanAt(earlier))

\* emit_stats_if_due_locked restarts the window once it is over.
StatsAfterEmit == IF statsIn = 0 THEN StatsInterval ELSE statsIn

WorkerExit ==
  /\ Awake
  /\ stopRequested
  /\ workerRunning' = FALSE
  /\ pc' = "off"
  /\ UNCHANGED <<chanVars, slotVars, registrations, accepting, stopRequested, timerVars,
                 job, waiters, stopPc>>

\* run: emit statistics, drop stale frames, take the first ready mailbox.
WorkerDispatch ==
  /\ Awake
  /\ ~stopRequested
  /\ \E offset \in 0 .. Len(order) - 1 :
       LET c == ScanAt(offset) IN
       /\ FirstReady(offset)
       /\ job' = [channel |-> c, completion |-> completion[c]]
       /\ mailbox' = [AfterStaleDrop EXCEPT ![c] = NoFrame]
       /\ running' = [running EXCEPT ![c] = TRUE]
       /\ eligibleIn' = [eligibleIn EXCEPT ![c] = Period[c]]
       /\ nextRR' = (nextRR + offset + 1) % Len(order)
  /\ statsIn' = StatsAfterEmit
  /\ pc' = "exec"
  /\ UNCHANGED <<channels, order, registered, callbacks, completion, registrations,
                 flagVars, wakeIn, waiters, stopPc>>

\* The deadlines wait_until chooses from: the end of the statistics window
\* and the channels that only the rate limit holds back.
Deadlines ==
  {StatsAfterEmit} \cup {eligibleIn[c] : c \in {d \in Channels : Candidate(d)}}

\* run: nothing is ready, so sleep until the nearest deadline.
WorkerSleep ==
  /\ Awake
  /\ ~stopRequested
  /\ \A c \in Channels : ~Ready(c)
  /\ mailbox' = AfterStaleDrop
  /\ nextRR' = IF order = <<>> THEN nextRR ELSE nextRR % Len(order)
  /\ statsIn' = StatsAfterEmit
  /\ wakeIn' \in Deadlines
  /\ \A t \in Deadlines : wakeIn' <= t
  /\ waiters' = waiters \cup {Worker}
  /\ UNCHANGED <<channels, order, registered, eligibleIn, running, callbacks, completion,
                 registrations, flagVars, workerVars, stopPc>>

\* wait_until returns at its deadline.
WorkerTimeout ==
  /\ Worker \in waiters
  /\ wakeIn = 0
  /\ waiters' = waiters \ {Worker}
  /\ UNCHANGED <<chanVars, slotVars, registrations, flagVars, timerVars, workerVars, stopPc>>

\* The condition under which run enters the completion callback.
\* (fault) the completion is called although a stop was requested
MayCallBackDuringStop(c) == registered[c] /\ job.completion # 0
MayCallBack(c) == ~stopRequested /\ registered[c] /\ job.completion # 0

\* run, after the executor returned: the channel is no longer running, and
\* its callback is entered unless the scheduler stops or the channel is
\* being unregistered.  (Success or failure only chooses the counter.)
WorkerFinish ==
  LET c == job.channel IN
  /\ pc = "exec"
  /\ IF c \in channels
       THEN /\ running' = [running EXCEPT ![c] = FALSE]
            /\ IF MayCallBack(c)
                 THEN /\ callbacks' = [callbacks EXCEPT ![c] = @ + 1]
                      /\ pc' = "callback"
                      /\ UNCHANGED job
                 ELSE pc' = "loop" /\ job' = NoJob /\ UNCHANGED callbacks
       ELSE pc' = "loop" /\ job' = NoJob /\ UNCHANGED <<running, callbacks>>
  /\ NotifyAll
  /\ UNCHANGED <<chanVars, registered, mailbox, eligibleIn, completion, registrations,
                 flagVars, timerVars, stopPc>>

\* run, after the completion callback returned.
CallbackReturn ==
  LET c == job.channel IN
  /\ pc = "callback"
  /\ callbacks' = IF c \in channels /\ callbacks[c] > 0
                    THEN [callbacks EXCEPT ![c] = @ - 1] ELSE callbacks
  /\ pc' = "loop"
  /\ job' = NoJob
  /\ NotifyAll
  /\ UNCHANGED <<chanVars, registered, mailbox, eligibleIn, running, completion,
                 registrations, flagVars, timerVars, stopPc>>

-----------------------------------------------------------------------------
\* One tick of steady_clock.  Ages saturate just above the limit.
\* (fault) a deadline that has passed keeps moving
Minus1Unclamped(n) == n - 1
Minus1(n) == IF n > 0 THEN n - 1 ELSE 0

Tick ==
  /\ eligibleIn' = [c \in Channels |-> Minus1(eligibleIn[c])]
  /\ mailbox' = [c \in Channels |-> IF mailbox[c] = NoFrame \/ mailbox[c] > MaxFrameAge
                                      THEN mailbox[c] ELSE mailbox[c] + 1]
  /\ statsIn' = Minus1(statsIn)
  /\ wakeIn' = Minus1(wakeIn)
  /\ UNCHANGED <<chanVars, registered, running, callbacks, completion, registrations,
                 flagVars, workerVars, waiters, stopPc>>

WorkerStep ==
  WorkerExit \/ WorkerDispatch \/ WorkerSleep \/ WorkerTimeout \/ WorkerFinish \/ CallbackReturn

Next ==
  \/ \E c \in Channels :
       \/ \E withCompletion \in BOOLEAN : Register(c, withCompletion)
       \/ \E frameAge \in 0 .. MaxFrameAge + 1 : Submit(c, frameAge)
       \/ Unregister(c)
       \/ UnregisterRecheck(c)
  \/ Start \/ StopRequest \/ StopNotify \/ StopJoin
  \/ WorkerStep
  \/ Tick
  \/ \E t \in Channels \cup {Worker} : SpuriousWakeup(t)

Spec == Init /\ [][Next]_vars

\* The operating system runs every runnable thread and the clock advances;
\* callers are free to submit, register, start and stop, or not to.
Fairness ==
  /\ WF_vars(WorkerStep)
  /\ WF_vars(Tick)
  /\ WF_vars(StopNotify)
  /\ WF_vars(StopJoin)
  /\ \A c \in Channels : WF_vars(UnregisterRecheck(c))

FairSpec == Spec /\ Fairness

-----------------------------------------------------------------------------
(* Properties.                                                             *)

\* Every variable stays in its range; in particular at most one callback of
\* a channel is in flight and the round robin index is a valid position.
TypeOK ==
  /\ channels \subseteq Channels
  /\ order \in Seq(Channels)
  /\ nextRR \in Nat
  /\ registered \in [Channels -> BOOLEAN]
  /\ mailbox \in [Channels -> NoFrame .. MaxFrameAge + 1]
  /\ eligibleIn \in [Channels -> Nat]
  /\ running \in [Channels -> BOOLEAN]
  /\ callbacks \in [Channels -> 0 .. 1]
  /\ completion \in [Channels -> Nat]
  /\ registrations \in [Channels -> Nat]
  /\ accepting \in BOOLEAN
  /\ stopRequested \in BOOLEAN
  /\ workerRunning \in BOOLEAN
  /\ statsIn \in Nat
  /\ pc \in {"off", "loop", "exec", "callback"}
  /\ job \in [channel : Channels \cup {None}, completion : Nat]
  /\ wakeIn \in Nat
  /\ waiters \subseteq Channels \cup {Worker}
  /\ stopPc \in {"idle", "notify", "join"}

\* While the executor runs a frame, the registration that submitted it is
\* still there and is the one marked running: unregister_channel cannot
\* return, nor the id be registered again, under a job in flight.
JobBelongsToItsRegistration ==
  pc = "exec" =>
    /\ job.channel \in channels
    /\ running[job.channel]
    /\ job.completion \in {0, registrations[job.channel]}

\* A completion callback runs only while the registration it was passed with
\* still exists: InferThread, whose `this` the callback captured, has not
\* returned from unregister_channel and cannot have been destroyed.
CallbackOnlyToLiveOwner ==
  pc = "callback" =>
    /\ job.channel \in channels
    /\ job.completion = registrations[job.channel]

\* Global serial execution: the channels marked running are exactly the one
\* whose job is at the executor, and a channel with a callback in flight is
\* never at the executor as well.
AtMostOneJob ==
  \A c \in Channels :
    /\ running[c] <=> (pc = "exec" /\ job.channel = c)
    /\ callbacks[c] > 0 <=> (pc = "callback" /\ job.channel = c)

\* What unregister_channel promises InferThread: the one job at the executor and
\* the one callback in flight belong to a registration that still exists.
OneJobOfALiveOwner ==
  JobBelongsToItsRegistration /\ CallbackOnlyToLiveOwner /\ AtMostOneJob

\* No lost wakeup of the worker: asleep, it has no frame it could take before
\* its deadline, and a requested stop is still about to be notified.  The
\* notify_one of submit shares the condition variable with unregister_channel.
WorkerNeverOversleeps ==
  Worker \in waiters =>
    /\ \A c \in Channels : registered[c] /\ mailbox[c] # NoFrame => wakeIn <= eligibleIn[c]
    /\ wakeIn <= statsIn
    /\ stopRequested => stopPc = "notify"

\* No lost wakeup of unregister_channel: its caller sleeps only while the
\* worker executes the channel's job or runs its callback.
UnregisterSleepsOnlyWhileBusy ==
  \A c \in waiters \cap Channels :
    c \in channels /\ ~registered[c] /\ ~Idle(c)

\* The condition variable that submit, stop, unregister_channel and the worker
\* share leaves nobody asleep who has something to do.
NoSleeperIsForgotten == WorkerNeverOversleeps /\ UnregisterSleepsOnlyWhileBusy

\* A scheduler whose worker has ended, or that has been told to stop, holds
\* no frame, and without its worker no job and no callback is left behind.
QuiescentWhenStopped ==
  /\ stopRequested \/ ~workerRunning => \A c \in Channels : mailbox[c] = NoFrame
  /\ ~workerRunning => \A c \in Channels : Idle(c)

\* channels_ and channel_order_ name the same channels, none twice, and the
\* scan starts at a position of the order even after an unregistration.
OrderMatchesChannels ==
  /\ channels = {order[i] : i \in 1 .. Len(order)}
  /\ \A i, j \in 1 .. Len(order) : order[i] = order[j] => i = j
  /\ nextRR < Len(order) \/ nextRR = 0

\* stop() has drained the worker before it returns: in the step that leaves
\* join, no callback is running, and none starts once a stop is requested.
NoCallbackAfterStop ==
  [][/\ pc # "callback" /\ pc' = "callback" => ~stopRequested
     /\ stopPc = "join" /\ stopPc' = "idle" => pc \notin {"exec", "callback"}]_vars

\* stop() drains the scheduler: no callback starts once it is requested, none is
\* running when it returns, and no frame or job stays behind or comes later.
StopLeavesNothing == []QuiescentWhenStopped /\ NoCallbackAfterStop

\* The scheduler as its callers see it: an open channel is served at most one
\* job at a time, answered only while open, and closed in one step.
Service == INSTANCE NpuService WITH
  open <- channels,
  mail <- {c \in Channels : mailbox[c] # NoFrame},
  serving <- job.channel,
  answering <- (pc = "callback")

ImplementsService == Service!Spec

\* unregister_channel returns.
UnregisterReturns ==
  \A c \in Channels : c \in channels /\ ~registered[c] ~> c \notin channels

\* stop returns.
StopReturns == stopPc # "idle" ~> stopPc = "idle"

\* A thread that closes its channel or the scheduler is not kept for ever,
\* whatever the other channels submit meanwhile.
ClosingCallsReturn == UnregisterReturns /\ StopReturns

\* With no age limit, a submitted frame (or the one that replaced it) is
\* dispatched in the end however often the other channels submit, unless the
\* channel is unregistered or the scheduler stopped.
EveryMailboxServed ==
  \A c \in Channels :
    registered[c] /\ mailbox[c] # NoFrame
      ~> (running[c] \/ ~registered[c] \/ stopRequested)
=============================================================================
