-------------------------- MODULE NpuSchedulerStats -------------------------
(***************************************************************************)
(* The counters of NpuInferenceScheduler: what every action of             *)
(* NpuScheduler adds to NpuChannelStats and to the global NpuSchedulerStats,*)
(* and the statistics window after which the worker logs and clears them.  *)
(* Sample vectors, averages, percentiles and the throttled counter, which  *)
(* classifies frames the other counters already explain, are left out.     *)
(***************************************************************************)
EXTENDS NpuScheduler

CONSTANT MaxReceived   \* bound: frames a channel submits in one window

ASSUME StatsAssumption == MaxReceived \in Nat

VARIABLES
  stat,       \* per channel, its NpuChannelStats
  total,      \* the global counters
  carried,    \* history: per channel, frames pending when the window began
  discarded   \* history: per channel, pending frames a stop or an
              \* unregistration cleared in this window; no counter of the code

statVars == <<stat, total, carried, discarded>>

Counters == {"received", "mailbox_replaced", "stale_dropped", "dispatched",
             "completed", "failed"}
Totals == {"mailbox_replaced", "stale_dropped", "dispatched", "completed", "failed"}

NoStats == [k \in Counters |-> 0]
NoTotals == [k \in Totals |-> 0]
One(b) == IF b THEN 1 ELSE 0
Pending(c) == mailbox[c] # NoFrame

StatsInit ==
  /\ Init
  /\ stat = [c \in Channels |-> NoStats]
  /\ total = NoTotals
  /\ carried = [c \in Channels |-> 0]
  /\ discarded = [c \in Channels |-> 0]

\* register_channel, with a completion as InferThread always passes one.
CountRegister(c) ==
  /\ Register(c, TRUE)
  /\ stat' = [stat EXCEPT ![c] = NoStats]
  /\ carried' = [carried EXCEPT ![c] = 0]
  /\ discarded' = [discarded EXCEPT ![c] = 0]
  /\ UNCHANGED total

\* submit: an overwritten frame is counted as replaced.
CountSubmit(c, frameAge) ==
  /\ stat[c].received < MaxReceived
  /\ Submit(c, frameAge)
  /\ stat' = [stat EXCEPT
       ![c].received = @ + 1,
       ![c].mailbox_replaced = @ + One(Pending(c))]
  /\ total' = [total EXCEPT !.mailbox_replaced = @ + One(Pending(c))]
  /\ UNCHANGED <<carried, discarded>>

\* unregister_channel and stop clear mailboxes without counting.
CountDiscards ==
  /\ discarded' = [c \in Channels |-> discarded[c] + One(Pending(c))]
  /\ UNCHANGED <<stat, total, carried>>

CountUnregister(c) ==
  /\ Unregister(c)
  /\ discarded' = [discarded EXCEPT ![c] = @ + One(Pending(c))]
  /\ UNCHANGED <<stat, total, carried>>

CountStopRequest == StopRequest /\ CountDiscards

-----------------------------------------------------------------------------
(* The worker's iteration: log and clear the window when it is over, count *)
(* the stale frames it drops, then possibly dispatch one.                  *)

WindowOver == statsIn = 0
StaleNow(c) == Pending(c) /\ AfterStaleDrop[c] = NoFrame

\* emit_stats_if_due_locked: the global counters of the window in force.
TotalsOfWindow == IF WindowOver THEN NoTotals ELSE total

StatsOfWindow(c) == IF WindowOver THEN NoStats ELSE stat[c]

CarryOver ==
  /\ carried' = [c \in Channels |-> IF WindowOver THEN One(Pending(c)) ELSE carried[c]]
  /\ discarded' = [c \in Channels |-> IF WindowOver THEN 0 ELSE discarded[c]]

\* (fault) a stale frame is dropped without a trace
StaleUncounted(c) == StatsOfWindow(c)
\* drop_stale_locked, per channel.
AfterStale(c) == [StatsOfWindow(c) EXCEPT !.stale_dropped = @ + One(StaleNow(c))]

TotalsAfterStale ==
  [TotalsOfWindow EXCEPT !.stale_dropped = @ + Cardinality({c \in Channels : StaleNow(c)})]

CountDispatch ==
  /\ WorkerDispatch
  /\ stat' = [c \in Channels |->
       IF c = job'.channel THEN [AfterStale(c) EXCEPT !.dispatched = @ + 1] ELSE AfterStale(c)]
  /\ total' = [TotalsAfterStale EXCEPT !.dispatched = @ + 1]
  /\ CarryOver

CountSleep ==
  /\ WorkerSleep
  /\ stat' = [c \in Channels |-> AfterStale(c)]
  /\ total' = TotalsAfterStale
  /\ CarryOver

\* run, after the executor: success or failure, channel and global.
CountFinish(success) ==
  LET k == IF success THEN "completed" ELSE "failed" IN
  /\ WorkerFinish
  /\ IF job.channel \in channels
       THEN /\ stat' = [stat EXCEPT ![job.channel][k] = @ + 1]
            /\ total' = [total EXCEPT ![k] = @ + 1]
       ELSE UNCHANGED <<stat, total>>
  /\ UNCHANGED <<carried, discarded>>

StatsNext ==
  \/ \E c \in Channels :
       \/ CountRegister(c)
       \/ \E frameAge \in 0 .. MaxFrameAge + 1 : CountSubmit(c, frameAge)
       \/ CountUnregister(c)
       \/ UnregisterRecheck(c) /\ UNCHANGED statVars
  \/ CountStopRequest
  \/ CountDispatch
  \/ CountSleep
  \/ \E success \in BOOLEAN : CountFinish(success)
  \/ /\ \/ Start \/ StopNotify \/ StopJoin
        \/ WorkerExit \/ WorkerTimeout \/ CallbackReturn
        \/ Tick
     /\ UNCHANGED statVars

StatsSpec == StatsInit /\ [][StatsNext]_<<vars, statVars>>

-----------------------------------------------------------------------------
(* Properties.                                                             *)

\* The counters explain every frame a channel submitted: it was replaced,
\* dropped as stale, dispatched, is still pending, or was cleared by a stop.
EveryFrameExplained ==
  \A c \in channels :
    carried[c] + stat[c].received =
      stat[c].mailbox_replaced + stat[c].stale_dropped + stat[c].dispatched
        + discarded[c] + One(Pending(c))

\* No job is split between two windows: in each of them a channel's and the
\* scheduler's dispatched jobs have completed, failed, or are at the executor.
EveryJobExplained ==
  /\ \A c \in channels :
       stat[c].dispatched = stat[c].completed + stat[c].failed + One(running[c])
  /\ total.dispatched = total.completed + total.failed + One(pc = "exec")

\* What the registered channels have counted, one by one.
CountedByChannels(k) == UNION {{c} \X (1 .. stat[c][k]) : c \in channels}

\* The global counters include every channel's, those of channels that were
\* unregistered in the same window too.
TotalsCoverChannels == \A k \in Totals : Cardinality(CountedByChannels(k)) <= total[k]

\* The statistics add up although a window ends while frames are pending and a
\* job is at the executor, and although channels come, go and stop in it.
StatisticsAddUp == EveryFrameExplained /\ EveryJobExplained /\ TotalsCoverChannels
=============================================================================
