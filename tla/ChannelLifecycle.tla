--------------------------- MODULE ChannelLifecycle ---------------------------
(***************************************************************************)
(* Starting and stopping the channels: main (src/main.cpp), its            *)
(* ChannelPipelines (src/app/ChannelPipeline.cpp) with their five threads, *)
(* and the worker of the process-wide NPU scheduler that calls back into   *)
(* them.  main is sequential; every thread, every callback and SIGINT      *)
(* interleave with it.                                                     *)
(*                                                                         *)
(* A start may fail, a source may end by itself, the MQTT thread ends when *)
(* its first connection fails.  The frames and packets between source,     *)
(* encoder and publisher decide nothing here and are left out; what the    *)
(* NPU path and the MQTT queue hold is kept, since a completion callback   *)
(* waits for room in that queue.  NpuScheduler details the scheduler,      *)
(* BlockingQueue the queues, StreamThread the publisher.                   *)
(*                                                                         *)
(* Definitions marked (fault) are plausible mistakes, not specification.   *)
(***************************************************************************)
EXTENDS Integers, Sequences

CONSTANTS
  N,              \* number of channels, in the order of the configuration
  MqttCapacity    \* capacity of mqtt_queue

ASSUME LifecycleAssumption ==
  /\ N \in Nat \ {0}
  /\ MqttCapacity \in Nat \ {0}

Channels == 1 .. N
Parts == {"source", "infer", "encode", "stream", "mqtt"}
Queues == {"inputs", "stream", "mqtt"}      \* inputs: enc_queue and infer_queue

VARIABLES
  gRunning,      \* g_running: no signal yet
  phase,         \* main: start, undo (stop of the pipeline whose start failed),
                 \* run, sources, stop, scheduler, exit
  ch,            \* the pipeline main is at
  step,          \* its place in StartPlan or StopPlan
  thread,        \* per channel and part: none, alive, connect, push, ended, joined
  running,       \* per channel and part: running_
  sourceStarted, \* per channel: source_started_
  stopped,       \* per channel: stopped_
  closed,        \* per channel: the queues that are closed
  frame,         \* per channel: infer_queue holds a frame
  alerts,        \* per channel: length of mqtt_queue
  scheduled,     \* whether the configuration enables the NPU scheduler
  active,        \* channels registered with it and not being unregistered
  mailbox,       \* channels with a pending frame
  workerAt,      \* the NPU worker: none, idle, job, call, push, joined
  workerCh,      \* the channel it works for
  schedulerOn,   \* the scheduler accepts and dispatches frames
  executorOn     \* the RKNN context exists

mainVars == <<phase, ch, step, sourceStarted, stopped, closed>>
npuVars == <<active, mailbox, workerAt, workerCh>>
vars == <<gRunning, mainVars, thread, running, frame, alerts, scheduled, npuVars,
          schedulerOn, executorOn>>

\* A thread inside its function.
Live(t) == t \in {"alive", "connect", "push"}

\* (fault) the publisher is started after the source
StartPlanSourceEarly == <<"mqtt", "encode", "infer", "source", "stream">>

\* start(): consumers before producers.
StartPlan == <<"mqtt", "stream", "encode", "infer", "source">>

\* (fault) the MQTT queue is closed together with the input queues
StopPlanMqttEarly == <<
  <<"ask", "source">>, <<"join", "source">>, <<"close", "mqtt">>,
  <<"ask", "encode">>, <<"join", "encode">>,
  <<"ask", "infer">>, <<"join", "infer">>, <<"unregister", "infer">>, <<"await", "infer">>,
  <<"close", "stream">>, <<"ask", "stream">>, <<"join", "stream">>,
  <<"close", "inputs">>, <<"ask", "mqtt">>, <<"join", "mqtt">> >>

\* (fault) a thread is joined before it is told to stop
StopPlanJoinFirst == <<
  <<"join", "source">>, <<"ask", "source">>, <<"close", "inputs">>,
  <<"join", "encode">>, <<"ask", "encode">>,
  <<"join", "infer">>, <<"ask", "infer">>, <<"unregister", "infer">>, <<"await", "infer">>,
  <<"close", "stream">>, <<"join", "stream">>, <<"ask", "stream">>,
  <<"close", "mqtt">>, <<"join", "mqtt">>, <<"ask", "mqtt">> >>

\* stop(): ask sets running_, join waits for the thread; unregister and await
\* are the two halves of unregister_channel.
StopPlan == <<
  <<"ask", "source">>, <<"join", "source">>, <<"close", "inputs">>,
  <<"ask", "encode">>, <<"join", "encode">>,
  <<"ask", "infer">>, <<"join", "infer">>, <<"unregister", "infer">>, <<"await", "infer">>,
  <<"close", "stream">>, <<"ask", "stream">>, <<"join", "stream">>,
  <<"close", "mqtt">>, <<"ask", "mqtt">>, <<"join", "mqtt">> >>

Init ==
  /\ gRunning = TRUE
  /\ phase = "start"
  /\ ch = 1
  /\ step = 1
  /\ thread = [c \in Channels |-> [k \in Parts |-> "none"]]
  /\ running = [c \in Channels |-> [k \in Parts |-> FALSE]]
  /\ sourceStarted = [c \in Channels |-> FALSE]
  /\ stopped = [c \in Channels |-> FALSE]
  /\ closed = [c \in Channels |-> {}]
  /\ frame = [c \in Channels |-> FALSE]
  /\ alerts = [c \in Channels |-> 0]
  /\ scheduled \in BOOLEAN
  /\ active = {}
  /\ mailbox = {}
  /\ workerAt = IF scheduled THEN "idle" ELSE "none"
  /\ workerCh = 1
  /\ schedulerOn = scheduled
  /\ executorOn = scheduled

-----------------------------------------------------------------------------
(* main: start.                                                            *)

Signal ==
  /\ gRunning
  /\ gRunning' = FALSE
  /\ UNCHANGED <<mainVars, thread, running, frame, alerts, scheduled, npuVars, schedulerOn,
                 executorOn>>

\* The MQTT thread connects first.
Begun(k) == IF k = "mqtt" THEN "connect" ELSE "alive"

StartPart(k) ==
  /\ phase = "start"
  /\ StartPlan[step] = k
  /\ thread' = [thread EXCEPT ![ch][k] = Begun(k)]
  /\ running' = [running EXCEPT ![ch][k] = TRUE]
  /\ active' = IF k = "infer" /\ scheduled THEN active \cup {ch} ELSE active
  /\ sourceStarted' = IF k = "source" THEN [sourceStarted EXCEPT ![ch] = TRUE]
                                      ELSE sourceStarted
  /\ IF step < Len(StartPlan)
       THEN step' = step + 1 /\ UNCHANGED <<phase, ch>>
       ELSE /\ step' = 1
            /\ IF ch < N THEN ch' = ch + 1 /\ phase' = "start"
                         ELSE ch' = 1 /\ phase' = "run"
  /\ UNCHANGED <<gRunning, stopped, closed, frame, alerts, scheduled, mailbox, workerAt,
                 workerCh, schedulerOn, executorOn>>

\* The RTMP server, the encoder, the model or the camera cannot be opened: the
\* exception leaves no thread behind and start() stops its own pipeline.  With
\* the scheduler there is no model to load and registering cannot fail.
StartFails(k) ==
  /\ phase = "start"
  /\ StartPlan[step] = k
  /\ k # "mqtt"
  /\ k = "infer" => ~scheduled
  /\ phase' = "undo"
  /\ step' = 1
  /\ UNCHANGED <<gRunning, ch, thread, running, sourceStarted, stopped, closed, frame, alerts,
                 scheduled, npuVars, schedulerOn, executorOn>>

-----------------------------------------------------------------------------
(* main: stop.                                                             *)

\* The loop of main sees the signal and stops the sources first, in order.
Shutdown ==
  /\ phase = "run"
  /\ ~gRunning
  /\ phase' = "sources"
  /\ ch' = 1
  /\ step' = 1
  /\ UNCHANGED <<gRunning, thread, running, sourceStarted, stopped, closed, frame, alerts,
                 scheduled, npuVars, schedulerOn, executorOn>>

\* (fault) the failed pipeline alone is stopped
NextPipelineNoRollback ==
  /\ step' = 1
  /\ IF phase = "stop" /\ ch > 1 THEN phase' = "stop" /\ ch' = ch - 1
                                ELSE phase' = "scheduler" /\ ch' = ch

\* The last step of a stop(): the failed pipeline hands over to the rollback
\* loop, which like the normal one goes from the last channel to the first.
NextPipeline ==
  /\ step' = 1
  /\ CASE phase = "undo"           -> phase' = "stop" /\ ch' = N
       [] phase = "stop" /\ ch > 1 -> phase' = "stop" /\ ch' = ch - 1
       [] OTHER                    -> phase' = "scheduler" /\ ch' = ch

\* stop_source of every channel, then stop() of every channel.
NextSource ==
  /\ step' = 1
  /\ IF ch < N THEN phase' = "sources" /\ ch' = ch + 1
               ELSE phase' = "stop" /\ ch' = N

Advance ==
  CASE phase = "sources" /\ step = 2              -> NextSource
    [] phase # "sources" /\ step = Len(StopPlan)  -> NextPipeline
    [] OTHER                                      -> step' = step + 1 /\ UNCHANGED <<phase, ch>>

\* A pipeline that was stopped already is left alone.
SkipStopped ==
  /\ phase = "stop"
  /\ step = 1
  /\ stopped[ch]
  /\ NextPipeline
  /\ UNCHANGED <<gRunning, thread, running, sourceStarted, stopped, closed, frame, alerts,
                 scheduled, npuVars, schedulerOn, executorOn>>

Doing(op, of) ==
  /\ phase \in {"undo", "sources", "stop"}
  /\ StopPlan[step] = <<op, of>>
  /\ phase = "stop" /\ step = 1 => ~stopped[ch]

\* stop_source leaves a source alone that was never started, or is stopped.
Ask(k) ==
  /\ Doing("ask", k)
  /\ running' = IF k = "source" /\ ~sourceStarted[ch] THEN running
                ELSE [running EXCEPT ![ch][k] = FALSE]
  /\ Advance
  /\ UNCHANGED <<gRunning, thread, sourceStarted, stopped, closed, frame, alerts, scheduled,
                 npuVars, schedulerOn, executorOn>>

Join(k) ==
  /\ Doing("join", k)
  /\ ~Live(thread[ch][k])
  /\ thread' = [thread EXCEPT ![ch][k] = IF @ = "none" THEN @ ELSE "joined"]
  /\ sourceStarted' = IF k = "source" THEN [sourceStarted EXCEPT ![ch] = FALSE]
                                      ELSE sourceStarted
  /\ Advance
  /\ UNCHANGED <<gRunning, running, stopped, closed, frame, alerts, scheduled, npuVars,
                 schedulerOn, executorOn>>

\* stopped_ is set between stop_source and the first close.
Close(q) ==
  /\ Doing("close", q)
  /\ closed' = [closed EXCEPT ![ch] = @ \cup {q}]
  /\ stopped' = [stopped EXCEPT ![ch] = TRUE]
  /\ Advance
  /\ UNCHANGED <<gRunning, thread, running, sourceStarted, frame, alerts, scheduled, npuVars,
                 schedulerOn, executorOn>>

\* unregister_channel: no new job or callback, then wait for the current one.
Unregister ==
  /\ Doing("unregister", "infer")
  /\ active' = active \ {ch}
  /\ mailbox' = mailbox \ {ch}
  /\ Advance
  /\ UNCHANGED <<gRunning, thread, running, sourceStarted, stopped, closed, frame, alerts,
                 scheduled, workerAt, workerCh, schedulerOn, executorOn>>

WorkerServes(c) == workerAt \in {"job", "call", "push"} /\ workerCh = c

\* (fault) unregister_channel does not wait for the current job
AwaitNobody ==
  /\ Doing("await", "infer")
  /\ Advance
  /\ UNCHANGED <<gRunning, thread, running, sourceStarted, stopped, closed, frame, alerts,
                 scheduled, npuVars, schedulerOn, executorOn>>
Await ==
  /\ Doing("await", "infer")
  /\ ~WorkerServes(ch)
  /\ Advance
  /\ UNCHANGED <<gRunning, thread, running, sourceStarted, stopped, closed, frame, alerts,
                 scheduled, npuVars, schedulerOn, executorOn>>

StopScheduler ==
  /\ phase = "scheduler"
  /\ schedulerOn
  /\ schedulerOn' = FALSE
  /\ mailbox' = {}
  /\ UNCHANGED <<gRunning, mainVars, thread, running, frame, alerts, scheduled, active,
                 workerAt, workerCh, executorOn>>

\* The scheduler has joined its worker; the RKNN context is destroyed.
Exit ==
  /\ phase = "scheduler"
  /\ ~schedulerOn
  /\ workerAt \in {"none", "joined"}
  /\ executorOn' = FALSE
  /\ phase' = "exit"
  /\ UNCHANGED <<gRunning, ch, step, sourceStarted, stopped, closed, thread, running, frame,
                 alerts, scheduled, npuVars, schedulerOn>>

Main ==
  \/ \E k \in Parts : StartPart(k) \/ StartFails(k) \/ Ask(k) \/ Join(k)
  \/ \E q \in Queues : Close(q)
  \/ Shutdown
  \/ SkipStopped
  \/ Unregister
  \/ Await
  \/ StopScheduler
  \/ Exit

-----------------------------------------------------------------------------
(* The threads of a channel.                                               *)

\* (fault) the capacity is not checked
EnqueuedUnbounded(c) == "mqtt" \notin closed[c]

\* Whether a push finds room in mqtt_queue before its timeout.
Enqueued(c) == alerts[c] < MqttCapacity /\ "mqtt" \notin closed[c]

\* The source fills infer_queue (push_latest replaces what is there).
SourceFrame(c) ==
  /\ thread[c]["source"] = "alive"
  /\ "inputs" \notin closed[c]
  /\ frame' = [frame EXCEPT ![c] = TRUE]
  /\ UNCHANGED <<gRunning, mainVars, thread, running, alerts, scheduled, npuVars, schedulerOn,
                 executorOn>>

\* A device or decoder error ends the source while running_ is still set.
SourceEnds(c) ==
  /\ thread[c]["source"] = "alive"
  /\ thread' = [thread EXCEPT ![c]["source"] = "ended"]
  /\ UNCHANGED <<gRunning, mainVars, running, frame, alerts, scheduled, npuVars, schedulerOn,
                 executorOn>>

\* run_scheduled submits the frame; run infers by itself and may have a
\* summary to report.
InferFrame(c) ==
  /\ thread[c]["infer"] = "alive"
  /\ frame[c]
  /\ frame' = [frame EXCEPT ![c] = FALSE]
  /\ IF scheduled
       THEN /\ mailbox' = IF c \in active /\ schedulerOn THEN mailbox \cup {c} ELSE mailbox
            /\ UNCHANGED thread
       ELSE /\ \E t \in {"alive", "push"} : thread' = [thread EXCEPT ![c]["infer"] = t]
            /\ UNCHANGED mailbox
  /\ UNCHANGED <<gRunning, mainVars, running, alerts, scheduled, active, workerAt, workerCh,
                 schedulerOn, executorOn>>

\* The push of a summary ends within 100 ms, with or without room for it.
InferPush(c) ==
  /\ thread[c]["infer"] = "push"
  /\ thread' = [thread EXCEPT ![c]["infer"] = "alive"]
  /\ alerts' = IF Enqueued(c) THEN [alerts EXCEPT ![c] = @ + 1] ELSE alerts
  /\ UNCHANGED <<gRunning, mainVars, running, frame, scheduled, npuVars, schedulerOn,
                 executorOn>>

\* The first connection to the broker succeeds, or the thread returns.
MqttConnect(c) ==
  /\ thread[c]["mqtt"] = "connect"
  /\ \E t \in {"alive", "ended"} : thread' = [thread EXCEPT ![c]["mqtt"] = t]
  /\ UNCHANGED <<gRunning, mainVars, running, frame, alerts, scheduled, npuVars, schedulerOn,
                 executorOn>>

\* A summary is published, or lost in an exception.
MqttPublish(c) ==
  /\ thread[c]["mqtt"] = "alive"
  /\ alerts[c] > 0
  /\ alerts' = [alerts EXCEPT ![c] = @ - 1]
  /\ UNCHANGED <<gRunning, mainVars, thread, running, frame, scheduled, npuVars, schedulerOn,
                 executorOn>>

\* The head of every loop: running_ is FALSE.
Leave(c, k) ==
  /\ thread[c][k] = "alive"
  /\ ~running[c][k]
  /\ thread' = [thread EXCEPT ![c][k] = "ended"]
  /\ UNCHANGED <<gRunning, mainVars, running, frame, alerts, scheduled, npuVars, schedulerOn,
                 executorOn>>

ThreadStep(c) ==
  \/ SourceFrame(c)
  \/ SourceEnds(c)
  \/ InferFrame(c)
  \/ InferPush(c)
  \/ MqttConnect(c)
  \/ MqttPublish(c)
  \/ \E k \in Parts : Leave(c, k)

-----------------------------------------------------------------------------
(* The worker of the NPU scheduler.                                        *)

WorkerDispatch(c) ==
  /\ workerAt = "idle"
  /\ schedulerOn
  /\ c \in mailbox
  /\ workerAt' = "job"
  /\ workerCh' = c
  /\ mailbox' = mailbox \ {c}
  /\ UNCHANGED <<gRunning, mainVars, thread, running, frame, alerts, scheduled, active,
                 schedulerOn, executorOn>>

\* The job is a local variable of one iteration of the worker's loop.
KeepJob == workerCh' = IF workerAt' = "idle" THEN 1 ELSE workerCh

\* A result is called back only to a channel that is still registered.
WorkerFinish ==
  /\ workerAt = "job"
  /\ workerAt' = IF workerCh \in active /\ schedulerOn THEN "call" ELSE "idle"
  /\ KeepJob
  /\ UNCHANGED <<gRunning, mainVars, thread, running, frame, alerts, scheduled, active, mailbox,
                 schedulerOn, executorOn>>

\* on_scheduled_result: nothing to report, or a summary to push.
Callback ==
  /\ workerAt = "call"
  /\ \/ workerAt' = "idle"
     \/ running[workerCh]["infer"] /\ workerAt' = "push"
  /\ KeepJob
  /\ UNCHANGED <<gRunning, mainVars, thread, running, frame, alerts, scheduled, active, mailbox,
                 schedulerOn, executorOn>>

\* The push waits for at most 100 ms and its result is ignored.
CallbackPush ==
  /\ workerAt = "push"
  /\ workerAt' = "idle"
  /\ alerts' = IF Enqueued(workerCh) THEN [alerts EXCEPT ![workerCh] = @ + 1] ELSE alerts
  /\ KeepJob
  /\ UNCHANGED <<gRunning, mainVars, thread, running, frame, scheduled, active, mailbox,
                 schedulerOn, executorOn>>

WorkerExit ==
  /\ workerAt = "idle"
  /\ ~schedulerOn
  /\ workerAt' = "joined"
  /\ UNCHANGED <<gRunning, mainVars, thread, running, frame, alerts, scheduled, active, mailbox,
                 workerCh, schedulerOn, executorOn>>

Worker ==
  \/ \E c \in Channels : WorkerDispatch(c)
  \/ WorkerFinish
  \/ Callback
  \/ CallbackPush
  \/ WorkerExit

Next ==
  \/ Main
  \/ Signal
  \/ \E c \in Channels : ThreadStep(c)
  \/ Worker

Spec == Init /\ [][Next]_vars

\* Threads are scheduled, and each iteration of a loop ends: pops and pushes
\* have timeouts, calls into FFmpeg, Paho and RKNN are assumed to return.  A
\* thread connects once and leaves once, so that one condition covers them all.
\* No fairness for signals and for sources that fail.
FairSpec ==
  /\ Spec
  /\ WF_vars(Main)
  /\ WF_vars(Worker)
  /\ \A c \in 1 .. N : WF_vars(InferPush(c))
  /\ WF_vars(\E c \in Channels : MqttConnect(c) \/ \E k \in Parts : Leave(c, k))

-----------------------------------------------------------------------------
(* Properties.                                                             *)

\* Every variable stays in its range.
TypeOK ==
  /\ gRunning \in BOOLEAN
  /\ phase \in {"start", "undo", "run", "sources", "stop", "scheduler", "exit"}
  /\ ch \in Channels
  /\ step \in 1 .. Len(StopPlan)
  /\ phase = "start" => step <= Len(StartPlan)
  /\ phase = "sources" => step <= 2
  /\ thread \in [Channels -> [Parts -> {"none", "alive", "connect", "push", "ended", "joined"}]]
  /\ running \in [Channels -> [Parts -> BOOLEAN]]
  /\ sourceStarted \in [Channels -> BOOLEAN]
  /\ stopped \in [Channels -> BOOLEAN]
  /\ closed \in [Channels -> SUBSET Queues]
  /\ frame \in [Channels -> BOOLEAN]
  /\ alerts \in [Channels -> 0 .. MqttCapacity]
  /\ scheduled \in BOOLEAN
  /\ active \in SUBSET Channels
  /\ mailbox \in SUBSET Channels
  /\ workerAt \in {"none", "idle", "job", "call", "push", "joined"}
  /\ workerCh \in Channels
  /\ schedulerOn \in BOOLEAN
  /\ executorOn \in BOOLEAN

\* A queue is closed only when nobody can push to it any more: neither the
\* thread that feeds it nor, for the MQTT queue, a completion callback of the
\* NPU worker.  Closing earlier would lose frames and summaries silently.
ClosedQueuesHaveNoProducer ==
  \A c \in Channels :
    /\ "inputs" \in closed[c] => ~Live(thread[c]["source"])
    /\ "stream" \in closed[c] => ~Live(thread[c]["encode"])
    /\ "mqtt" \in closed[c] => ~Live(thread[c]["infer"]) /\ c \notin active /\ ~WorkerServes(c)

\* While a source delivers frames every later stage of its channel has been
\* started and none has been asked to stop.
SourceHasItsConsumers ==
  \A c \in Channels :
    Live(thread[c]["source"]) => \A k \in Parts \ {"source"} : running[c][k]

\* However main leaves, after a failed start of any part of any channel or
\* after a signal, no thread runs, nobody is registered, and the RKNN context
\* was destroyed after the last job.
ExitLeavesNothing ==
  /\ workerAt = "job" => executorOn
  /\ phase = "exit" =>
       /\ \A c \in Channels : \A k \in Parts : thread[c][k] \in {"none", "joined"}
       /\ active = {}
       /\ workerAt \in {"none", "joined"}
       /\ ~executorOn

\* A failed start and a signal both lead to the end of the process, whatever
\* the broker, the sources and the NPU worker are doing.
ShutdownEnds ==
  (phase = "undo" \/ ~gRunning) ~> (phase = "exit")

\* main is in unregister_channel, waiting for the worker to let go of c.
Awaited(c) ==
  /\ phase \in {"undo", "stop"}
  /\ ch = c
  /\ StopPlan[step] = <<"await", "infer">>
  /\ scheduled /\ thread[c]["infer"] = "joined"

\* The scheduler here is the one that NpuScheduler shows to its callers: a
\* channel is open from its registration until unregister_channel returns, and
\* main, the inference threads and the worker together never do to it what the
\* service does not allow.
Npu == INSTANCE NpuService WITH
  None <- 0,
  open <- active \cup {c \in Channels : Awaited(c)},
  mail <- mailbox,
  serving <- IF workerAt \in {"job", "call", "push"} THEN workerCh ELSE 0,
  answering <- workerAt \in {"call", "push"}

SchedulerIsTheService == Npu!Spec
=============================================================================
