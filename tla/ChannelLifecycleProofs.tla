------------------------ MODULE ChannelLifecycleProofs ------------------------
(***************************************************************************)
(* Proofs about ChannelLifecycle for any number of channels and any        *)
(* capacity of the MQTT queue: its safety properties are invariants.       *)
(***************************************************************************)
EXTENDS ChannelLifecycle, TLAPS

\* A thread that is not there, or not any more.
Gone(t) == t \in {"none", "joined"}

Stopping == phase \in {"undo", "stop"}

\* While main starts channels nothing has been stopped, and the parts before
\* the one it is at run.
StartProgress ==
  phase = "start" =>
    /\ \A c \in Channels : closed[c] = {} /\ ~stopped[c]
    /\ \A i \in 1 .. step - 1 : running[ch][StartPlan[i]]

\* What stop() has achieved when it is at a step.
StopProgress ==
  Stopping =>
    /\ step >= 3 => Gone(thread[ch]["source"])
    /\ step >= 4 => stopped[ch]
    /\ step >= 6 => Gone(thread[ch]["encode"])
    /\ step >= 8 => Gone(thread[ch]["infer"])
    /\ step >= 9 => ch \notin active
    /\ step >= 10 => ~WorkerServes(ch)
    /\ step >= 13 => Gone(thread[ch]["stream"])

Down(c) == c \notin active /\ \A k \in Parts : Gone(thread[c][k])

\* A pipeline whose stop() has returned has no thread; the loops that stop
\* pipelines leave out none.
StoppedIsDown ==
  /\ \A c \in Channels : stopped[c] /\ ~(Stopping /\ ch = c /\ step > 1) => Down(c)
  /\ phase = "stop" => \A c \in Channels : c > ch => stopped[c]
  /\ phase \in {"scheduler", "exit"} => \A c \in Channels : stopped[c]

NpuConsistent ==
  /\ mailbox \subseteq active
  /\ workerAt \notin {"none", "joined"} => executorOn
  /\ phase = "exit" => workerAt \in {"none", "joined"} /\ ~executorOn

IInv ==
  /\ TypeOK
  /\ StartProgress
  /\ StopProgress
  /\ StoppedIsDown
  /\ NpuConsistent
  /\ ClosedQueuesHaveNoProducer
  /\ SourceHasItsConsumers

-----------------------------------------------------------------------------
(* The plans.                                                              *)

\* start() has five steps, stop() fifteen.
LEMMA PlanLengths == Len(StartPlan) = 5 /\ Len(StopPlan) = 15
  BY DEF StartPlan, StopPlan

\* Which step of stop() asks, joins, closes and unregisters what.
LEMMA StopPlanSteps ==
  ASSUME NEW i \in 1 .. 15
  PROVE  /\ \A k \in Parts : StopPlan[i] = <<"ask", k>> => i \in {1, 4, 6, 11, 14}
         /\ StopPlan[i] = <<"ask", "source">> => i = 1
         /\ \A k \in Parts : StopPlan[i] = <<"ask", k>> /\ i = 1 => k = "source"
         /\ \A k \in Parts : StopPlan[i] = <<"join", k>> =>
              i = CASE k = "source" -> 2
                    [] k = "encode" -> 5
                    [] k = "infer" -> 7
                    [] k = "stream" -> 12
                    [] OTHER -> 15
         /\ \A q \in Queues : StopPlan[i] = <<"close", q>> =>
              i = CASE q = "inputs" -> 3
                    [] q = "stream" -> 10
                    [] OTHER -> 13
         /\ StopPlan[i] = <<"unregister", "infer">> => i = 8
         /\ StopPlan[i] = <<"await", "infer">> => i = 9
<1>1. CASE i \in {1, 2, 3, 4, 5}
  BY <1>1 DEF StopPlan, Parts, Queues
<1>2. CASE i \in {6, 7, 8, 9, 10}
  BY <1>2 DEF StopPlan, Parts, Queues
<1>3. CASE i \in {11, 12, 13, 14, 15}
  BY <1>3 DEF StopPlan, Parts, Queues
<1>q. QED
  BY <1>1, <1>2, <1>3

\* start() begins with the consumers and ends with the source.
LEMMA StartPlanSteps ==
  ASSUME NEW i \in 1 .. 5
  PROVE  /\ StartPlan[i] \in Parts
         /\ StartPlan[i] = "source" => i = 5
         /\ StartPlan[1] = "mqtt" /\ StartPlan[2] = "stream" /\ StartPlan[3] = "encode"
         /\ StartPlan[4] = "infer"
  BY DEF StartPlan, Parts

\* The three ways in which a step of stop() hands over to the next one.
LEMMA AdvanceCases ==
  ASSUME TypeOK, phase \in {"undo", "sources", "stop"}, Advance
  PROVE  \/ /\ step' = step + 1 /\ phase' = phase /\ ch' = ch
            /\ phase = "sources" => step # 2
            /\ phase # "sources" => step # 15
         \/ phase = "sources" /\ step = 2 /\ NextSource
         \/ phase # "sources" /\ step = 15 /\ NextPipeline
  BY PlanLengths DEF Advance

\* main stays within its phases, channels and steps.
LEMMA AdvanceType ==
  ASSUME TypeOK, phase \in {"undo", "sources", "stop"}, Advance
  PROVE  /\ phase' \in {"undo", "sources", "stop", "scheduler"}
         /\ ch' \in Channels
         /\ step' \in 1 .. 15
         /\ phase' = "sources" => step' <= 2
<1>0. N \in Nat \ {0} /\ ch \in 1 .. N /\ step \in 1 .. 15 /\ (phase = "sources" => step <= 2)
  BY LifecycleAssumption, PlanLengths DEF TypeOK, Channels
<1>1. CASE /\ step' = step + 1 /\ phase' = phase /\ ch' = ch
           /\ phase = "sources" => step # 2
           /\ phase # "sources" => step # 15
  <2>1. step' \in 1 .. 15
    BY <1>0, <1>1
  <2>q. QED
    BY <1>0, <1>1, <2>1 DEF Channels
<1>2. CASE NextSource
  BY <1>0, <1>2 DEF NextSource, Channels
<1>3. CASE NextPipeline
  BY <1>0, <1>3 DEF NextPipeline, Channels
<1>q. QED
  BY <1>1, <1>2, <1>3, AdvanceCases

-----------------------------------------------------------------------------
(* Type correctness.                                                       *)

\* Starting a part, or failing to, keeps the types.
LEMMA TypeStart ==
  ASSUME TypeOK, StartPlan[step] \in Parts,
         \E k \in Parts : StartPart(k) \/ StartFails(k)
  PROVE  TypeOK'
<1>0. /\ N \in Nat \ {0} /\ ch \in 1 .. N /\ step \in 1 .. 15
      /\ phase = "start" => step <= 5
  BY LifecycleAssumption, PlanLengths DEF TypeOK, Channels
<1>1. ASSUME NEW k \in Parts, StartPart(k) PROVE TypeOK'
  <2>1. /\ phase' \in {"start", "run"} /\ ch' \in 1 .. N /\ step' \in 1 .. 15
        /\ phase' = "start" => step' <= 5
    BY <1>0, <1>1, PlanLengths DEF StartPart
  <2>2. Begun(k) \in {"connect", "alive"}
    BY DEF Begun
  <2>3. /\ thread' \in [Channels -> [Parts -> {"none", "alive", "connect", "push", "ended", "joined"}]]
        /\ running' \in [Channels -> [Parts -> BOOLEAN]]
    BY <1>1, <2>2 DEF StartPart, TypeOK
  <2>4. active' \in SUBSET Channels
    BY <1>1 DEF StartPart, TypeOK
  <2>5. sourceStarted' \in [Channels -> BOOLEAN]
    BY <1>1 DEF StartPart, TypeOK
  <2>q. QED
    BY <1>1, <2>1, <2>3, <2>4, <2>5, PlanLengths DEF StartPart, TypeOK, Channels
<1>2. ASSUME NEW k \in Parts, StartFails(k) PROVE TypeOK'
  <2>1. phase' = "undo" /\ step' \in 1 .. 15 /\ ch' = ch
    BY <1>2 DEF StartFails
  <2>q. QED
    BY <1>2, <2>1, PlanLengths DEF StartFails, TypeOK, npuVars
<1>q. QED
  BY <1>1, <1>2

\* So does every step of stopping.
LEMMA TypeStop ==
  ASSUME TypeOK,
         \/ \E k \in Parts : Ask(k) \/ Join(k)
         \/ \E q \in Queues : Close(q)
         \/ Shutdown \/ SkipStopped \/ Unregister \/ Await \/ StopScheduler \/ Exit
  PROVE  TypeOK'
<1>0. /\ N \in Nat \ {0} /\ ch \in 1 .. N /\ step \in 1 .. 15
  BY LifecycleAssumption, PlanLengths DEF TypeOK, Channels
<1>1. ASSUME phase' \in {"undo", "sources", "stop", "scheduler", "exit"}, ch' \in Channels,
             step' \in 1 .. 15, phase' = "sources" => step' <= 2
      PROVE  /\ phase' \in {"start", "undo", "run", "sources", "stop", "scheduler", "exit"}
             /\ ch' \in Channels
             /\ step' \in 1 .. Len(StopPlan)
             /\ phase' = "start" => step' <= Len(StartPlan)
             /\ phase' = "sources" => step' <= 2
  BY <1>1, PlanLengths
<1>2. ASSUME NEW k \in Parts, Ask(k) PROVE TypeOK'
  <2>1. running' \in [Channels -> [Parts -> BOOLEAN]]
    BY <1>2 DEF Ask, TypeOK
  <2>q. QED
    BY <1>1, <1>2, <2>1, AdvanceType DEF Ask, Doing, TypeOK, npuVars
<1>3. ASSUME NEW k \in Parts, Join(k) PROVE TypeOK'
  <2>1. thread' \in [Channels -> [Parts -> {"none", "alive", "connect", "push", "ended", "joined"}]]
    BY <1>3 DEF Join, TypeOK
  <2>2. sourceStarted' \in [Channels -> BOOLEAN]
    BY <1>3 DEF Join, TypeOK
  <2>q. QED
    BY <1>1, <1>3, <2>1, <2>2, AdvanceType DEF Join, Doing, TypeOK, npuVars
<1>4. ASSUME NEW q \in Queues, Close(q) PROVE TypeOK'
  <2>1. closed' \in [Channels -> SUBSET Queues] /\ stopped' \in [Channels -> BOOLEAN]
    BY <1>4 DEF Close, TypeOK
  <2>q. QED
    BY <1>1, <1>4, <2>1, AdvanceType DEF Close, Doing, TypeOK, npuVars
<1>5. CASE Shutdown
  <2>1. phase' = "sources" /\ ch' \in Channels /\ step' \in 1 .. 15 /\ step' <= 2
    BY <1>0, <1>5 DEF Shutdown, Channels
  <2>q. QED
    BY <1>1, <1>5, <2>1 DEF Shutdown, TypeOK, npuVars
<1>6. CASE SkipStopped
  <2>1. phase' \in {"stop", "scheduler"} /\ ch' \in Channels /\ step' \in 1 .. 15
    BY <1>0, <1>6 DEF SkipStopped, NextPipeline, Channels
  <2>q. QED
    BY <1>1, <1>6, <2>1 DEF SkipStopped, TypeOK, npuVars
<1>7. CASE Unregister
  BY <1>1, <1>7, AdvanceType DEF Unregister, Doing, TypeOK
<1>8. CASE Await
  BY <1>1, <1>8, AdvanceType DEF Await, Doing, TypeOK, npuVars
<1>9. CASE StopScheduler
  BY <1>9 DEF StopScheduler, TypeOK, mainVars
<1>10. CASE Exit
  BY <1>10 DEF Exit, TypeOK, npuVars
<1>q. QED
  BY <1>2, <1>3, <1>4, <1>5, <1>6, <1>7, <1>8, <1>9, <1>10

\* A push leaves the MQTT queue within its capacity.
LEMMA EnqueueType ==
  ASSUME TypeOK, NEW c \in Channels
  PROVE  /\ Enqueued(c) => [alerts EXCEPT ![c] = @ + 1] \in [Channels -> 0 .. MqttCapacity]
         /\ alerts[c] > 0 => [alerts EXCEPT ![c] = @ - 1] \in [Channels -> 0 .. MqttCapacity]
<1>1. MqttCapacity \in Nat /\ alerts \in [Channels -> 0 .. MqttCapacity]
  BY LifecycleAssumption DEF TypeOK
<1>2. alerts[c] \in 0 .. MqttCapacity
  BY <1>1
<1>3. /\ Enqueued(c) => alerts[c] + 1 \in 0 .. MqttCapacity
      /\ alerts[c] > 0 => alerts[c] - 1 \in 0 .. MqttCapacity
  BY <1>1, <1>2 DEF Enqueued
<1>q. QED
  BY <1>1, <1>3

\* So do the threads of the channels,
LEMMA TypeThreads ==
  ASSUME TypeOK, NEW c \in Channels, ThreadStep(c)
  PROVE  TypeOK'
<1> DEFINE States == {"none", "alive", "connect", "push", "ended", "joined"}
<1>1. CASE SourceFrame(c)
  BY <1>1 DEF SourceFrame, TypeOK, mainVars, npuVars
<1>2. CASE SourceEnds(c)
  BY <1>2 DEF SourceEnds, TypeOK, mainVars, npuVars, Parts
<1>3. CASE InferFrame(c)
  <2>1. thread' \in [Channels -> [Parts -> States]]
    <3>1. CASE scheduled
      BY <1>3, <3>1 DEF InferFrame, TypeOK
    <3>2. CASE ~scheduled
      <4>1. PICK t \in {"alive", "push"} : thread' = [thread EXCEPT ![c]["infer"] = t]
        BY <1>3, <3>2 DEF InferFrame
      <4>q. QED
        BY <4>1 DEF TypeOK, Parts
    <3>q. QED
      BY <3>1, <3>2
  <2>2. frame' \in [Channels -> BOOLEAN] /\ mailbox' \in SUBSET Channels
    BY <1>3 DEF InferFrame, TypeOK
  <2>q. QED
    BY <1>3, <2>1, <2>2 DEF InferFrame, TypeOK, mainVars
<1>4. CASE InferPush(c)
  <2>1. alerts' \in [Channels -> 0 .. MqttCapacity]
    BY <1>4, EnqueueType DEF InferPush, TypeOK
  <2>2. thread' \in [Channels -> [Parts -> States]]
    BY <1>4 DEF InferPush, TypeOK, Parts
  <2>q. QED
    BY <1>4, <2>1, <2>2 DEF InferPush, TypeOK, mainVars, npuVars
<1>5. CASE MqttConnect(c)
  <2>1. thread' \in [Channels -> [Parts -> States]]
    BY <1>5 DEF MqttConnect, TypeOK, Parts
  <2>q. QED
    BY <1>5, <2>1 DEF MqttConnect, TypeOK, mainVars, npuVars
<1>6. CASE MqttPublish(c)
  <2>1. alerts' \in [Channels -> 0 .. MqttCapacity]
    BY <1>6, EnqueueType DEF MqttPublish
  <2>q. QED
    BY <1>6, <2>1 DEF MqttPublish, TypeOK, mainVars, npuVars
<1>7. ASSUME NEW k \in Parts, Leave(c, k) PROVE TypeOK'
  BY <1>7 DEF Leave, TypeOK, mainVars, npuVars
<1>q. QED
  BY <1>1, <1>2, <1>3, <1>4, <1>5, <1>6, <1>7 DEF ThreadStep

\* Whatever the worker does with its job, it is that of some channel.
LEMMA KeepJobType ==
  ASSUME TypeOK, KeepJob
  PROVE  workerCh' \in Channels
BY LifecycleAssumption DEF KeepJob, TypeOK, Channels

\* and the NPU worker.
LEMMA TypeWorker ==
  ASSUME TypeOK, Worker
  PROVE  TypeOK'
<1>1. ASSUME NEW c \in Channels, WorkerDispatch(c) PROVE TypeOK'
  BY <1>1 DEF WorkerDispatch, TypeOK, mainVars
<1>2. CASE WorkerFinish
  BY <1>2, KeepJobType DEF WorkerFinish, TypeOK, mainVars
<1>3. CASE Callback
  BY <1>3, KeepJobType DEF Callback, TypeOK, mainVars
<1>4. CASE CallbackPush
  <2>1. alerts' \in [Channels -> 0 .. MqttCapacity]
    BY <1>4, EnqueueType DEF CallbackPush, TypeOK
  <2>q. QED
    BY <1>4, <2>1, KeepJobType DEF CallbackPush, TypeOK, mainVars
<1>5. CASE WorkerExit
  BY <1>5 DEF WorkerExit, TypeOK, mainVars
<1>q. QED
  BY <1>1, <1>2, <1>3, <1>4, <1>5 DEF Worker

-----------------------------------------------------------------------------
(* Threads, callbacks and signals cannot disturb what main has achieved.   *)

\* Nothing but main moves main; no other process brings a thread back or
\* makes the worker serve a channel that is not registered.
LEMMA OthersKeep ==
  ASSUME IInv, TypeOK', UNCHANGED mainVars, running' = running, active' = active,
         executorOn' = executorOn,
         \A c \in Channels : \A k \in Parts :
           /\ Gone(thread[c][k]) => Gone(thread'[c][k])
           /\ Live(thread'[c][k]) => Live(thread[c][k]),
         mailbox' \subseteq active,
         \A c \in Channels : c \notin active /\ ~WorkerServes(c) => ~WorkerServes(c)',
         workerAt' \notin {"none", "joined"} => workerAt \notin {"none", "joined"}
  PROVE  IInv'
<1>0. /\ phase' = phase /\ ch' = ch /\ step' = step /\ sourceStarted' = sourceStarted
      /\ stopped' = stopped /\ closed' = closed
  BY DEF mainVars
<1>1. ch \in Channels
  BY DEF IInv, TypeOK
<1>2. StartProgress'
  BY <1>0 DEF IInv, StartProgress
<1>3. StopProgress'
  <2>1. ch \notin active /\ ~WorkerServes(ch) => ~WorkerServes(ch)'
    BY <1>0, <1>1 DEF WorkerServes
  <2>2. \A k \in Parts : Gone(thread[ch][k]) => Gone(thread'[ch][k])
    BY <1>1
  <2>3. step \in 1 .. 15
    BY PlanLengths DEF IInv, TypeOK
  <2>q. QED
    BY <1>0, <2>1, <2>2, <2>3 DEF IInv, StopProgress, Stopping, Parts
<1>4. StoppedIsDown'
  BY <1>0 DEF IInv, StoppedIsDown, Stopping, Down
<1>5. NpuConsistent'
  BY <1>0 DEF IInv, NpuConsistent
<1>6. ClosedQueuesHaveNoProducer'
  BY <1>0 DEF IInv, ClosedQueuesHaveNoProducer, Parts
<1>7. SourceHasItsConsumers'
  BY <1>0 DEF IInv, SourceHasItsConsumers, Parts
<1>q. QED
  BY <1>2, <1>3, <1>4, <1>5, <1>6, <1>7 DEF IInv

\* A thread moves only between the states of a live thread, or ends.
LEMMA ThreadMoves ==
  ASSUME TypeOK, NEW c \in Channels, ThreadStep(c)
  PROVE  \A d \in Channels : \A k \in Parts :
           /\ Gone(thread[d][k]) => Gone(thread'[d][k])
           /\ Live(thread'[d][k]) => Live(thread[d][k])
<1>1. ASSUME NEW p \in Parts, NEW t \in {"none", "alive", "connect", "push", "ended", "joined"},
             Live(thread[c][p]), ~Gone(t), thread' = [thread EXCEPT ![c][p] = t],
             NEW d \in Channels, NEW k \in Parts
      PROVE  /\ Gone(thread[d][k]) => Gone(thread'[d][k])
             /\ Live(thread'[d][k]) => Live(thread[d][k])
  <2>1. CASE d = c /\ k = p
    <3>1. thread'[d][k] = t
      BY <1>1, <2>1 DEF TypeOK
    <3>q. QED
      BY <1>1, <2>1, <3>1 DEF Gone, Live
  <2>2. CASE ~(d = c /\ k = p)
    <3>1. thread'[d][k] = thread[d][k]
      BY <1>1, <2>2 DEF TypeOK
    <3>q. QED
      BY <3>1
  <2>q. QED
    BY <2>1, <2>2
<1>2. CASE thread' = thread
  BY <1>2
<1>3. CASE SourceEnds(c)
  BY <1>1, <1>3 DEF SourceEnds, Parts, Live, Gone
<1>4. CASE InferFrame(c)
  <2>1. CASE scheduled
    BY <1>2, <1>4, <2>1 DEF InferFrame
  <2>2. CASE ~scheduled
    <3>1. PICK t \in {"alive", "push"} : thread' = [thread EXCEPT ![c]["infer"] = t]
      BY <1>4, <2>2 DEF InferFrame
    <3>q. QED
      BY <1>1, <1>4, <3>1 DEF InferFrame, Parts, Live, Gone
  <2>q. QED
    BY <2>1, <2>2
<1>5. CASE InferPush(c)
  BY <1>1, <1>5 DEF InferPush, Parts, Live, Gone
<1>6. CASE MqttConnect(c)
  <2>1. PICK t \in {"alive", "ended"} : thread' = [thread EXCEPT ![c]["mqtt"] = t]
    BY <1>6 DEF MqttConnect
  <2>q. QED
    BY <1>1, <1>6, <2>1 DEF MqttConnect, Parts, Live, Gone
<1>7. ASSUME NEW k \in Parts, Leave(c, k)
      PROVE  \A d \in Channels : \A j \in Parts :
               /\ Gone(thread[d][j]) => Gone(thread'[d][j])
               /\ Live(thread'[d][j]) => Live(thread[d][j])
  BY <1>1, <1>7 DEF Leave, Live, Gone
<1>8. SourceFrame(c) \/ MqttPublish(c) => thread' = thread
  BY DEF SourceFrame, MqttPublish
<1>q. QED
  BY <1>2, <1>3, <1>4, <1>5, <1>6, <1>7, <1>8 DEF ThreadStep

\* A thread that connects, works or leaves does not disturb the order of the plans.
LEMMA ThreadsKeep ==
  ASSUME IInv, NEW c \in Channels, ThreadStep(c)
  PROVE  IInv'
<1>1. TypeOK'
  BY TypeThreads DEF IInv
<1>2. /\ UNCHANGED mainVars /\ running' = running /\ active' = active
      /\ executorOn' = executorOn /\ workerAt' = workerAt /\ workerCh' = workerCh
  BY DEF ThreadStep, SourceFrame, SourceEnds, InferFrame, InferPush, MqttConnect, MqttPublish,
         Leave, npuVars
<1>3. mailbox' \subseteq active
  <2>1. CASE InferFrame(c)
    BY <2>1 DEF InferFrame, IInv, NpuConsistent
  <2>2. CASE ~InferFrame(c)
    <3>1. mailbox' = mailbox
      BY <2>2 DEF ThreadStep, SourceFrame, SourceEnds, InferPush, MqttConnect, MqttPublish,
                  Leave, npuVars
    <3>q. QED
      BY <3>1 DEF IInv, NpuConsistent
  <2>q. QED
    BY <2>1, <2>2
<1>4. \A d \in Channels : WorkerServes(d)' = WorkerServes(d)
  BY <1>2 DEF WorkerServes
<1>5. TypeOK
  BY DEF IInv
<1>q. QED
  BY <1>1, <1>2, <1>3, <1>4, <1>5, ThreadMoves, OthersKeep

\* The worker serves only who is registered, or awaited.
LEMMA WorkerKeeps ==
  ASSUME IInv, Worker
  PROVE  IInv'
<1>0. TypeOK' /\ TypeOK
  BY TypeWorker DEF IInv
<1>1. /\ UNCHANGED mainVars /\ running' = running /\ active' = active /\ thread' = thread
      /\ executorOn' = executorOn
  BY DEF Worker, WorkerDispatch, WorkerFinish, Callback, CallbackPush, WorkerExit
<1>2. mailbox' \subseteq mailbox
  BY DEF Worker, WorkerDispatch, WorkerFinish, Callback, CallbackPush, WorkerExit
<1>3. mailbox' \subseteq active
  BY <1>2 DEF IInv, NpuConsistent
<1>4. \A c \in Channels : c \notin active /\ ~WorkerServes(c) => ~WorkerServes(c)'
  <2>1. ASSUME NEW d \in Channels, WorkerDispatch(d)
        PROVE  \A c \in Channels : c \notin active => ~WorkerServes(c)'
    BY <2>1 DEF WorkerDispatch, WorkerServes, IInv, NpuConsistent
  <2>2. CASE WorkerFinish \/ Callback \/ CallbackPush \/ WorkerExit
    BY <2>2 DEF WorkerFinish, Callback, CallbackPush, WorkerExit, WorkerServes, KeepJob
  <2>q. QED
    BY <2>1, <2>2 DEF Worker
<1>5. workerAt \notin {"none", "joined"}
  BY DEF Worker, WorkerDispatch, WorkerFinish, Callback, CallbackPush, WorkerExit
<1>q. QED
  BY <1>0, <1>1, <1>3, <1>4, <1>5, OthersKeep

-----------------------------------------------------------------------------
(* main.                                                                   *)

\* Whatever was started before a failure is stopped again.
LEMMA StartKeeps ==
  ASSUME IInv, \E k \in Parts : StartPart(k) \/ StartFails(k)
  PROVE  IInv'
<1>0. /\ TypeOK /\ phase = "start" /\ ch \in Channels /\ step \in 1 .. 5
      /\ N \in Nat \ {0}
  BY LifecycleAssumption, PlanLengths DEF IInv, TypeOK, StartPart, StartFails
<1>1. TypeOK'
  BY <1>0, StartPlanSteps, TypeStart
<1>2. \A c \in Channels : closed[c] = {} /\ ~stopped[c]
  BY <1>0 DEF IInv, StartProgress
<1>3. ASSUME NEW k \in Parts, StartPart(k) PROVE IInv'
  <2>1. /\ closed' = closed /\ stopped' = stopped /\ phase' \in {"start", "run"}
        /\ running' = [running EXCEPT ![ch][k] = TRUE]
        /\ thread' = [thread EXCEPT ![ch][k] = Begun(k)]
        /\ phase' = "start" => \/ step' = step + 1 /\ ch' = ch /\ step < 5
                               \/ step' = 1
        /\ StartPlan[step] = k
    BY <1>3, PlanLengths DEF StartPart
  <2>2. \A c \in Channels : \A j \in Parts : running[c][j] => running'[c][j]
    BY <2>1, <1>0 DEF TypeOK
  <2>3. running'[ch][k]
    BY <2>1, <1>0 DEF TypeOK
  <2>4. \A i \in 1 .. step : running'[ch][StartPlan[i]]
    <3>1. \A i \in 1 .. step - 1 : running[ch][StartPlan[i]] /\ StartPlan[i] \in Parts
      BY <1>0, StartPlanSteps DEF IInv, StartProgress
    <3>q. QED
      BY <1>0, <2>1, <2>2, <2>3, <3>1
  <2>5. StartProgress'
    <3>1. CASE phase' = "start" /\ step' = step + 1 /\ ch' = ch
      BY <1>0, <1>2, <2>1, <2>4, <3>1 DEF StartProgress
    <3>2. CASE phase' = "start" /\ step' = 1
      BY <1>2, <2>1, <3>2 DEF StartProgress
    <3>3. CASE phase' = "run"
      BY <3>3 DEF StartProgress
    <3>q. QED
      BY <2>1, <3>1, <3>2, <3>3
  <2>6. StopProgress' /\ StoppedIsDown'
    BY <1>2, <2>1 DEF StopProgress, StoppedIsDown, Stopping
  <2>7. NpuConsistent'
    BY <1>3, <2>1 DEF IInv, NpuConsistent, StartPart
  <2>8. ClosedQueuesHaveNoProducer'
    BY <1>2, <2>1 DEF ClosedQueuesHaveNoProducer
  <2>9. SourceHasItsConsumers'
    <3>1. SUFFICES ASSUME NEW c \in Channels, Live(thread'[c]["source"]), NEW j \in Parts \ {"source"}
                   PROVE  running'[c][j]
      BY DEF SourceHasItsConsumers
    <3>2. CASE c = ch /\ k = "source"
      <4>1. step = 5
        BY <1>0, <2>1, <3>2, StartPlanSteps
      <4>2. \A i \in {1, 2, 3, 4} : running'[ch][StartPlan[i]]
        BY <2>4, <4>1
      <4>q. QED
        BY <3>2, <4>2 DEF StartPlan, Parts
    <3>3. CASE ~(c = ch /\ k = "source")
      <4>1. thread'[c]["source"] = thread[c]["source"]
        BY <1>0, <2>1, <3>3 DEF TypeOK, Parts
      <4>q. QED
        BY <2>2, <3>1, <4>1 DEF IInv, SourceHasItsConsumers
    <3>q. QED
      BY <3>2, <3>3
  <2>q. QED
    BY <1>1, <2>5, <2>6, <2>7, <2>8, <2>9 DEF IInv
<1>4. ASSUME NEW k \in Parts, StartFails(k) PROVE IInv'
  <2>1. /\ phase' = "undo" /\ step' = 1 /\ ch' = ch /\ closed' = closed /\ stopped' = stopped
        /\ thread' = thread /\ running' = running /\ active' = active /\ mailbox' = mailbox
        /\ workerAt' = workerAt /\ workerCh' = workerCh /\ executorOn' = executorOn
    BY <1>4 DEF StartFails, npuVars
  <2>2. StartProgress' /\ StopProgress' /\ StoppedIsDown'
    BY <1>2, <2>1 DEF StartProgress, StopProgress, StoppedIsDown
  <2>3. NpuConsistent' /\ ClosedQueuesHaveNoProducer' /\ SourceHasItsConsumers'
    BY <2>1 DEF IInv, NpuConsistent, ClosedQueuesHaveNoProducer, SourceHasItsConsumers, WorkerServes
  <2>q. QED
    BY <1>1, <2>2, <2>3 DEF IInv
<1>q. QED
  BY <1>3, <1>4

\* A step of stop() hands over correctly when it leaves behind what the next
\* step relies on, and a pipeline that is done is down.
LEMMA AdvanceKeeps ==
  ASSUME TypeOK, phase \in {"undo", "sources", "stop"}, Advance,
         phase # "sources" =>
           /\ step + 1 >= 3 => Gone(thread'[ch]["source"])
           /\ step + 1 >= 4 => stopped'[ch]
           /\ step + 1 >= 6 => Gone(thread'[ch]["encode"])
           /\ step + 1 >= 8 => Gone(thread'[ch]["infer"])
           /\ step + 1 >= 9 => ch \notin active'
           /\ step + 1 >= 10 => ~(workerAt' \in {"job", "call", "push"} /\ workerCh' = ch)
           /\ step + 1 >= 13 => Gone(thread'[ch]["stream"])
           /\ step + 1 >= 16 => Gone(thread'[ch]["mqtt"]),
         \A c \in Channels : stopped'[c] /\ (phase = "sources" \/ c # ch) => Down(c)',
         phase = "stop" => \A c \in Channels : c > ch => stopped'[c]
  PROVE  StartProgress' /\ StopProgress' /\ StoppedIsDown'
<1>0. N \in Nat \ {0} /\ ch \in 1 .. N /\ step \in 1 .. 15 /\ (phase = "sources" => step <= 2)
  BY LifecycleAssumption, PlanLengths DEF TypeOK, Channels
<1>1. CASE /\ step' = step + 1 /\ phase' = phase /\ ch' = ch
           /\ phase = "sources" => step # 2
           /\ phase # "sources" => step # 15
  <2>1. StartProgress'
    BY <1>1 DEF StartProgress
  <2>2. StopProgress'
    BY <1>0, <1>1 DEF StopProgress, Stopping, WorkerServes
  <2>3. StoppedIsDown'
    BY <1>0, <1>1 DEF StoppedIsDown, Stopping
  <2>q. QED
    BY <2>1, <2>2, <2>3
<1>2. CASE phase = "sources" /\ step = 2 /\ NextSource
  <2>1. /\ step' = 1 /\ phase' \in {"sources", "stop"}
        /\ phase' = "stop" => ch' = N
    BY <1>2 DEF NextSource
  <2>2. \A c \in Channels : ~(c > N)
    BY <1>0 DEF Channels
  <2>q. QED
    BY <1>2, <2>1, <2>2 DEF StartProgress, StopProgress, StoppedIsDown, Stopping
<1>3. CASE phase # "sources" /\ step = 15 /\ NextPipeline
  <2>1. ASSUME NEW c \in Channels PROVE stopped'[c] => Down(c)'
    <3>1. CASE c # ch
      BY <1>3, <3>1
    <3>2. CASE c = ch
      <4>1. /\ ch \notin active' /\ Gone(thread'[ch]["source"]) /\ Gone(thread'[ch]["encode"])
            /\ Gone(thread'[ch]["infer"]) /\ Gone(thread'[ch]["stream"])
            /\ Gone(thread'[ch]["mqtt"])
        BY <1>0, <1>3
      <4>2. \A k \in Parts : Gone(thread'[c][k])
        BY <3>2, <4>1 DEF Parts
      <4>q. QED
        BY <3>2, <4>1, <4>2 DEF Down
    <3>q. QED
      BY <3>1, <3>2
  <2>2. stopped'[ch]
    BY <1>0, <1>3
  <2>3. CASE phase' = "stop" /\ ch' = N /\ step' = 1
    <3>1. \A c \in Channels : ~(c > N)
      BY <1>0 DEF Channels
    <3>q. QED
      BY <2>1, <2>3, <3>1 DEF StartProgress, StopProgress, StoppedIsDown, Stopping
  <2>4. CASE phase = "stop" /\ phase' = "stop" /\ ch' = ch - 1 /\ step' = 1
    <3>1. \A c \in Channels : c > ch' => c > ch \/ c = ch
      BY <1>0, <2>4 DEF Channels
    <3>2. \A c \in Channels : c > ch' => stopped'[c]
      BY <2>2, <2>4, <3>1
    <3>q. QED
      BY <2>1, <2>4, <3>2 DEF StartProgress, StopProgress, StoppedIsDown, Stopping
  <2>5. CASE phase = "stop" /\ ~(ch > 1) /\ phase' = "scheduler" /\ step' = 1
    <3>1. \A c \in Channels : c > ch \/ c = ch
      BY <1>0, <2>5 DEF Channels
    <3>2. \A c \in Channels : stopped'[c]
      BY <2>2, <2>5, <3>1
    <3>q. QED
      BY <2>1, <2>5, <3>2 DEF StartProgress, StopProgress, StoppedIsDown, Stopping
  <2>q. QED
    BY <1>3, <2>3, <2>4, <2>5 DEF NextPipeline
<1>q. QED
  BY <1>1, <1>2, <1>3, AdvanceCases

\* A gone thread is not live.
LEMMA GoneNotLive == \A t : Gone(t) => ~Live(t)
  BY DEF Gone, Live

\* A thread is asked to leave in its turn.
LEMMA AskKeeps ==
  ASSUME IInv, NEW k \in Parts, Ask(k)
  PROVE  IInv'
<1>0. /\ TypeOK /\ ch \in Channels /\ step \in 1 .. 15 /\ phase \in {"undo", "sources", "stop"}
      /\ StopPlan[step] = <<"ask", k>> /\ Advance /\ (phase = "sources" => step <= 2)
  BY PlanLengths DEF IInv, TypeOK, Ask, Doing
<1>1. step \in {1, 4, 6, 11, 14} /\ (step = 1 => k = "source")
  BY <1>0, StopPlanSteps
<1>2. TypeOK'
  BY TypeStop DEF IInv
<1>3. /\ thread' = thread /\ closed' = closed /\ stopped' = stopped /\ active' = active
      /\ mailbox' = mailbox /\ workerAt' = workerAt /\ workerCh' = workerCh
      /\ executorOn' = executorOn
  BY DEF Ask, npuVars
<1>4. StartProgress' /\ StopProgress' /\ StoppedIsDown'
  <2>1. phase # "sources" =>
          /\ step + 1 >= 3 => Gone(thread'[ch]["source"])
          /\ step + 1 >= 4 => stopped'[ch]
          /\ step + 1 >= 6 => Gone(thread'[ch]["encode"])
          /\ step + 1 >= 8 => Gone(thread'[ch]["infer"])
          /\ step + 1 >= 9 => ch \notin active'
          /\ step + 1 >= 10 => ~(workerAt' \in {"job", "call", "push"} /\ workerCh' = ch)
          /\ step + 1 >= 13 => Gone(thread'[ch]["stream"])
          /\ step + 1 >= 16 => Gone(thread'[ch]["mqtt"])
    BY <1>0, <1>1, <1>3 DEF IInv, StopProgress, Stopping, WorkerServes
  <2>2. \A c \in Channels : stopped'[c] /\ (phase = "sources" \/ c # ch) => Down(c)'
    BY <1>3 DEF IInv, StoppedIsDown, Stopping, Down
  <2>3. phase = "stop" => \A c \in Channels : c > ch => stopped'[c]
    BY <1>3 DEF IInv, StoppedIsDown
  <2>q. QED
    BY <1>0, <2>1, <2>2, <2>3, AdvanceKeeps
<1>5. NpuConsistent'
  <2>1. phase' # "exit"
    BY <1>0, AdvanceType
  <2>q. QED
    BY <1>3, <2>1 DEF IInv, NpuConsistent
<1>6. ClosedQueuesHaveNoProducer'
  BY <1>3 DEF IInv, ClosedQueuesHaveNoProducer, WorkerServes
<1>7. SourceHasItsConsumers'
  <2>1. SUFFICES ASSUME NEW c \in Channels, Live(thread[c]["source"]), NEW j \in Parts \ {"source"}
                 PROVE  running'[c][j]
    BY <1>3 DEF SourceHasItsConsumers
  <2>2. running[c][j]
    BY <2>1 DEF IInv, SourceHasItsConsumers
  <2>3. k = "source" \/ c # ch
    <3>1. CASE step = 1
      BY <1>1, <3>1
    <3>2. CASE step >= 4
      BY <1>0, <2>1, <3>2, GoneNotLive DEF IInv, StopProgress, Stopping
    <3>q. QED
      BY <1>1, <3>1, <3>2
  <2>q. QED
    BY <1>0, <2>2, <2>3 DEF Ask, TypeOK
<1>q. QED
  BY <1>2, <1>4, <1>5, <1>6, <1>7 DEF IInv

\* After a join the thread is over for good.
LEMMA JoinKeeps ==
  ASSUME IInv, NEW k \in Parts, Join(k)
  PROVE  IInv'
<1>0. /\ TypeOK /\ ch \in Channels /\ step \in 1 .. 15 /\ phase \in {"undo", "sources", "stop"}
      /\ StopPlan[step] = <<"join", k>> /\ Advance /\ (phase = "sources" => step <= 2)
  BY PlanLengths DEF IInv, TypeOK, Join, Doing
<1>1. step = CASE k = "source" -> 2 [] k = "encode" -> 5 [] k = "infer" -> 7
               [] k = "stream" -> 12 [] OTHER -> 15
  BY <1>0, StopPlanSteps
<1>2. TypeOK'
  BY TypeStop DEF IInv
<1>3. /\ running' = running /\ closed' = closed /\ stopped' = stopped /\ active' = active
      /\ mailbox' = mailbox /\ workerAt' = workerAt /\ workerCh' = workerCh
      /\ executorOn' = executorOn
  BY DEF Join, npuVars
<1>4. Gone(thread'[ch][k])
  BY <1>0 DEF Join, TypeOK, Gone
<1>5. ASSUME NEW c \in Channels, NEW j \in Parts
      PROVE  /\ Gone(thread[c][j]) => Gone(thread'[c][j])
             /\ Live(thread'[c][j]) => Live(thread[c][j])
  <2>1. CASE c = ch /\ j = k
    BY <1>4, <2>1, GoneNotLive
  <2>2. CASE ~(c = ch /\ j = k)
    <3>1. thread'[c][j] = thread[c][j]
      BY <1>0, <2>2 DEF Join, TypeOK
    <3>q. QED
      BY <3>1
  <2>q. QED
    BY <2>1, <2>2
<1>6. StartProgress' /\ StopProgress' /\ StoppedIsDown'
  <2>1. phase # "sources" =>
          /\ step >= 3 => Gone(thread'[ch]["source"])
          /\ step >= 4 => stopped'[ch]
          /\ step >= 6 => Gone(thread'[ch]["encode"])
          /\ step >= 8 => Gone(thread'[ch]["infer"])
          /\ step >= 9 => ch \notin active'
          /\ step >= 10 => ~(workerAt' \in {"job", "call", "push"} /\ workerCh' = ch)
          /\ step >= 13 => Gone(thread'[ch]["stream"])
    BY <1>0, <1>3, <1>5 DEF IInv, StopProgress, Stopping, WorkerServes, Parts
  <2>2. phase # "sources" =>
          /\ step + 1 >= 3 => Gone(thread'[ch]["source"])
          /\ step + 1 >= 4 => stopped'[ch]
          /\ step + 1 >= 6 => Gone(thread'[ch]["encode"])
          /\ step + 1 >= 8 => Gone(thread'[ch]["infer"])
          /\ step + 1 >= 9 => ch \notin active'
          /\ step + 1 >= 10 => ~(workerAt' \in {"job", "call", "push"} /\ workerCh' = ch)
          /\ step + 1 >= 13 => Gone(thread'[ch]["stream"])
          /\ step + 1 >= 16 => Gone(thread'[ch]["mqtt"])
    BY <1>0, <1>1, <1>4, <2>1 DEF Parts
  <2>3. \A c \in Channels : stopped'[c] /\ (phase = "sources" \/ c # ch) => Down(c)'
    BY <1>3, <1>5 DEF IInv, StoppedIsDown, Stopping, Down
  <2>4. phase = "stop" => \A c \in Channels : c > ch => stopped'[c]
    BY <1>3 DEF IInv, StoppedIsDown
  <2>q. QED
    BY <1>0, <2>2, <2>3, <2>4, AdvanceKeeps
<1>7. NpuConsistent'
  <2>1. phase' # "exit"
    BY <1>0, AdvanceType
  <2>q. QED
    BY <1>3, <2>1 DEF IInv, NpuConsistent
<1>8. ClosedQueuesHaveNoProducer'
  BY <1>3, <1>5 DEF IInv, ClosedQueuesHaveNoProducer, WorkerServes, Parts
<1>9. SourceHasItsConsumers'
  BY <1>3, <1>5 DEF IInv, SourceHasItsConsumers, Parts
<1>q. QED
  BY <1>2, <1>6, <1>7, <1>8, <1>9 DEF IInv

\* A queue is closed when those who push into it are over.
LEMMA CloseKeeps ==
  ASSUME IInv, NEW q \in Queues, Close(q)
  PROVE  IInv'
<1>0. /\ TypeOK /\ ch \in Channels /\ step \in 1 .. 15 /\ phase \in {"undo", "sources", "stop"}
      /\ StopPlan[step] = <<"close", q>> /\ Advance /\ (phase = "sources" => step <= 2)
  BY PlanLengths DEF IInv, TypeOK, Close, Doing
<1>1. step = CASE q = "inputs" -> 3 [] q = "stream" -> 10 [] OTHER -> 13
  BY <1>0, StopPlanSteps
<1>2. TypeOK'
  BY TypeStop DEF IInv
<1>3. /\ running' = running /\ thread' = thread /\ active' = active
      /\ mailbox' = mailbox /\ workerAt' = workerAt /\ workerCh' = workerCh
      /\ executorOn' = executorOn
      /\ stopped' = [stopped EXCEPT ![ch] = TRUE]
      /\ closed' = [closed EXCEPT ![ch] = @ \cup {q}]
  BY DEF Close, npuVars
<1>4. step \in {3, 10, 13} /\ phase # "sources" /\ Stopping
  BY <1>0, <1>1 DEF Stopping
<1>5. stopped'[ch] /\ \A c \in Channels : c # ch => stopped'[c] = stopped[c]
  BY <1>0, <1>3 DEF TypeOK
<1>6. StartProgress' /\ StopProgress' /\ StoppedIsDown'
  <2>1. /\ step + 1 >= 3 => Gone(thread'[ch]["source"])
        /\ step + 1 >= 4 => stopped'[ch]
        /\ step + 1 >= 6 => Gone(thread'[ch]["encode"])
        /\ step + 1 >= 8 => Gone(thread'[ch]["infer"])
        /\ step + 1 >= 9 => ch \notin active'
        /\ step + 1 >= 10 => ~(workerAt' \in {"job", "call", "push"} /\ workerCh' = ch)
        /\ step + 1 >= 13 => Gone(thread'[ch]["stream"])
        /\ step + 1 >= 16 => Gone(thread'[ch]["mqtt"])
    BY <1>3, <1>4, <1>5 DEF IInv, StopProgress, WorkerServes
  <2>2. \A c \in Channels : stopped'[c] /\ (phase = "sources" \/ c # ch) => Down(c)'
    BY <1>3, <1>4, <1>5 DEF IInv, StoppedIsDown, Down
  <2>3. phase = "stop" => \A c \in Channels : c > ch => stopped'[c]
    BY <1>5 DEF IInv, StoppedIsDown
  <2>q. QED
    BY <1>0, <2>1, <2>2, <2>3, AdvanceKeeps
<1>7. NpuConsistent'
  <2>1. phase' # "exit"
    BY <1>0, AdvanceType
  <2>q. QED
    BY <1>3, <2>1 DEF IInv, NpuConsistent
<1>8. ClosedQueuesHaveNoProducer'
  <2>1. /\ step >= 3 /\ Gone(thread[ch]["source"])
        /\ step >= 10 => Gone(thread[ch]["encode"])
        /\ step >= 13 => Gone(thread[ch]["infer"]) /\ ch \notin active /\ ~WorkerServes(ch)
    BY <1>4 DEF IInv, StopProgress
  <2>2. /\ ~Live(thread[ch]["source"])
        /\ q = "stream" => ~Live(thread[ch]["encode"])
        /\ q = "mqtt" => ~Live(thread[ch]["infer"]) /\ ch \notin active /\ ~WorkerServes(ch)
    BY <1>1, <2>1, GoneNotLive
  <2>3. ASSUME NEW c \in Channels, c # ch PROVE closed'[c] = closed[c]
    BY <1>0, <1>3, <2>3 DEF TypeOK
  <2>4. closed'[ch] = closed[ch] \cup {q}
    BY <1>0, <1>3 DEF TypeOK
  <2>5. SUFFICES ASSUME NEW c \in Channels
                 PROVE  /\ "inputs" \in closed'[c] => ~Live(thread[c]["source"])
                        /\ "stream" \in closed'[c] => ~Live(thread[c]["encode"])
                        /\ "mqtt" \in closed'[c] =>
                             ~Live(thread[c]["infer"]) /\ c \notin active /\ ~WorkerServes(c)
    BY <1>3 DEF ClosedQueuesHaveNoProducer, WorkerServes
  <2>6. CASE c = ch
    BY <2>2, <2>4, <2>6 DEF IInv, ClosedQueuesHaveNoProducer
  <2>7. CASE c # ch
    BY <2>3, <2>7 DEF IInv, ClosedQueuesHaveNoProducer
  <2>q. QED
    BY <2>6, <2>7
<1>9. SourceHasItsConsumers'
  BY <1>3 DEF IInv, SourceHasItsConsumers
<1>q. QED
  BY <1>2, <1>6, <1>7, <1>8, <1>9 DEF IInv

\* After the wait in unregister_channel no callback into the channel is left.
LEMMA UnregisterKeeps ==
  ASSUME IInv, Unregister \/ Await
  PROVE  IInv'
<1>0. /\ TypeOK /\ ch \in Channels /\ step \in 1 .. 15 /\ phase \in {"undo", "sources", "stop"}
      /\ Advance /\ (phase = "sources" => step <= 2)
  BY PlanLengths DEF IInv, TypeOK, Unregister, Await, Doing
<1>1. /\ Unregister => step = 8
      /\ Await => step = 9
  BY <1>0, StopPlanSteps DEF Unregister, Await, Doing
<1>2. TypeOK'
  BY TypeStop DEF IInv
<1>3. /\ running' = running /\ thread' = thread /\ stopped' = stopped /\ closed' = closed
      /\ workerAt' = workerAt /\ workerCh' = workerCh /\ executorOn' = executorOn
      /\ active' \subseteq active /\ mailbox' \subseteq active'
  BY DEF Unregister, Await, npuVars, IInv, NpuConsistent
<1>4. step \in {8, 9} /\ phase # "sources" /\ Stopping
  BY <1>0, <1>1 DEF Stopping
<1>5. StartProgress' /\ StopProgress' /\ StoppedIsDown'
  <2>1. ch \notin active'
    <3>1. CASE Unregister
      BY <3>1 DEF Unregister
    <3>2. CASE Await
      BY <1>1, <1>3, <1>4, <3>2 DEF IInv, StopProgress
    <3>q. QED
      BY <3>1, <3>2
  <2>2. step + 1 >= 10 => ~WorkerServes(ch)
    BY <1>1 DEF Await
  <2>3. /\ step + 1 >= 3 => Gone(thread'[ch]["source"])
        /\ step + 1 >= 4 => stopped'[ch]
        /\ step + 1 >= 6 => Gone(thread'[ch]["encode"])
        /\ step + 1 >= 8 => Gone(thread'[ch]["infer"])
        /\ step + 1 >= 9 => ch \notin active'
        /\ step + 1 >= 10 => ~(workerAt' \in {"job", "call", "push"} /\ workerCh' = ch)
        /\ step + 1 >= 13 => Gone(thread'[ch]["stream"])
        /\ step + 1 >= 16 => Gone(thread'[ch]["mqtt"])
    BY <1>3, <1>4, <2>1, <2>2 DEF IInv, StopProgress, WorkerServes
  <2>4. \A c \in Channels : stopped'[c] /\ (phase = "sources" \/ c # ch) => Down(c)'
    BY <1>3, <1>4 DEF IInv, StoppedIsDown, Down
  <2>5. phase = "stop" => \A c \in Channels : c > ch => stopped'[c]
    BY <1>3 DEF IInv, StoppedIsDown
  <2>q. QED
    BY <1>0, <2>3, <2>4, <2>5, AdvanceKeeps
<1>6. NpuConsistent'
  <2>1. phase' # "exit"
    BY <1>0, AdvanceType
  <2>q. QED
    BY <1>3, <2>1 DEF IInv, NpuConsistent
<1>7. ClosedQueuesHaveNoProducer'
  BY <1>3 DEF IInv, ClosedQueuesHaveNoProducer, WorkerServes
<1>8. SourceHasItsConsumers'
  BY <1>3 DEF IInv, SourceHasItsConsumers
<1>q. QED
  BY <1>2, <1>5, <1>6, <1>7, <1>8 DEF IInv

\* The steps of main between and after the stops.
LEMMA RestKeeps ==
  ASSUME IInv, Shutdown \/ SkipStopped \/ StopScheduler \/ Exit
  PROVE  IInv'
<1>0. /\ TypeOK /\ ch \in 1 .. N /\ N \in Nat \ {0}
  BY LifecycleAssumption DEF IInv, TypeOK, Channels
<1>1. TypeOK'
  BY TypeStop DEF IInv
<1>2. /\ running' = running /\ thread' = thread /\ stopped' = stopped /\ closed' = closed
      /\ workerAt' = workerAt /\ workerCh' = workerCh /\ active' = active
      /\ mailbox' \subseteq mailbox
  BY DEF Shutdown, SkipStopped, StopScheduler, Exit, npuVars, mainVars
<1>3. ClosedQueuesHaveNoProducer' /\ SourceHasItsConsumers'
  BY <1>2 DEF IInv, ClosedQueuesHaveNoProducer, SourceHasItsConsumers, WorkerServes
<1>4. CASE Shutdown
  <2>1. phase = "run" /\ phase' = "sources" /\ executorOn' = executorOn
    BY <1>4 DEF Shutdown
  <2>2. StartProgress' /\ StopProgress' /\ StoppedIsDown' /\ NpuConsistent'
    BY <1>2, <2>1 DEF IInv, StartProgress, StopProgress, StoppedIsDown, NpuConsistent, Stopping,
       Down
  <2>q. QED
    BY <1>1, <1>3, <2>2 DEF IInv
<1>5. CASE SkipStopped
  <2>1. /\ phase = "stop" /\ step = 1 /\ stopped[ch] /\ step' = 1 /\ executorOn' = executorOn
        /\ \/ phase' = "stop" /\ ch' = ch - 1
           \/ phase' = "scheduler" /\ ~(ch > 1)
    BY <1>5 DEF SkipStopped, NextPipeline
  <2>2. \A c \in Channels : stopped'[c] => Down(c)'
    BY <1>2, <2>1 DEF IInv, StoppedIsDown, Stopping, Down
  <2>3. \A c \in Channels : c >= ch => stopped'[c]
    <3>1. \A c \in Channels : c >= ch => c > ch \/ c = ch
      BY <1>0 DEF Channels
    <3>q. QED
      BY <1>2, <2>1, <3>1 DEF IInv, StoppedIsDown
  <2>4. StoppedIsDown'
    <3>1. CASE phase' = "stop" /\ ch' = ch - 1
      <4>1. \A c \in Channels : c > ch' => c >= ch
        BY <1>0, <3>1 DEF Channels
      <4>q. QED
        BY <2>2, <2>3, <3>1, <4>1 DEF StoppedIsDown
    <3>2. CASE phase' = "scheduler" /\ ~(ch > 1)
      <4>1. \A c \in Channels : c >= ch
        BY <1>0, <3>2 DEF Channels
      <4>q. QED
        BY <2>2, <2>3, <3>2, <4>1 DEF StoppedIsDown
    <3>q. QED
      BY <2>1, <3>1, <3>2
  <2>5. StartProgress' /\ StopProgress' /\ NpuConsistent'
    BY <1>2, <2>1 DEF IInv, StartProgress, StopProgress, NpuConsistent
  <2>q. QED
    BY <1>1, <1>3, <2>4, <2>5 DEF IInv
<1>6. CASE StopScheduler \/ Exit
  <2>1. /\ phase = "scheduler" /\ phase' \in {"scheduler", "exit"} /\ ch' = ch /\ step' = step
        /\ phase' = "exit" => workerAt \in {"none", "joined"} /\ ~executorOn'
        /\ phase' = "scheduler" => executorOn' = executorOn
    BY <1>6 DEF StopScheduler, Exit, mainVars
  <2>2. StartProgress' /\ StopProgress'
    BY <2>1 DEF StartProgress, StopProgress, Stopping
  <2>3. StoppedIsDown'
    BY <1>2, <2>1 DEF IInv, StoppedIsDown, Stopping, Down
  <2>4. NpuConsistent'
    BY <1>2, <2>1 DEF IInv, NpuConsistent
  <2>q. QED
    BY <1>1, <1>3, <2>2, <2>3, <2>4 DEF IInv
<1>q. QED
  BY <1>4, <1>5, <1>6

-----------------------------------------------------------------------------
(* The theorems.                                                           *)

\* The invariant holds initially.
LEMMA InitInvariant == Init => IInv
<1>1. SUFFICES ASSUME Init PROVE IInv
  OBVIOUS
<1>0. N \in Nat \ {0} /\ MqttCapacity \in Nat \ {0} /\ 1 \in 1 .. N
  BY LifecycleAssumption
<1>2. TypeOK
  <2>1. /\ thread \in [Channels -> [Parts -> {"none", "alive", "connect", "push", "ended", "joined"}]]
        /\ running \in [Channels -> [Parts -> BOOLEAN]]
    BY <1>1 DEF Init
  <2>2. alerts \in [Channels -> 0 .. MqttCapacity]
    BY <1>0, <1>1 DEF Init
  <2>q. QED
    BY <1>0, <1>1, <2>1, <2>2, PlanLengths DEF Init, TypeOK, Channels
<1>3. StartProgress /\ StopProgress /\ StoppedIsDown
  BY <1>1 DEF Init, StartProgress, StopProgress, StoppedIsDown, Stopping
<1>4. NpuConsistent
  BY <1>1 DEF Init, NpuConsistent
<1>5. ClosedQueuesHaveNoProducer /\ SourceHasItsConsumers
  BY <1>1 DEF Init, ClosedQueuesHaveNoProducer, SourceHasItsConsumers, Live, Parts
<1>q. QED
  BY <1>2, <1>3, <1>4, <1>5 DEF IInv

\* Every step keeps the invariant.
LEMMA NextInvariant == IInv /\ [Next]_vars => IInv'
<1>1. SUFFICES ASSUME IInv, [Next]_vars PROVE IInv'
  OBVIOUS
<1>2. CASE Main
  BY <1>1, <1>2, StartKeeps, AskKeeps, JoinKeeps, CloseKeeps, UnregisterKeeps, RestKeeps DEF Main
<1>3. CASE Signal
  <2>1. TypeOK'
    BY <1>1, <1>3 DEF Signal, IInv, TypeOK, mainVars, npuVars
  <2>q. QED
    BY <1>1, <1>3, <2>1, OthersKeep DEF Signal, npuVars, IInv, NpuConsistent, WorkerServes
<1>4. ASSUME NEW c \in Channels, ThreadStep(c) PROVE IInv'
  BY <1>1, <1>4, ThreadsKeep
<1>5. CASE Worker
  BY <1>1, <1>5, WorkerKeeps
<1>6. CASE UNCHANGED vars
  <2>1. TypeOK'
    BY <1>1, <1>6 DEF vars, IInv, TypeOK, mainVars, npuVars
  <2>q. QED
    BY <1>1, <1>6, <2>1, OthersKeep DEF vars, npuVars, IInv, NpuConsistent, WorkerServes
<1>q. QED
  BY <1>1, <1>2, <1>3, <1>4, <1>5, <1>6 DEF Next

\* The invariant of starting and stopping, for any number of channels.
THEOREM LifecycleInvariance == Spec => []IInv
<1>1. Init => IInv
  BY InitInvariant
<1>2. IInv /\ [Next]_vars => IInv'
  BY NextInvariant
<1>q. QED
  BY <1>1, <1>2, PTL DEF Spec

\* The variables of main, the threads and the worker stay in their ranges.
THEOREM LifecycleTypeCorrect == Spec => []TypeOK
<1>1. IInv => TypeOK
  BY DEF IInv
<1>q. QED
  BY <1>1, LifecycleInvariance, PTL

\* stop() closes a queue only when no thread and no callback feeds it.
THEOREM QueuesCloseLast == Spec => []ClosedQueuesHaveNoProducer
<1>1. IInv => ClosedQueuesHaveNoProducer
  BY DEF IInv
<1>q. QED
  BY <1>1, LifecycleInvariance, PTL

\* start() and stop() keep every consumer of a running source.
THEOREM ConsumersOutliveSource == Spec => []SourceHasItsConsumers
<1>1. IInv => SourceHasItsConsumers
  BY DEF IInv
<1>q. QED
  BY <1>1, LifecycleInvariance, PTL

\* main leaves no thread, registration or RKNN job behind, whichever start
\* failed.
THEOREM NothingLeft == Spec => []ExitLeavesNothing
<1>1. ASSUME IInv PROVE ExitLeavesNothing
  <2>1. workerAt = "job" => executorOn
    BY <1>1 DEF IInv, NpuConsistent
  <2>2. ASSUME phase = "exit"
        PROVE  /\ \A c \in Channels : \A k \in Parts : thread[c][k] \in {"none", "joined"}
               /\ active = {}
               /\ workerAt \in {"none", "joined"}
               /\ ~executorOn
    <3>1. \A c \in Channels : Down(c)
      BY <1>1, <2>2 DEF IInv, StoppedIsDown, Stopping
    <3>2. active \subseteq Channels
      BY <1>1 DEF IInv, TypeOK
    <3>3. active = {} /\ \A c \in Channels : \A k \in Parts : thread[c][k] \in {"none", "joined"}
      BY <3>1, <3>2 DEF Down, Gone
    <3>q. QED
      BY <1>1, <2>2, <3>3 DEF IInv, NpuConsistent
  <2>q. QED
    BY <2>1, <2>2 DEF ExitLeavesNothing
<1>q. QED
  BY <1>1, LifecycleInvariance, PTL

-----------------------------------------------------------------------------
(***************************************************************************)
(* The scheduler of ChannelLifecycle is the service that NpuScheduler      *)
(* implements.                                                             *)
(***************************************************************************)

\* Between the start of its inference thread and the step of stop() that
\* unregisters it, a channel is registered, and at no other time.  A stop() that
\* has begun has not yet marked the pipeline as stopped before its third step.
Registered ==
  /\ \A c \in active : scheduled /\ thread[c]["infer"] # "none"
  /\ \A c \in Channels :
       /\ scheduled /\ thread[c]["infer"] # "none"
       /\ ~stopped[c] \/ (Stopping /\ ch = c /\ step \in 4 .. 8)
       => c \in active
  /\ phase = "start" =>
       \A c \in Channels : c > ch \/ (c = ch /\ step <= 4) => thread[c]["infer"] = "none"
  /\ Stopping /\ step <= 3 /\ (phase = "undo" \/ step > 1) => ~stopped[ch]

\* A step that leaves main where it is, and neither begins nor joins an
\* inference thread.
LEMMA RegisteredKept ==
  ASSUME IInv, Registered, UNCHANGED <<mainVars, scheduled, active>>,
         \A c \in Channels : thread'[c]["infer"] = "none" <=> thread[c]["infer"] = "none"
  PROVE  Registered'
BY DEF Registered, mainVars, Stopping, IInv, TypeOK

\* The threads of a channel begin and join nobody.
LEMMA InferStays ==
  ASSUME IInv, NEW c \in Channels, ThreadStep(c)
  PROVE  /\ UNCHANGED <<mainVars, scheduled, active, workerAt, workerCh>>
         /\ \A d \in Channels : /\ thread'[d]["infer"] = "none" <=> thread[d]["infer"] = "none"
                                /\ thread'[d]["infer"] = "joined" <=> thread[d]["infer"] = "joined"
<1>0. thread \in [Channels -> [Parts -> {"none", "alive", "connect", "push", "ended", "joined"}]]
  BY DEF IInv, TypeOK
<1>1. UNCHANGED <<mainVars, scheduled, active, workerAt, workerCh>>
  BY DEF ThreadStep, SourceFrame, SourceEnds, InferFrame, InferPush, MqttConnect, MqttPublish,
         Leave, npuVars
<1>2. \/ thread' = thread
      \/ \E k \in Parts : \E t \in {"alive", "push", "ended"} :
           /\ thread[c][k] \in {"alive", "push", "connect"}
           /\ thread' = [thread EXCEPT ![c][k] = t]
  <2>1. CASE SourceFrame(c) \/ MqttPublish(c)
    BY <2>1 DEF SourceFrame, MqttPublish
  <2>2. CASE SourceEnds(c)
    BY <2>2 DEF SourceEnds, Parts
  <2>3. CASE InferFrame(c)
    BY <2>3 DEF InferFrame, Parts
  <2>4. CASE InferPush(c)
    BY <2>4 DEF InferPush, Parts
  <2>5. CASE MqttConnect(c)
    BY <2>5 DEF MqttConnect, Parts
  <2>6. CASE \E k \in Parts : Leave(c, k)
    BY <2>6 DEF Leave
  <2>q. QED
    BY <2>1, <2>2, <2>3, <2>4, <2>5, <2>6 DEF ThreadStep
<1>3. ASSUME NEW k \in Parts, NEW t \in {"alive", "push", "ended"},
             thread[c][k] \in {"alive", "push", "connect"},
             thread' = [thread EXCEPT ![c][k] = t],
             NEW d \in Channels
      PROVE  /\ thread'[d]["infer"] = "none" <=> thread[d]["infer"] = "none"
             /\ thread'[d]["infer"] = "joined" <=> thread[d]["infer"] = "joined"
  <2>1. "infer" \in Parts
    BY DEF Parts
  <2>2. CASE d = c /\ k = "infer"
    BY <1>0, <1>3, <2>1, <2>2
  <2>3. CASE ~(d = c /\ k = "infer")
    <3>1. thread'[d]["infer"] = thread[d]["infer"]
      BY <1>0, <1>3, <2>1, <2>3
    <3>q. QED
      BY <3>1
  <2>q. QED
    BY <2>2, <2>3
<1>q. QED
  BY <1>1, <1>2, <1>3

\* start() registers the channel when it starts its inference thread.
LEMMA StartRegisters ==
  ASSUME IInv, Registered, \E k \in Parts : StartPart(k) \/ StartFails(k)
  PROVE  Registered'
<1>0. /\ N \in Nat \ {0} /\ ch \in 1 .. N /\ step \in 1 .. 15 /\ phase = "start" /\ step <= 5
      /\ thread \in [Channels -> [Parts -> {"none", "alive", "connect", "push", "ended", "joined"}]]
      /\ "infer" \in Parts
  BY LifecycleAssumption, PlanLengths DEF IInv, TypeOK, Channels, StartPart, StartFails, Parts
<1>1. ASSUME NEW k \in Parts, StartFails(k) PROVE Registered'
  <2>1. /\ phase' = "undo" /\ step' = 1 /\ ch' = ch /\ active' = active
        /\ UNCHANGED <<thread, scheduled, stopped>>
    BY <1>1 DEF StartFails, npuVars
  <2>2. \A c \in Channels : ~stopped[c]
    BY <1>0 DEF IInv, StartProgress
  <2>3. ch \in Channels
    BY DEF IInv, TypeOK
  <2>q. QED
    BY <2>1, <2>2, <2>3 DEF Registered
<1>2. ASSUME NEW k \in Parts, StartPart(k) PROVE Registered'
  <2>1. /\ thread' = [thread EXCEPT ![ch][k] = Begun(k)] /\ scheduled' = scheduled
        /\ stopped' = stopped /\ StartPlan[step] = k
        /\ active' = IF k = "infer" /\ scheduled THEN active \cup {ch} ELSE active
        /\ Begun(k) # "none"
    BY <1>2 DEF StartPart, Begun
  <2>2. /\ k = "infer" <=> step = 4
        /\ active \subseteq Channels
    BY <1>0, <2>1, PlanLengths DEF StartPlan, IInv, TypeOK
  <2>3. \A c \in Channels : thread'[c]["infer"] =
          IF c = ch /\ k = "infer" THEN Begun(k) ELSE thread[c]["infer"]
    BY <1>0, <2>1
  <2>4. ASSUME NEW c \in active' PROVE scheduled' /\ thread'[c]["infer"] # "none"
    <3>1. CASE c \in active
      BY <2>1, <2>2, <2>3, <3>1 DEF Registered
    <3>2. CASE c \notin active
      BY <1>0, <2>1, <2>3, <2>4, <3>2 DEF Channels
    <3>q. QED
      BY <3>1, <3>2
  <2>5. \A c \in Channels : scheduled /\ thread'[c]["infer"] # "none" => c \in active'
    BY <1>0, <2>1, <2>3 DEF Registered, IInv, StartProgress
  <2>6. ASSUME phase' = "start", NEW c \in Channels, c > ch' \/ (c = ch' /\ step' <= 4)
        PROVE  thread'[c]["infer"] = "none"
    <3>1. c \in Nat /\ ch' \in Nat /\ ch \in Nat
      BY <1>0, <1>2 DEF StartPart, Channels
    <3>2. c > ch \/ (c = ch /\ step <= 3)
      BY <1>0, <1>2, <2>6, <3>1, PlanLengths DEF StartPart
    <3>3. ~(c = ch /\ k = "infer")
      BY <1>0, <2>2, <3>1, <3>2
    <3>4. thread[c]["infer"] = "none"
      BY <1>0, <3>1, <3>2 DEF Registered
    <3>q. QED
      BY <2>3, <3>3, <3>4
  <2>7. ~Stopping'
    BY <1>2 DEF StartPart, Stopping
  <2>q. QED
    BY <2>1, <2>4, <2>5, <2>6, <2>7 DEF Registered
<1>q. QED
  BY <1>1, <1>2

\* Handing over to the next step, pipeline or source: stop() is at one of the
\* steps 4 to 8 only if it was at the step before.
LEMMA AdvanceProgress ==
  ASSUME IInv, phase \in {"undo", "sources", "stop"}, Advance
  PROVE  /\ phase' # "start"
         /\ Stopping' /\ step' # 1 => Stopping /\ ch' = ch /\ step' = step + 1
<1>0. phase \in {"undo", "sources", "stop"} /\ TypeOK
  BY DEF IInv
<1>1. CASE NextSource
  BY <1>0, <1>1 DEF NextSource, Stopping
<1>2. CASE NextPipeline
  BY <1>0, <1>2 DEF NextPipeline, Stopping
<1>3. CASE step' = step + 1 /\ phase' = phase /\ ch' = ch
  BY <1>0, <1>3 DEF Stopping
<1>q. QED
  BY <1>0, <1>1, <1>2, <1>3, AdvanceCases

\* stop() unregisters the channel at its eighth step, and no other step of main
\* registers or unregisters one.
LEMMA StopRegisters ==
  ASSUME IInv, Registered,
         \/ \E k \in Parts : Ask(k) \/ Join(k)
         \/ \E q \in Queues : Close(q)
         \/ Unregister \/ Await
  PROVE  Registered'
<1>0. /\ phase \in {"undo", "sources", "stop"} /\ Advance /\ scheduled' = scheduled
      /\ step \in 1 .. 15 /\ ch \in Channels
      /\ stopped \in [Channels -> BOOLEAN] /\ active \subseteq Channels
      /\ phase = "sources" => step <= 2
      /\ thread \in [Channels -> [Parts -> {"none", "alive", "connect", "push", "ended", "joined"}]]
      /\ "infer" \in Parts
  BY PlanLengths DEF IInv, TypeOK, Ask, Join, Close, Unregister, Await, Doing, Parts, npuVars
<1>1. /\ phase' # "start"
      /\ Stopping' /\ step' # 1 => Stopping /\ ch' = ch /\ step' = step + 1
  BY <1>0, AdvanceProgress
<1>2. \A c \in Channels : thread'[c]["infer"] = "none" <=> thread[c]["infer"] = "none"
  <2>1. ASSUME NEW k \in Parts, Join(k), NEW c \in Channels
        PROVE  thread'[c]["infer"] = "none" <=> thread[c]["infer"] = "none"
    <3>1. thread' = [thread EXCEPT ![ch][k] = IF thread[ch][k] = "none" THEN thread[ch][k] ELSE "joined"]
      BY <2>1 DEF Join
    <3>2. CASE c = ch /\ k = "infer"
      BY <1>0, <3>1, <3>2
    <3>3. CASE ~(c = ch /\ k = "infer")
      <4>1. thread'[c]["infer"] = thread[c]["infer"]
        BY <1>0, <3>1, <3>3
      <4>q. QED
        BY <4>1
    <3>q. QED
      BY <3>2, <3>3
  <2>q. QED
    BY <2>1 DEF Ask, Close, Unregister, Await
<1>5. ASSUME Stopping', step' <= 3, phase' = "undo" \/ step' > 1 PROVE ~stopped'[ch']
  <2>1. step' # 1
    BY <1>0, <1>5, AdvanceCases, PlanLengths DEF Stopping, NextPipeline, NextSource, IInv
  <2>2. Stopping /\ ch' = ch /\ step' = step + 1 /\ step \in 1 .. 2
    BY <1>0, <1>1, <1>5, <2>1
  <2>3. ~stopped[ch]
    BY <1>0, <2>2 DEF Registered, Stopping, Doing, Ask, Join, Close, Unregister, Await
  <2>4. stopped' = stopped
    BY <1>0, <2>2, StopPlanSteps DEF Doing, Ask, Join, Close, Unregister, Await, Queues
  <2>q. QED
    BY <2>2, <2>3, <2>4
<1>3. CASE Unregister
  <2>1. step = 8 /\ active' = active \ {ch} /\ stopped' = stopped /\ stopped[ch] /\ phase # "sources"
    BY <1>0, <1>3, StopPlanSteps DEF Unregister, Doing, IInv, StopProgress, Stopping
  <2>2. ~(Stopping' /\ step' \in 4 .. 8)
    BY <1>0, <1>1, <2>1
  <2>3. \A c \in active' : scheduled' /\ thread'[c]["infer"] # "none"
    BY <1>0, <1>2, <2>1 DEF Registered
  <2>4. \A c \in Channels : scheduled' /\ thread'[c]["infer"] # "none" /\ ~stopped'[c] => c \in active'
    BY <1>0, <1>2, <2>1 DEF Registered
  <2>q. QED
    BY <1>1, <1>5, <2>2, <2>3, <2>4 DEF Registered
<1>4. CASE ~Unregister
  <2>1. active' = active
    BY <1>4 DEF Ask, Join, Close, Unregister, Await, npuVars
  <2>2. ASSUME NEW c \in Channels, ~stopped'[c] PROVE ~stopped[c]
    BY <1>0, <2>2 DEF Ask, Join, Close, Unregister, Await
  <2>3. ASSUME NEW c \in Channels, Stopping', ch' = c, step' \in 4 .. 8, stopped[c]
        PROVE  step \in 4 .. 8
    <3>1. Stopping /\ ch = c /\ step' = step + 1 /\ step \in 3 .. 7
      BY <1>0, <1>1, <2>3
    <3>2. step # 3
      BY <1>0, <3>1, <2>3 DEF Registered
    <3>q. QED
      BY <3>1, <3>2
  <2>q. QED
    BY <1>0, <1>1, <1>2, <1>5, <2>1, <2>2, <2>3 DEF Registered
<1>q. QED
  BY <1>3, <1>4

\* The remaining steps of main begin or end a loop over the pipelines.
LEMMA LoopsRegister ==
  ASSUME IInv, Registered, Shutdown \/ SkipStopped \/ StopScheduler \/ Exit
  PROVE  Registered'
<1>1. /\ UNCHANGED <<thread, scheduled, active, stopped>>
      /\ phase' # "start"
      /\ Stopping' => step' = 1 /\ phase' = "stop"
  BY DEF Shutdown, SkipStopped, StopScheduler, Exit, NextPipeline, Stopping, npuVars, mainVars
<1>2. \A c \in Channels : scheduled' /\ thread'[c]["infer"] # "none" /\ ~stopped'[c] => c \in active'
  BY <1>1 DEF Registered
<1>3. \A c \in active' : scheduled' /\ thread'[c]["infer"] # "none"
  BY <1>1 DEF Registered
<1>4. ~(Stopping' /\ step' \in 4 .. 8) /\ ~(Stopping' /\ (phase' = "undo" \/ step' > 1))
  BY <1>1
<1>q. QED
  BY <1>1, <1>2, <1>3, <1>4 DEF Registered

\* A channel is registered when and only when it should be.
LEMMA RegisteredInvariance == Spec => []Registered
<1>1. Init => Registered
  BY DEF Init, Registered, Stopping, Parts
<1>2. ASSUME IInv, Registered, [Next]_vars PROVE Registered'
  <2>1. CASE Main
    BY <1>2, <2>1, StartRegisters, StopRegisters, LoopsRegister DEF Main
  <2>2. CASE Signal
    BY <1>2, <2>2, RegisteredKept DEF Signal, npuVars
  <2>3. ASSUME NEW c \in Channels, ThreadStep(c) PROVE Registered'
    BY <1>2, <2>3, InferStays, RegisteredKept
  <2>4. CASE Worker
    <3>1. UNCHANGED <<mainVars, scheduled, active, thread>>
      BY <2>4 DEF Worker, WorkerDispatch, WorkerFinish, Callback, CallbackPush, WorkerExit
    <3>q. QED
      BY <1>2, <3>1, RegisteredKept
  <2>5. CASE UNCHANGED vars
    BY <1>2, <2>5, RegisteredKept DEF vars, npuVars
  <2>q. QED
    BY <1>2, <2>1, <2>2, <2>3, <2>4, <2>5 DEF Next
<1>q. QED
  BY <1>1, <1>2, LifecycleInvariance, PTL DEF Spec

\* Waiting in unregister_channel is what one step of stop() does.
LEMMA AwaitedAt ==
  ASSUME IInv, NEW c \in Channels
  PROVE  Awaited(c) <=> Stopping /\ ch = c /\ step = 9 /\ scheduled /\ thread[c]["infer"] = "joined"
<1>1. step \in 1 .. 15
  BY PlanLengths DEF IInv, TypeOK
<1>2. StopPlan[step] = <<"await", "infer">> <=> step = 9
  BY <1>1, StopPlanSteps DEF StopPlan
<1>q. QED
  BY <1>2 DEF Awaited, Stopping

\* The channels the service sees open.
Opened == active \cup {c \in Channels : Awaited(c)}

\* A step that opens and closes nothing and leaves the worker alone.
LEMMA OnlyMail ==
  ASSUME Opened' = Opened, workerAt' = workerAt, workerCh' = workerCh
  PROVE  /\ mailbox' = mailbox => UNCHANGED Npu!svars
         /\ \A S \in SUBSET Channels : mailbox' = mailbox \ S => Npu!Next
<1>1. ASSUME mailbox' = mailbox PROVE UNCHANGED Npu!svars
  BY <1>1 DEF Npu!svars, Opened
<1>2. ASSUME NEW S \in SUBSET Channels, mailbox' = mailbox \ S PROVE Npu!Next
  <2>1. Npu!Discard(S)
    BY <1>2 DEF Npu!Discard, Opened
  <2>q. QED
    BY <2>1 DEF Npu!Next
<1>q. QED
  BY <1>1, <1>2

\* start() opens the channel with its inference thread.
LEMMA StartOpens ==
  ASSUME IInv, Registered, \E k \in Parts : StartPart(k) \/ StartFails(k)
  PROVE  [Npu!Next]_Npu!svars
<1>0. /\ phase = "start" /\ UNCHANGED <<mailbox, workerAt, workerCh>>
      /\ ch \in Channels /\ step \in 1 .. 5 /\ "infer" \in Parts
  BY PlanLengths DEF IInv, TypeOK, StartPart, StartFails, npuVars, Parts
<1>1. Opened = active
  BY <1>0, AwaitedAt DEF Opened, Stopping
<1>2. Opened' = active'
  <2>1. ~(Stopping' /\ step' = 9)
    BY <1>0, PlanLengths DEF StartPart, StartFails, Stopping
  <2>2. IInv'
    BY StartKeeps
  <2>3. \A c \in Channels : ~Awaited(c)'
    BY <2>1, <2>2, StopPlanSteps, PlanLengths DEF Awaited, Stopping, StopPlan, IInv, TypeOK
  <2>q. QED
    BY <2>3 DEF Opened
<1>3. CASE active' = active
  BY <1>0, <1>1, <1>2, <1>3, OnlyMail
<1>4. CASE active' # active
  <2>1. StartPlan[step] = "infer" /\ active' = active \cup {ch}
    BY <1>4 DEF StartPart, StartFails, npuVars
  <2>2. step = 4
    BY <1>0, <2>1 DEF StartPlan
  <2>3. ch \notin active
    BY <1>0, <2>2 DEF Registered
  <2>4. Npu!Open(ch)
    BY <1>0, <1>1, <1>2, <2>1, <2>3 DEF Npu!Open, Opened
  <2>q. QED
    BY <1>0, <2>4 DEF Npu!Next
<1>q. QED
  BY <1>3, <1>4

\* A step of stop() at which nobody is or will be awaited.
LEMMA NobodyAwaited ==
  ASSUME IInv, phase \in {"undo", "sources", "stop"}, Advance, step # 8, step # 9
  PROVE  \A c \in Channels : ~Awaited(c) /\ ~Awaited(c)'
<1>1. step \in 1 .. 15
  BY PlanLengths DEF IInv, TypeOK
<1>2. ~(Stopping' /\ step' = 9)
  BY <1>1, AdvanceProgress
<1>3. step' \in 1 .. 15
  BY AdvanceType DEF IInv
<1>4. StopPlan[step'] = <<"await", "infer">> => step' = 9
  BY <1>3, StopPlanSteps
<1>5. \A c \in Channels : ~Awaited(c)'
  BY <1>2, <1>4 DEF Awaited, Stopping
<1>q. QED
  BY <1>5, AwaitedAt

\* unregister_channel gives the waiting frame up and leaves the channel open
\* until the worker is seen elsewhere; nothing else in stop() touches it.
LEMMA StopCloses ==
  ASSUME IInv, Registered,
         \/ \E k \in Parts : Ask(k) \/ Join(k)
         \/ \E q \in Queues : Close(q)
         \/ Unregister \/ Await
  PROVE  [Npu!Next]_Npu!svars
<1>0. /\ phase \in {"undo", "sources", "stop"} /\ Advance /\ scheduled' = scheduled
      /\ step \in 1 .. 15 /\ ch \in Channels /\ (phase = "sources" => step <= 2)
      /\ UNCHANGED <<workerAt, workerCh>>
  BY PlanLengths DEF IInv, TypeOK, Ask, Join, Close, Unregister, Await, Doing, npuVars
<1>1. CASE \/ \E k \in Parts : Ask(k) \/ Join(k)
           \/ \E q \in Queues : Close(q)
  <2>1. step # 8 /\ step # 9
    <3>1. ASSUME NEW k \in Parts, Ask(k) PROVE step \in {1, 4, 6, 11, 14}
      BY <1>0, <3>1, StopPlanSteps DEF Ask, Doing
    <3>2. ASSUME NEW k \in Parts, Join(k) PROVE step \in {2, 5, 7, 12, 15}
      BY <1>0, <3>2, StopPlanSteps DEF Join, Doing, Parts
    <3>3. ASSUME NEW q \in Queues, Close(q) PROVE step \in {3, 10, 13}
      BY <1>0, <3>3, StopPlanSteps DEF Close, Doing, Queues
    <3> QED
      BY <1>1, <3>1, <3>2, <3>3
  <2>2. Opened' = Opened /\ mailbox' = mailbox
    BY <1>0, <1>1, <2>1, NobodyAwaited DEF Opened, Ask, Join, Close, npuVars
  <2>q. QED
    BY <1>0, <2>2, OnlyMail
<1>2. CASE Unregister
  <2>1. /\ step = 8 /\ active' = active \ {ch} /\ mailbox' = mailbox \ {ch} /\ thread' = thread
        /\ stopped' = stopped /\ Stopping
    BY <1>0, <1>2, StopPlanSteps DEF Unregister, Doing, Stopping
  <2>2. step' = 9 /\ ch' = ch /\ Stopping'
    BY <1>0, <2>1, AdvanceCases, PlanLengths DEF IInv, Stopping
  <2>3. Gone(thread[ch]["infer"])
    BY <2>1 DEF IInv, StopProgress
  <2>4. ch \in active <=> scheduled /\ thread[ch]["infer"] = "joined"
    BY <1>0, <2>1, <2>3 DEF Registered, Gone
  <2>5. \A c \in Channels : ~Awaited(c)
    BY <2>1, AwaitedAt
  <2>6. \A c \in Channels : Awaited(c)' <=> c = ch /\ ch \in active
    <3>1. StopPlan[step'] = <<"await", "infer">>
      BY <2>2 DEF StopPlan
    <3>q. QED
      BY <1>0, <2>1, <2>2, <2>4, <3>1 DEF Awaited, Stopping
  <2>7. Opened' = Opened
    <3>1. active \subseteq Channels
      BY DEF IInv, TypeOK
    <3>q. QED
      BY <1>0, <2>1, <2>5, <2>6, <3>1 DEF Opened
  <2>8. {ch} \in SUBSET Channels
    BY <1>0
  <2>q. QED
    BY <1>0, <2>1, <2>7, <2>8, OnlyMail
<1>3. CASE Await
  <2>1. /\ step = 9 /\ Stopping /\ ~WorkerServes(ch)
        /\ UNCHANGED <<active, mailbox, thread, workerAt, workerCh>>
    BY <1>0, <1>3, StopPlanSteps DEF Await, Doing, Stopping, npuVars
  <2>2. ch \notin active /\ ch \notin mailbox
    BY <2>1 DEF IInv, StopProgress, NpuConsistent
  <2>3. step' = 10
    BY <1>0, <2>1, AdvanceCases, PlanLengths DEF IInv, Stopping
  <2>4. \A c \in Channels : ~Awaited(c)'
    BY <2>3 DEF Awaited, StopPlan
  <2>5. Opened' = active
    BY <2>1, <2>4 DEF Opened
  <2>6. CASE Awaited(ch)
    <3>1. Opened = active \cup {ch}
      BY <1>0, <2>1, <2>6, AwaitedAt DEF Opened
    <3>2. Npu!Close(ch)
      BY <1>0, <2>1, <2>2, <2>5, <3>1, LifecycleAssumption
         DEF Npu!Close, Opened, WorkerServes, Channels
    <3>q. QED
      BY <1>0, <3>2 DEF Npu!Next
  <2>7. CASE ~Awaited(ch)
    <3>1. Opened = active
      BY <2>1, <2>7, AwaitedAt DEF Opened
    <3>q. QED
      BY <2>1, <2>5, <3>1, OnlyMail
  <2>q. QED
    BY <2>6, <2>7
<1>q. QED
  BY <1>1, <1>2, <1>3

\* A step that leaves main and the registrations where they are opens nothing.
LEMMA OpenedKept ==
  ASSUME UNCHANGED <<mainVars, scheduled, active>>,
         \A c \in Channels : thread'[c]["infer"] = "joined" <=> thread[c]["infer"] = "joined"
  PROVE  Opened' = Opened
BY DEF Opened, Awaited, mainVars

\* Between the pipelines nobody is awaited; stopping the scheduler gives up the
\* frames that wait.
LEMMA LoopsClose ==
  ASSUME IInv, Shutdown \/ SkipStopped \/ StopScheduler \/ Exit
  PROVE  [Npu!Next]_Npu!svars
<1>1. /\ UNCHANGED <<active, workerAt, workerCh>>
      /\ mailbox' = mailbox \/ mailbox' = {}
  BY DEF Shutdown, SkipStopped, StopScheduler, Exit, npuVars
<1>2. \A c \in Channels : ~Awaited(c)
  BY AwaitedAt DEF Shutdown, SkipStopped, StopScheduler, Exit, Stopping
<1>3. \A c \in Channels : ~Awaited(c)'
  <2>1. ~Stopping' \/ step' = 1
    BY DEF Shutdown, SkipStopped, StopScheduler, Exit, NextPipeline, Stopping, mainVars
  <2>2. StopPlan[1] # <<"await", "infer">>
    BY DEF StopPlan
  <2>q. QED
    BY <2>1, <2>2 DEF Awaited, Stopping
<1>4. Opened' = Opened
  BY <1>1, <1>2, <1>3 DEF Opened
<1>5. mailbox \in SUBSET Channels /\ mailbox \ mailbox = {}
  BY DEF IInv, TypeOK
<1>q. QED
  BY <1>1, <1>4, <1>5, OnlyMail

\* A frame that an inference thread submits is put into the mailbox of its
\* channel, and only while the channel is open.
LEMMA ThreadsSubmit ==
  ASSUME IInv, NEW c \in Channels, ThreadStep(c)
  PROVE  [Npu!Next]_Npu!svars
<1>1. Opened' = Opened /\ workerAt' = workerAt /\ workerCh' = workerCh
  BY InferStays, OpenedKept
<1>2. mailbox' = mailbox \/ (c \in active /\ mailbox' = mailbox \cup {c})
  BY DEF ThreadStep, SourceFrame, SourceEnds, InferFrame, InferPush, MqttConnect, MqttPublish,
         Leave, npuVars
<1>3. CASE mailbox' = mailbox
  BY <1>1, <1>3, OnlyMail
<1>4. CASE c \in active /\ mailbox' = mailbox \cup {c}
  <2>1. Npu!Put(c)
    BY <1>1, <1>4 DEF Npu!Put, Opened
  <2>q. QED
    BY <2>1 DEF Npu!Next
<1>q. QED
  BY <1>2, <1>3, <1>4

\* The worker takes one frame of an open channel, answers the channel only
\* while it is open, and is done with the frame once.
LEMMA WorkerServesOpen ==
  ASSUME IInv, Worker
  PROVE  [Npu!Next]_Npu!svars
<1>0. /\ UNCHANGED <<mainVars, scheduled, active, thread>>
      /\ workerCh \in Channels /\ workerCh # 0 /\ mailbox \subseteq active
      /\ active \subseteq Channels
  <2>1. UNCHANGED <<mainVars, scheduled, active, thread>>
    BY DEF Worker, WorkerDispatch, WorkerFinish, Callback, CallbackPush, WorkerExit
  <2>2. workerCh \in 1 .. N /\ N \in Nat
    BY LifecycleAssumption DEF IInv, TypeOK, Channels
  <2>q. QED
    BY <2>1, <2>2 DEF IInv, TypeOK, NpuConsistent, Channels
<1>1. Opened' = Opened /\ active \subseteq Opened
  BY <1>0, OpenedKept DEF Opened
<1>2. ASSUME NEW c \in Channels, WorkerDispatch(c) PROVE Npu!Next
  <2>1. {} \in SUBSET Channels
    OBVIOUS
  <2>2. Npu!Take(c, {})
    BY <1>0, <1>1, <1>2 DEF WorkerDispatch, Npu!Take, Opened
  <2>q. QED
    BY <2>1, <2>2 DEF Npu!Next
<1>3. ASSUME workerAt \in {"job", "call", "push"}, workerAt' = "idle", mailbox' = mailbox
      PROVE  Npu!Next
  <2>1. Npu!Finish
    BY <1>0, <1>1, <1>3 DEF Npu!Finish, Opened
  <2>q. QED
    BY <2>1 DEF Npu!Next
<1>4. CASE WorkerFinish
  <2>1. CASE workerCh \in active /\ schedulerOn
    <3>1. workerAt = "job" /\ workerAt' = "call" /\ workerCh' = workerCh /\ mailbox' = mailbox
      BY <1>4, <2>1 DEF WorkerFinish, KeepJob
    <3>2. Npu!Answer
      BY <1>0, <1>1, <2>1, <3>1 DEF Npu!Answer, Opened
    <3>q. QED
      BY <3>2 DEF Npu!Next
  <2>2. CASE ~(workerCh \in active /\ schedulerOn)
    BY <1>3, <1>4, <2>2 DEF WorkerFinish
  <2>q. QED
    BY <2>1, <2>2
<1>5. CASE Callback
  <2>1. CASE workerAt' = "idle"
    BY <1>3, <1>5, <2>1 DEF Callback
  <2>2. CASE workerAt' = "push"
    <3>1. workerAt = "call" /\ workerCh' = workerCh /\ mailbox' = mailbox
      BY <1>5, <2>2 DEF Callback, KeepJob
    <3>2. UNCHANGED Npu!svars
      BY <1>1, <2>2, <3>1 DEF Npu!svars, Opened
    <3>q. QED
      BY <3>2
  <2>q. QED
    BY <1>5, <2>1, <2>2 DEF Callback
<1>6. CASE CallbackPush
  BY <1>3, <1>6 DEF CallbackPush
<1>7. CASE WorkerExit
  <2>1. UNCHANGED Npu!svars
    BY <1>1, <1>7 DEF WorkerExit, Npu!svars, Opened
  <2>q. QED
    BY <2>1
<1>q. QED
  BY <1>2, <1>4, <1>5, <1>6, <1>7 DEF Worker

\* ChannelLifecycle uses a scheduler that is the service which NpuScheduler
\* implements: the pipelines, the worker and main together make no step that
\* the service does not allow.
THEOREM SchedulerIsUsedAsTheService == Spec => SchedulerIsTheService
<1>1. Init => Npu!Init
  <2>1. ASSUME Init PROVE \A c \in Channels : ~Awaited(c)
    BY <2>1 DEF Init, Awaited
  <2>q. QED
    BY <2>1 DEF Init, Npu!Init
<1>2. ASSUME IInv, Registered, [Next]_vars PROVE [Npu!Next]_Npu!svars
  <2>1. CASE Main
    BY <1>2, <2>1, StartOpens, StopCloses, LoopsClose DEF Main
  <2>2. CASE Signal \/ UNCHANGED vars
    <3>1. UNCHANGED <<mainVars, scheduled, npuVars, thread>>
      BY <2>2 DEF Signal, vars
    <3>2. Opened' = Opened
      BY <3>1, OpenedKept DEF npuVars
    <3>q. QED
      BY <3>1, <3>2, OnlyMail DEF npuVars
  <2>3. ASSUME NEW c \in Channels, ThreadStep(c) PROVE [Npu!Next]_Npu!svars
    BY <1>2, <2>3, ThreadsSubmit
  <2>4. CASE Worker
    BY <1>2, <2>4, WorkerServesOpen
  <2>q. QED
    BY <1>2, <2>1, <2>2, <2>3, <2>4 DEF Next
<1>q. QED
  BY <1>1, <1>2, LifecycleInvariance, RegisteredInvariance, PTL
     DEF Spec, SchedulerIsTheService, Npu!Spec
=============================================================================
