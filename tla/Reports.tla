-------------------------------- MODULE Reports -------------------------------
(***************************************************************************)
(* What a channel reports over MQTT: the loop of InferThread with its own  *)
(* model (run), the completion callback with the NPU scheduler             *)
(* (on_scheduled_result), the ROI filter with its dwell events, and the    *)
(* MQTT queue with its reader.  Stopping is in ChannelLifecycle.           *)
(*                                                                         *)
(* One class of objects and one region are kept.  An object is the place   *)
(* where it stands: boxes at one place overlap (IoU of 0.20 or more),      *)
(* boxes at different places do not.  A summary is its content signature:  *)
(* the number of objects and their highest score.                          *)
(*                                                                         *)
(* Definitions marked (fault) are plausible mistakes, not specification.   *)
(***************************************************************************)
EXTENDS Integers, Sequences, Lists

CONSTANTS
  Places,          \* where objects can stand
  Region,          \* the places inside the region
  Nowhere,         \* the place of a track that was never used
  Scenes,          \* what the camera may see: objects in the order of the
                   \* detector, and their highest score
  FilterOutside,   \* roi.filter_outside
  EveryN,          \* infer_every_n_frames
  Interval,        \* report_interval_sec
  Dwell,           \* roi.track_dwell_sec
  QueueSize        \* capacity of mqtt_queue

Seen == [objects : Seq(Places), score : Nat]

ASSUME ReportsAssumption ==
  /\ Region \subseteq Places
  /\ Nowhere \notin Places
  /\ Scenes \subseteq Seen
  /\ FilterOutside \in BOOLEAN
  /\ EveryN \in Nat \ {0}
  /\ Interval \in Nat
  /\ Dwell \in Nat \ {0}
  /\ QueueSize \in Nat \ {0}

Nothing == [objects |-> <<>>, score |-> 0]
NoKey == [count |-> -1, score |-> 0]

VARIABLES
  mode,          \* configuration: scheduled, plain, roi, tiling (with roi)
  scene,         \* what the camera sees
  npuOk,         \* whether inference succeeds
  frameIdx,      \* frame_idx % step
  last,          \* last_detections, in on_scheduled_result those of the result
  track,         \* tracks_ of the filter: the place and the time since first_ms
  events,        \* pending_events: the places they are about
  sinceReport,   \* time since last_report_time_, up to Interval
  lastKey,       \* last_summary_key_
  pushing,       \* whether the thread waits in push
  payload,       \* the summary it pushes
  queue,         \* mqtt_queue
  tried,         \* history: the signature of the last summary given to push
  accepted,      \* history: the last summary that entered the queue
  lost           \* history: whether a push timed out since then

envVars == <<mode, scene, npuOk>>
inferVars == <<frameIdx, last, track, events>>
reportVars == <<sinceReport, lastKey>>
mqttVars == <<pushing, payload, queue, tried, accepted, lost>>
vars == <<envVars, inferVars, reportVars, mqttVars>>

NoPayload == [objects |-> <<>>, score |-> 0, events |-> {}]

Init ==
  /\ mode \in {"scheduled", "plain", "roi", "tiling"}
  /\ scene \in Scenes
  /\ npuOk = TRUE
  /\ frameIdx = 0
  /\ last = Nothing
  /\ track = [place |-> Nowhere, age |-> 0]
  /\ events = {}
  /\ sinceReport = 0
  /\ lastKey = NoKey
  /\ pushing = FALSE
  /\ payload = NoPayload
  /\ queue = <<>>
  /\ tried = NoKey
  /\ accepted = NoPayload
  /\ lost = FALSE

\* summary_key: scores are part of it, the time is not.
Key(d) == IF d.objects = <<>> THEN [count |-> 0, score |-> 0]
                              ELSE [count |-> Len(d.objects), score |-> d.score]

-----------------------------------------------------------------------------
(* The environment.                                                        *)

SceneChanges ==
  /\ scene' \in Scenes \ {scene}
  /\ UNCHANGED <<mode, npuOk, inferVars, reportVars, mqttVars>>

NpuToggles ==
  /\ npuOk' = ~npuOk
  /\ UNCHANGED <<mode, scene, inferVars, reportVars, mqttVars>>

Older(t, limit) == IF t < limit THEN t + 1 ELSE t

\* Times beyond the limits they are compared with are all alike.
Tick ==
  /\ sinceReport' = Older(sinceReport, Interval)
  /\ track' = [track EXCEPT !.age = Older(@, Dwell)]
  /\ UNCHANGED <<envVars, frameIdx, last, events, lastKey, mqttVars>>

-----------------------------------------------------------------------------
(* A frame.                                                                *)

Roi == mode \in {"roi", "tiling"}

\* The objects that stand in one of the places.
ObjectsIn(d, places) == Sublist(d.objects, {i \in DOMAIN d.objects : d.objects[i] \in places})

Inside(d) == ObjectsIn(d, Region)

\* RoiFilter::filter.  The objects of a class in a region share one track,
\* that follows the last of them and starts again whenever the next one is
\* elsewhere; it is never removed.
Filtered(d) == IF Roi /\ FilterOutside THEN [d EXCEPT !.objects = Inside(d)] ELSE d

TrackAfter(d) ==
  LET o == Inside(d)
  IN  IF ~Roi \/ o = <<>> THEN track
      ELSE [place |-> o[Len(o)],
            age |-> IF \A i \in 1 .. Len(o) : o[i] = track.place THEN track.age ELSE 0]

DwellEvents(d) ==
  {p \in Places : /\ Roi /\ Inside(d) # <<>>
                  /\ p = Inside(d)[1] /\ p = track.place
                  /\ track.age >= Dwell}

\* The summary is handed to push.
Send(d, evs) ==
  /\ pushing' = TRUE
  /\ payload' = [objects |-> d.objects, score |-> d.score, events |-> evs]
  /\ tried' = Key(d)
  /\ UNCHANGED <<queue, accepted, lost>>

\* (fault) the signature is not remembered
ReportForgets(d, evs) ==
  IF sinceReport < Interval
    THEN UNCHANGED <<reportVars, mqttVars>>
    ELSE /\ sinceReport' = 0
         /\ UNCHANGED lastKey
         /\ IF Key(d) = lastKey /\ evs = {} THEN UNCHANGED mqttVars ELSE Send(d, evs)

\* (fault) the signature is remembered although the report is not due
ReportRemembersEarly(d, evs) ==
  /\ lastKey' = Key(d)
  /\ IF sinceReport < Interval
       THEN UNCHANGED <<sinceReport, mqttVars>>
       ELSE /\ sinceReport' = 0
            /\ IF Key(d) = lastKey /\ evs = {} THEN UNCHANGED mqttVars ELSE Send(d, evs)

\* (fault) events alone are no reason to report
ReportWithoutEvents(d, evs) ==
  IF sinceReport < Interval
    THEN UNCHANGED <<reportVars, mqttVars>>
    ELSE /\ sinceReport' = 0
         /\ lastKey' = Key(d)
         /\ IF Key(d) = lastKey THEN UNCHANGED mqttVars ELSE Send(d, evs)

\* The end of run and of on_scheduled_result: at most one summary per
\* interval, and only if its signature is new or there are events.
Report(d, evs) ==
  IF sinceReport < Interval
    THEN UNCHANGED <<reportVars, mqttVars>>
    ELSE /\ sinceReport' = 0
         /\ lastKey' = Key(d)
         /\ IF Key(d) = lastKey /\ evs = {} THEN UNCHANGED mqttVars ELSE Send(d, evs)

\* What an inference yields.  A tile whose inference fails yields nothing; if
\* the inference of the whole frame fails, the detections before it remain.
Detections ==
  CASE npuOk           -> {scene}
    [] mode = "tiling" -> {[scene EXCEPT !.objects = ObjectsIn(scene, S)] :
                             S \in SUBSET Places}
    [] OTHER           -> {last}

\* (fault) events stay until they are reported
InferredFrameKeepsEvents ==
  /\ mode # "scheduled" /\ ~pushing
  /\ frameIdx = 0
  /\ frameIdx' = 1 % EveryN
  /\ \E d \in Detections :
       /\ last' = Filtered(d)
       /\ track' = TrackAfter(d)
       /\ events' = events \cup DwellEvents(d)
  /\ Report(last', events')
  /\ UNCHANGED envVars

InferredFrame ==
  /\ mode # "scheduled" /\ ~pushing
  /\ frameIdx = 0
  /\ frameIdx' = 1 % EveryN
  /\ \E d \in Detections :
       /\ last' = Filtered(d)
       /\ track' = TrackAfter(d)
       /\ events' = DwellEvents(d)
  /\ Report(last', events')
  /\ UNCHANGED envVars

\* infer_every_n_frames: a frame without inference still may report.
SkippedFrame ==
  /\ mode # "scheduled" /\ ~pushing
  /\ frameIdx # 0
  /\ frameIdx' = (frameIdx + 1) % EveryN
  /\ Report(last, events)
  /\ UNCHANGED <<envVars, last, track, events>>

\* on_scheduled_result; a failed result has no effect.
ScheduledResult ==
  /\ mode = "scheduled" /\ ~pushing
  /\ npuOk
  /\ last' = scene
  /\ Report(last', {})
  /\ UNCHANGED <<envVars, frameIdx, track, events>>

Frame == InferredFrame \/ SkippedFrame \/ ScheduledResult

-----------------------------------------------------------------------------
(* The queue and its reader.                                               *)

\* push(summary, 100): room was found in time, or the summary is dropped.
PushEnds ==
  /\ pushing
  /\ pushing' = FALSE
  /\ payload' = NoPayload
  /\ IF Len(queue) < QueueSize
       THEN queue' = Append(queue, payload) /\ accepted' = payload /\ lost' = FALSE
       ELSE lost' = TRUE /\ UNCHANGED <<queue, accepted>>
  /\ UNCHANGED <<envVars, inferVars, reportVars, tried>>

MqttPublish ==
  /\ queue # <<>>
  /\ queue' = Tail(queue)
  /\ UNCHANGED <<envVars, inferVars, reportVars, pushing, payload, tried, accepted, lost>>

Next ==
  \/ SceneChanges \/ NpuToggles \/ Tick
  \/ Frame
  \/ PushEnds \/ MqttPublish

Spec == Init /\ [][Next]_vars

\* Time passes, frames arrive, a push ends and the broker is connected.
FairSpec ==
  Spec /\ WF_vars(Tick) /\ WF_vars(Frame) /\ WF_vars(PushEnds) /\ WF_vars(MqttPublish)

-----------------------------------------------------------------------------
(* Properties.                                                             *)

Summary == [objects : Seq(Places), score : Nat, events : SUBSET Places]

\* Every variable stays in its range.
TypeOK ==
  /\ mode \in {"scheduled", "plain", "roi", "tiling"}
  /\ scene \in Scenes
  /\ npuOk \in BOOLEAN
  /\ frameIdx \in 0 .. EveryN - 1
  /\ last \in Seen
  /\ track \in [place : Region \cup {Nowhere}, age : 0 .. Dwell]
  /\ events \in SUBSET Region
  /\ sinceReport \in 0 .. Interval
  /\ lastKey \in [count : Nat \cup {-1}, score : Nat]
  /\ pushing \in BOOLEAN
  /\ payload \in Summary
  /\ queue \in Seq(Summary)
  /\ Len(queue) <= QueueSize
  /\ tried \in [count : Nat \cup {-1}, score : Nat]
  /\ accepted \in Summary
  /\ lost \in BOOLEAN

Objects(d) == {d.objects[i] : i \in 1 .. Len(d.objects)}

\* A summary is of one frame: it never reports that an object stays in the
\* region next to a list of objects in which that object does not appear,
\* although events and objects are carried over skipped and failed frames.
EventsMatchObjects ==
  \A d \in {payload} \cup {queue[i] : i \in 1 .. Len(queue)} : d.events \subseteq Objects(d)

\* Two summaries in a row with the same signature reach the queue only if one
\* of them has an event, or a summary between them was dropped.
NoRepeatedSummary ==
  [][pushing /\ Len(queue') > Len(queue) /\ payload.events = {} /\ accepted # NoPayload
       => Key(payload) # Key(accepted) \/ lost]_vars

\* When the scene settles, the last summary anybody tried to send is one of
\* this scene: throttling and skipped frames delay a change, they do not
\* swallow it.
SettledSceneIsAttempted ==
  \A s \in Scenes :
    <>[](scene = s /\ npuOk) => <>[](tried = Key(Filtered(s)))

\* An object that stays in the region, alone of its class, is reported again
\* and again, although an event by itself changes no signature.
StayIsReported ==
  \A s \in Scenes :
    Roi /\ Len(Inside(s)) = 1 /\ <>[](scene = s /\ npuOk)
      => []<>(\E i \in 1 .. Len(queue) : queue[i].events # {})

\* The summaries go through the queue that BlockingQueue implements.
MqttQueue == INSTANCE BoundedQueue WITH
  Capacity <- QueueSize, Lossy <- FALSE, items <- queue, closed <- FALSE

SummariesAreQueued == MqttQueue!Spec
=============================================================================
