# AlertGateway: a TLA+ verification project

AlertGateway is a C++ gateway for RK3588 boards. Each channel takes video from
a V4L2 camera or pulls it from a network stream, runs YOLO on the NPU, draws
the detections into the picture, encodes it, publishes it over RTMP and reports
what it sees over MQTT. Several channels share one NPU.

This directory holds TLA+ models of the code under `src/`, the TLC
configurations that check them on small instances, and theorems about them
whose proofs are checked by TLAPS. File and line references below are relative
to the repository. `PROJECT.json` is the index: components, runs, mutants, the
map from each definition to the lines it models, findings, hazards, theorems.

To check something by hand:

    tlasany NpuScheduler.tla
    tlc -workers 2 -config MCFrameFlow.cfg MCFrameFlow
    tlapm NpuSchedulerProofs.tla

## 1. Inventory

### The system

    main ── ChannelPipeline (one per channel)
              source thread ─┬─ enc_queue(1) ──── EncodeThread ── stream_queue(2) ── StreamThread ── RTMP
     (CaptureThread or       │                        ▲ reads
      PullStreamThread)      │                 SharedDetections (tracker)
                             │                        ▲ writes
                             └─ infer_queue(1) ── InferThread ── mqtt_queue(16) ── MqttThread ── broker
                                                      │   ▲
                                              submit  ▼   │ completion callback
                                        NpuInferenceScheduler (one per process, one worker)
                                                      │
                                              RknnNpuExecutor (one RKNN context)

Without the scheduler (the `npu_scheduler` section of the configuration is
disabled) each InferThread owns a model and infers by itself.

### Components

**NPU inference scheduler** (`src/infer/NpuInferenceScheduler.*`).
State: the map `channels_` (per channel: registered, the one-frame mailbox
`latest_frame`, `next_eligible_at`, `running`, `callbacks_in_flight`, the
completion, statistics), `channel_order_`, `next_round_robin_index_`,
`accepting_`, `stop_requested_`, `worker_running_`, the statistics window. All
of it is under one mutex with one condition variable `wakeup_`.
Operations: `register_channel`, `unregister_channel`, `submit`, `start`,
`stop`, the worker loop. The executor and the completions run without the
mutex. Hard: threads of three kinds wait on one condition variable and `submit`
wakes only one of them; a channel may go away, or be registered again, while
its job or callback is in flight; the round robin index survives changes of the
order; a stop overlaps everything.
Correct when: one job at a time; no callback into a channel that has
unregistered; no lost wakeup; `unregister_channel` and `stop` return; every
mailbox is served and nobody is overtaken twice; every frame is accounted for.

**Bounded queue** (`src/common/BlockingQueue.hpp`).
State: the deque, `closed_`, two condition variables. Operations: `push` (with
or without timeout), `push_latest` (replaces the oldest item), `pop` (with or
without timeout), `close`. Hard: one notification per item, `push_latest`
notifies after the unlock and evicts without notifying, timeouts race
notifications. Correct when: no lost wakeup, FIFO, nothing delivered twice, a
closed queue only drains and lets everybody go.

**RTMP publisher** (`src/stream/StreamThread.*`).
State: `fmt_ctx_` and its `pb->error`, `extradata_set_`, `header_written_`, the
cached SPS and PPS, `stream_pts_origin_ms_`, `last_stream_pts_ms_`, `running_`.
Operations: `start`, `stop`, the packet loop, `write_extradata`,
`write_packet`, the reconnect loop that drains the queue, the heartbeat when
idle. Hard: only the encoder's first key frame carries SPS and PPS; a header may
be refused on a good connection; source timestamps restart while the
connection stays; writes to a dead peer still succeed for a while. Correct
when: the context is used only while open; one header per connection and
first; output time strictly increases; stop returns; it comes back when the
server does.

**Process and channel lifecycle** (`src/main.cpp`, `src/app/ChannelPipeline.*`).
State: `g_running`, the pipelines with `source_started_` and `stopped_`, the
threads. Operations: `build`, `start` (consumers first, with rollback),
`stop_source`, `stop`, main's two-stage shutdown (all sources, then pipelines
in reverse), then scheduler and executor. Hard: a failure of any start while
other channels run; SIGINT at any time; callbacks that push to a channel being
stopped. Correct when: queues close after their producers, consumers outlive
the source, nothing is left at exit, and the process exits.

**Inference thread** (`src/infer/InferThread.*`). `run` (own model),
`run_scheduled` (submits), `on_scheduled_result` (runs on the NPU worker),
inference pacing, tiling steps, ROI events, the throttled report with
`last_summary_key_`. Hard: the report keeps state across frames that are not
reported; the callback runs on another thread. Correct when: a change of the
scene is reported, and what is reported was seen.

**MQTT thread** (`src/mqtt/MqttThread.*`). Connects once, then takes summaries
and publishes them; returns when the first connection fails. Paho reconnects by
itself. Hard: after that return nobody reads the queue.

**RKNN executor** (`src/infer/RknnNpuExecutor.*`). Owns the RKNN context; one
`execute` per job. Created and destroyed by main around the scheduler.

**V4L2 source** (`src/capture/CaptureThread.*`) and **pull source**
(`src/capture/PullStreamThread.*`). Deliver frames to both input queues, with
different rules when a queue is full; the pull source reconnects, paces, and
repairs timestamps. Hard: a source that ends by itself with `running_` set;
timestamps that restart. Correct when: frame times of one connection strictly
increase and both consumers see the newest frame.

**Encoder thread** (`src/encode/EncodeThread.*`). Waits for the alignment delay,
asks `SharedDetections` for the boxes of a frame, draws, encodes, pushes
packets without waiting. Hard: it draws into a DMA buffer that the inference
queue may share; every failure on the way gives a frame up; a lost packet breaks
its successors until the next key frame. Correct when: frames stay in order
across drops and reconnections, and a slow reader of the packets never stops it.

**Tracker and shared detections** (`src/common/SharedDetections.hpp`).
State: `tracks_` (smoothed box, hits, a waiting jump, a waiting rival of another
class, Tentative/Active/Shadow), `snapshots_` by timestamp. Operations: `update`
by inference, `get_for_pts` by the encoder, one mutex. Hard: tracks are
associated greedily, merged, held and erased by timestamps that restart with the
source; counters of hits, jumps and rivals survive missed frames. Correct when:
one box per object, only confirmed ones, every steady object, no ghosts, and
never the boxes of an earlier connection instead of one's own.

**Frames and buffers** (`src/common/Frame.hpp`, `FrameBufferPool.hpp`). A frame
shares its pixels with its copies in both queues and three threads; a pool takes
the buffer back in the deleter of the last one. Hard: who the last one is depends
on drops anywhere. Correct when: nobody's pixels change under him and the pool
stays small.

**Tiling** (`src/infer/TilingTask.*`, branch of `InferThread::run`). A region is
inferred in overlapping tiles, objects that a cut divides again in joint regions,
and one of the competing boxes is published. Hard: four passes that unite and drop
boxes in an order that depends on their scores and edges. Correct when: every
rectangle can be cut out, an object at a cut is seen whole, one box per place
comes out, and none goes for a box that goes as well.

**ROI filter, thumbnails** (`RoiFilter.*`, `ThumbnailTask.*`), **YOLO
post-processing** (`YoloPostprocess.*`, `RockchipYoloPostprocess.*`),
**configuration** (`main.cpp`, `build`): sequential computation; of these the
filter keeps state, in `Reports`.

Left aside: `third_party/` (vendored headers and libraries), `tools/`
(benchmarks; `npu_scheduler_smoke.cpp` was read as the scheduler's test),
models, scripts, deployment files, documents other than as quoted.

## 2. Plan

Order, the most important first. Items 1 to 10 are done, 11 is left.

| # | module | composes or refines | runs | theorems |
|---|--------|---------------------|------|----------|
| 1 | `NpuScheduler`, `NpuService` (abstract) | NpuScheduler implements NpuService | npu_safety, npu_live | invariants, refinement |
| 2 | `NpuRoundRobin`, `NpuSchedulerStats` | extend NpuScheduler with history and counters | npu_live, npu_safety | round robin, accounting |
| 3 | `BlockingQueue`, `BoundedQueue` (abstract) | BlockingQueue implements BoundedQueue | queue | wakeups, order, closing, refinement |
| 4 | `StreamThread`, `RtmpSession` (abstract) | StreamThread implements RtmpSession and uses BoundedQueue | stream, stream_mute | header, connection, timestamps, both refinements |
| 5 | `ChannelLifecycle` | main and all threads; the scheduler in it implements NpuService | lifecycle | order of closing and stopping, refinement |
| 6 | `Reports` | inference loop, throttle, ROI filter; uses BoundedQueue | reports | no repeated summary, events of their objects, refinement |
| 7 | `Boxes`, `Lists`, `Tracker` | writer and reader of `SharedDetections` | tracker, tracker_switch | all invariants |
| 8 | `FrameFlow` | source, encoder with its delay, inference, buffer pool; uses BoundedQueue three times | frames, frames_draw | buffers, order, freshness, refinement |
| 9 | `Tiling` | on `Boxes`; what inference finds is a constant | tiling | all invariants; tiles cover the region |
| 10 | `BoundedQueue`, `NpuService`, `RtmpSession` as interfaces | what a component implements, the ones around it use | in the runs above | the refinements named above |
| 11 | configuration | merge over defaults as a function, against the ASSUMEs of 1, 7, 9 | in the run of another module | idempotence |

## 3. What is modelled, and how

A critical section, or an iteration of a single-threaded loop between two
points where others can interfere, is one action. Definitions marked `(fault)`
are not part of a model: each is a plausible mistake in the definition that
follows it, listed under "mutants", and shows that a property can fail.

### NpuScheduler, NpuService

Variables carry the code's names. A thread blocked in `wakeup_` is a member of
`waiters`; `notify_all` empties the set, `notify_one` removes an arbitrary
member, so the wrong thread may take the wakeup of `submit`. `Register`,
`Unregister` with `UnregisterRecheck` (the wait of line 106), `Submit`, `Start`,
`StopRequest`/`StopNotify`/`StopJoin` are the public operations. The worker is
the step that examines the mailboxes (stop, statistics window, stale frames,
round robin, or sleep with a deadline), the end of the executor's job, and the
end of the callback. Between these, everything else may happen.

Time is relative: `eligibleIn`, `statsIn`, `wakeIn` count down, `mailbox`
holds the age of the frame; `Tick` moves all of them. Ages above
`MaxFrameAge` are equivalent and collapse. `completion` names the registration
that owns the callback, so that a callback of an earlier registration of the
same id would be seen.

`NpuService` is what callers rely on: a serial server with one-frame mailboxes,
where a channel is closed in one step, and never while it is being served. The
refinement mapping is `Service` at the end of `NpuScheduler`.

`NpuRoundRobin` adds one history variable, who was served while a channel was
ready. `NpuSchedulerStats` adds the counters of `NpuChannelStats` and
`NpuSchedulerStats` to each action, and their reset in
`emit_stats_if_due_locked`; the throttled counter, sample vectors and
percentiles are left out.

### BlockingQueue

`notFull` and `notEmpty` are the threads asleep in the condition variables. A
call is entered (`push`, `pop`), may fall asleep, resumes when it was notified,
expired, or woke spuriously, and re-tests its predicate. `push_latest` is two
actions: the locked part and the notification. Items are numbered as they are
accepted, and three history variables say what became of them.

`BoundedQueue` is what users of a queue rely on: each call happens at once, an
accepted item leaves in its turn or is replaced by `push_latest`, a closed queue
only drains. `BlockingQueue` implements it (`Bounded`). `StreamThread`, `Reports`
and `FrameFlow` have sequences for queues, without locks and waits, and each shows
that all it does to one is a step of `BoundedQueue` (`PacketsAreQueued`,
`SummariesAreQueued`, `FramesAreQueued`): that is why they may leave the waits out.

### StreamThread

One iteration of the loop is one action: `Consume` (header, parameter sets,
packet, failure), `Idle` (the heartbeat), and the steps of `reconnect_loop`
(drain, wait, connect, write the cached header). `Encode`, `ServerToggles` and
`PeerDrops` are the environment: they are unconstrained except that only the
first key frame carries SPS and PPS, which the MPP encoder does. `stop` is a
request and a join. FFmpeg calls have every outcome the code distinguishes.

`RtmpSession` is the server's side: sessions of one header and then packets with
growing times. `Server` maps the connection and the counters of what was written
to it; a reconnect has to end one session before it begins the next.

### ChannelLifecycle

main is a program counter over `StartPlan` and `StopPlan`, the order of the calls
in `ChannelPipeline::start` and `stop`; `StartFails` branches into the rollback,
`Shutdown` into stopping the sources of all channels and then the pipelines from
the last to the first. `Join` waits for the thread. The two halves of
`unregister_channel` are `Unregister` and `Await`; that waiting there ends is
what `NpuScheduler` shows, and what it relies on is shown here: `Npu` maps the
registered channels, the mailboxes and the worker's place to `NpuService`, with a
channel open until `unregister_channel` returns (`Awaited`). So `NpuScheduler`
implements the service for any callers, and main with its threads are callers
that never ask it for more than it grants. The worker takes a frame, finishes it, calls back,
and may wait in the push to the MQTT queue. `Enqueued` is a push with its
timeout: it succeeds when there is room before the timeout and else is ignored.

Source, encoder and publisher appear with their start, end and stop only: what
passes between them decides nothing about the order of starting and stopping.

### Reports

Four configurations (`mode`): results from the scheduler, an own model without
and with ROI, and tiling, which has its own way to fail. `Frame` is one iteration
of `run`, with inference or skipped by `infer_every_n_frames`, or one call of
`on_scheduled_result`; it ends with `Report`, the throttle and the comparison of
signatures, which is the same code in both places. `PushEnds` is the push with
its timeout, `MqttPublish` the reader. The scene and the health of the NPU are
the environment. If an inference fails, `run` reports what it kept, a tiled frame
reports the tiles that worked, and the scheduled callback returns.

An object is the place where its box is; one class and one region are kept, and
a summary is its signature (how many objects, their highest score) with its
events. The loop of `RoiFilter::filter` over the boxes of a class, all of which
share one track, appears in closed form: `TrackAfter`, `DwellEvents`, `Filtered`.
Time since the last report and since the start of a track count up to the limits
they are compared with.

### Boxes, Tracker

`Boxes` is the geometry in whole pixels and percentages: comparisons of quotients
are comparisons of products, so they are exact where the code computes in floats.
`Tracker` has one action for `update` and operators for the two modes of
`get_for_pts`, since each holds the mutex throughout. `Update` is the whole
function: the greedy association (`Associations`), a rival or jump that waits for
its second sighting (`Matched`, `Measured`, `Accepted`), new tracks, shadowing,
erasing, both deduplications (`Settled`, `Drawable`), publishing. Ages are
relative to the last update, so a `Restart` of the source moves all of them back,
below zero. Two history variables count sightings: `support` of a class around a
place (at places so close that one object may be detected at both, `Akin`), as long
as updates go on seeing it or a track or its rival is there, and `lone` of a detection with nothing near it, neither another
detection nor, when it was first seen, a track.

How two boxes lie is looked up in tables over the boxes that occur (`Rival`,
`Inside`, `Near`, ...). The two loops of a deduplication are a recursive
function over their turns (`Dropped`): a pair of positions is looked at if the
code looks at it, and drops one of them if neither is gone. `Lists` has the part
of a list at given positions (`Sublist`), which is what `erase(remove_if(...))`
and the filtering loops leave; unlike `SelectSeq` it can be reasoned about.

Two things are abstracted. A filter (`adaptive_box`, `ema_box`, the clamp) may
put a box at either end of the way it takes, old or measured. The association
compares scores in percent without the share of the distance and leaves the order
open where they differ by less than `ScoreSlack`: every choice the code can
make is among the model's.

### FrameFlow

A frame is its number, connection, time and buffer; copying it copies the
reference. `pixels` says of each buffer which frame it was filled for and whether
boxes were drawn into it. The threads are the source (`Connect`, `Decode`, the
two deliveries in the order each source has them), the encoder (`TakeFrame` with
the alignment, `Draw`, `Put`, `GetPacket`, `Encoded`), inference (`InferTakes`,
`InferDone`) and the reader of packets. Whoever drops the last reference gives
the buffer back, in the same step (`Recycle`). `Delivered` after 100 ms without
room, lost packets, refused frames and decoders, and unusable pictures are
alternatives of those actions. `source` chooses between the camera, decoded
pictures in pooled memory, and DRM buffers of the hardware decoder.

### Tiling

`Tiles`, `JointRegions`, `MergeBoundary`, `SuppressTileDuplicates`, `SelectExclusive`
and `Merge` are the functions of `TilingTask`. Loops over pairs of boxes are recursive
functions over their turns (`Turn`), a choice in turn is the set of positions kept
(`Kept`), what a loop leaves of a list a `Sublist`. The actions are the steps of the
branch in `InferThread::run`: a tile, the merge, a joint region, publishing. What
inference finds in a rectangle is the constant `Detections(_)`: any list of boxes with
class and score (`Finding`) the instance allows, also none. They may stick out of the
rectangle: RockchipYoloPostprocess.cpp:213 cuts them, the other output layout
(YoloPostprocess.cpp:52) does not. `RecheckSeesBoth` therefore speaks of what of a box
lies in the frame. `Orders` is what `std::sort` may return for a comparison, with no
more assumed of it than that neighbours are not reversed. `MCTiling` checks the
assertions of `tools/benchmark/image_processing_smoke.cpp` about tiling as ASSUMEs:
they test that the translation does what the code does.

## 4. Runs

| run | instance | shows |
|-----|----------|-------|
| npu_safety | 2 channels, one registered twice, different periods, age limit 1, windows of one tick with a frame per channel (1.76 M states) | one job, of a living owner; no lost wakeup; every frame and job counted once; a stop leaves nothing; NpuService is implemented, over every interleaving |
| npu_live | 3 channels, registered and unregistered in any order, one of them with a minimum distance, no age limit (148 k states) | unregistering and stopping return; every mailbox is served; a channel that waits is not overtaken twice while others come and go, but once more for being passed over |
| queue | 3 threads, capacity 2, 4 items (26 k states) | no lost wakeup, order and accounting, BoundedQueue is implemented, closed and timed calls return |
| stream | queue of 2, timestamps 0..2, 5 packets (20 k states) | the server sees sessions of one header and packets of growing times; stop ends; the server gets a header again, except on the mute connection |
| stream_mute | the same with 3 packets | violation: see findings |
| lifecycle | 2 channels, MQTT queue of 1 (251 k states) | queues close after their producers, consumers outlive the source, nothing left at exit, the scheduler is used as NpuService, the process ends |
| reports | 4 scenes, every second frame inferred, report and dwell after 1 tick, MQTT queue of 1 (111 k states) | events match the objects of their summary, no repetition, no change swallowed by the throttle, a stay is reported |
| tracker | 4 boxes of 2 classes, up to 2 detections a frame, one restart (51 k states, 2.9 M steps) | one box per object, what is drawn was seen there often enough, an object with nothing near it is shown, a frame gets its connection's boxes, ghosts vanish |
| tracker_switch | as tracker | violation: see findings |
| frames | queues of 1, one frame held back, 4 frames over 2 connections, 7 buffers (842 k states) | pixels stay a frame's own, order from source to packets, inference ends with the newest frame, the encoder catches up |
| frames_draw | as frames | violation: see findings |
| tiling | a 4K frame in 2 tiles, and a narrow region with odd corners; up to 2 of 6 objects, one of them beyond the upper edge, in each rectangle (62 k states) | rectangles can be cut out, divided objects are seen whole, one box per place, losers have winners |

Each property of a passing run has a fault that it detects (PROJECT.json,
"mutants"). The type invariants of the scheduler, queue, publisher, lifecycle and
reports are proved, as are `ClosedOnlyDrains` and `HeaderOnceAndFirst`, which the
abstract queue and session of their runs contain; they are not checked again by a run.
That output times grow is part of `RtmpSession` too (`ServerSeesSessions`).

### Bounds and why they are enough

- Two channels show every interference of a channel with another but in the order of
  serving, which needs a third: one that waits, one that is served, and one whose
  unregistration shifts `channel_order_` under the index. Without an age limit no step
  reads the age of a frame, so npu_live keeps frames of one age only (`AgesAlike` in
  `MCNpuRoundRobin`). A channel id registered twice is the least
  that lets a callback meet a later registration; `MaxRegistrations` bounds it.
  `MaxReceived` bounds the frames counted in a window of statistics: a frame can be
  in flight, waiting or over when the window is reset.
- Times are 0, 1 or 2 ticks: due, not due, and one of two different periods.
  Only comparisons of deadlines matter, and the clock itself is not bounded.
- Three queue threads: two may sleep in the same call while the third acts, the
  least for a wakeup taken by the wrong one. Four items (`MaxItems`) over a
  capacity of 2 fill the queue twice. No push is called beyond it; calls that
  wait are then ended by `close`, which is always possible.
- Five packets (`MaxPackets`): a key frame, a failure, a reconnect, and packets
  after it with repeated or restarted timestamps (`MaxPts`).
- An MQTT queue of one summary is full after one callback; the code's 16 differ
  only in how long it takes.
- Four scenes: two that differ in the score alone once filtered, one with two
  objects sharing a track, one empty. With every second frame inferred, reports
  fall on inferred and on skipped frames.
- Tracker: two classes on nearly the same box are rivals; a box inside them, one
  beside them too far to correct at once but within the reach of association, and
  two that are out of each other's reach are the other relations a track can have
  to a detection. A unit is 100 ms; holding for 1 and living for 2 give a track that
  is shown, in the shadow and gone. `MaxElapsed` and `MaxRestarts` bound how far
  timestamps go back and how often; two snapshots make the oldest one go.
- FrameFlow: one connection lost, and four frames (`MaxFrames`): one held back, one
  in the encoder, one in each queue. `Buffers` is one more than the frames that can
  be held at a time, so that it never limits the source.
- Tiling: two tiles have a cut; six objects give halves, a whole, a nested rival
  and a competitor in the other tile. Two per rectangle bound the run, and make
  up to eight candidates.
- Theorems hold without the bounds: for every set of channels, number of
  registrations, capacity, number of frames, items and packets, and, in
  `Tiling`, for every size of the frame, region and set of detections.

### Fairness

Weak fairness of what the operating system and the libraries run: the worker, a
notified or expired waiter, the notification after an unlock, joins, main's
next step, and the clock. Timed waits end (`Expire`, `Tick`), which is why a
push with timeout is fair in `ChannelLifecycle` and `Reports`. In
`ChannelLifecycle` threads that connect or leave do so once each, and share one
condition. In `Reports` frames keep coming, and nothing is assumed of the NPU but
by the properties that say so. In `StreamThread` the attempt to reconnect is
fair of its own (`WF_vars(Retry)`): the loop alternates between draining and
trying, its pause has a fixed length. In `FrameFlow` the encoder's loop and the
delivery to it (a push with timeout) go on; the network, the camera, inference
and the reader of packets may stop for ever, since the encoder must not depend
on them. `Tracker` and `Tiling` have no liveness of their own: their steps are
calls. Calls into RKNN, FFmpeg, MPP and Paho are assumed to return. Nothing is
assumed of callers: no submit, signal, packet, close or source failure has to
happen. `ReconnectsOnceServerIsBack` has the condition that the server
eventually stays up; `EveryMailboxServed` is checked without an age limit, since
a stale frame is dropped on purpose.

Deadlock checking is off where the system rightly stops: after the process has
ended, after the publisher was stopped, when every queue call has returned, when
the source of frames has ended or delivered `MaxFrames`.

## 5. Findings

- **stream_mute** (code bug, StreamThread.cpp:251). `reconnect_loop` ignores the
  result of `write_extradata`. If the header is refused, the publisher stays
  connected and drops every packet until it is restarted, the symptom BUGS.md
  describes as repaired (BUG-008).
- **tracker_switch** (code bug, SharedDetections.hpp:254). A confirmed rival class
  whose box lies in the dead zone of the shown one does not take over: the old box
  is kept with its old class. A wrong class on an object that stands still is never
  corrected, while the test says that the second frame switches.
- **frames_draw** (document, EncodeThread.cpp:581). With DRM frames the encoder
  draws its boxes into the buffer that waits for or is read by inference, while
  PROJECT_MEMORY.md:1112 and :1048 say that the decoded picture is first written into a
  buffer of the encoder.

Observed while modelling, without a run of their own:

- Inference, reports. The signature of a summary contains scores
  (InferThread.cpp:421), so a summary is sent when only a score moved. It is
  remembered before a push whose result is ignored (:694): a change that finds
  the queue full is not sent later. Only the first region is tiled, while
  inference of the whole frame is skipped (:504).
- MQTT. After a failed first connection nobody drains the queue
  (MqttThread.cpp:36); once it is full each changed summary of that channel holds
  the one NPU worker for 100 ms.
- Publisher. The idle heartbeat (StreamThread.cpp:283) reads an error flag
  that only reads and writes set.
- Tracker. A detection within the reach of association that overlaps a shown box by
  less than `match_iou` resets the filters (SharedDetections.hpp:262) and takes the box
  to its place at once, however far, since the clamp of line 293 is skipped on a reset;
  the comment of line 292 (a single correction is limited, so that one large error does
  not pull the box off its object) and PROJECT_MEMORY.md:1078 (the displayed
  correction stays limited to 100 pixels) say otherwise. `DrawnIsConfirmed` leaves
  exactly these moves out: it shows that no box comes from beyond the reach.
  A waiting rival or jump is not reset by a missed frame, while
  PROJECT_MEMORY.md:1946 and :1077 speak of consecutive ones. With alignment the
  last snapshot is drawn however old it is, while PROJECT_MEMORY.md:1046 says
  100 ms. After a reconnect old tracks and snapshots stay until the
  timestamps have caught up.
- Tiling. Two boxes of a class side by side in one tile are joined: the overlap of
  a tile with itself is the tile, and its middle is taken for a cut
  (TilingTask.cpp:184; docs/4k/单路双路多路兼容开发计划.md:378 wants adjacent tiles
  only). `reliable_first` (:311) has cycles, so it is no order `std::sort` may be
  given. Both are ASSUMEs of `MCTiling`. A tile's box may disappear in a chain of
  passes without anything left at its place. Boxes of one class from joint
  regions that contain each other by 35 to 50 % may both stay. The cut to even
  pixels can leave the last two columns and rows of a region uncovered, and makes
  an empty tile of a region one pixel thin. After `select_exclusive_candidates` the
  replacement of a contained box (:370) and the choice across classes (:384) of `merge`
  find nothing to do, as the proofs of MergeOneFacts and ClassesFacts show.
- Sources and encoder. A pull source without decoder, or with an odd size, ends
  silently; failures to open a codec are retried without a pause. readme.md:117
  says the encoder's queue drops nothing, the push gives up after 100 ms. The
  DRM buffer that is drawn into may still be a reference of the decoder; its
  `dma_stride` is not used by the encoder.

## 6. Proofs

TLAPS checks these for every value of the constants under the named assumptions
of the modules (`SchedulerAssumption`, `QueueAssumption`, `StreamAssumption`,
`LifecycleAssumption`, `ReportsAssumption`, `TrackerAssumption`, `FrameFlowAssumption`,
`TilingAssumption`). Each module proves that its `IInv` holds initially, is kept by
every action (a lemma per action, or per group of actions that change the
same variables), and implies the properties. The same `IInv` was checked with
TLC before it was proved.

- `NpuSchedulerProofs`: `IInv` joins the properties with what makes them
  inductive: the worker's place determines `running`, `callbacks_in_flight` and
  the job; a registered completion belongs to the latest registration; a
  sleeping thread's reason to sleep still holds; the order has no duplicates.
  Theorems: TypeCorrect, OwnersOutliveJobs (OneJobOfALiveOwner), NoLostWakeup
  (NoSleeperIsForgotten, of the worker and of threads in `unregister_channel`),
  OrderConsistent, StopDrains (StopLeavesNothing).
  SchedulerImplementsService: every step of `NpuScheduler` is
  a step of `NpuService` or a stutter, from `IInv`. The delicate step is the end
  of `unregister_channel`, which may `Close` only since the channel is idle.
  StatisticsProved (StatisticsAddUp) needs no strengthening but the types of the
  counters: each action moves every frame from one term of the sums to another. That
  the totals cover the channels is counted in units, the set of pairs of a channel and
  a number up to its counter: an action adds as many units as it adds to the total.
  RoundRobinIsFair (NobodyOvertakesTwice, an action property) orders the channels
  by their distance from `next_round_robin_index_`, the turn: a channel served while
  another was ready has its turn after that one until the other has been served.
  The order of turns is kept by a registration (TurnAfterRegister) and by an
  unregistration (TurnAfterErase), with one exception the property has to make: when
  the channel erased stood before the index, the channel whose turn it was is passed
  over and goes to the back (`PassedOver`). With channels a, b, c served in this order,
  after a was served and unregistered, c comes next and b, whose turn it was, last.
- `BlockingQueueProofs`: the two wakeup invariants count: items plus what is on
  its way is at least what sleepers could take. The proof rests on lemmas
  about the cardinality of sets of threads. QueueLosesNoWakeup, Fifo and
  CloseIsFinal are the results. QueueImplementsBounded: the entry into a call, a
  wait, a wakeup and a late notification are stutters of `BoundedQueue`, and the
  step that changes the deque is one of its calls, whichever thread makes it.
- `StreamThreadProofs`: relates the phase to the connection, header and cached
  parameters, and the last output timestamp to the origin: ConnectionMatchesPhase,
  OneHeaderFirst. PublisherMakesSessions (ServerSeesSessions)
  uses all of them: a reconnect is a `Connect` only because the old session was
  closed before, a packet a `Write` only because the header is there and its time
  beyond the last one's. PacketsUseTheQueue (PacketsAreQueued).
- `ChannelLifecycleProofs`: the position in the plans determines which threads may
  live (`StartProgress`, `StopProgress`), a stopped pipeline is down
  (`StoppedIsDown`), and the worker serves only active channels, or the one being
  awaited (`NpuConsistent`). Without these, closing a queue could not be shown
  to come after its producers: QueuesCloseLast, ConsumersOutliveSource, NothingLeft.
  SchedulerIsUsedAsTheService (SchedulerIsTheService) is the refinement of
  `NpuService` by main, the inference threads and the worker. It needs `Registered`
  besides: a channel is registered only after its start and until its stop, so that
  registering opens a closed channel and the end of `unregister_channel` closes one
  that is not being served.
- `ReportsProofs`: EventsAreOfTheirSummary and TypeCorrect rest on `SummariesInv`:
  pending events and what was kept of the last inference belong to the same frame,
  also across skipped and failed ones. NothingRepeated: the signature that throttles
  the reports stands for the last summary handed to push, and that one is the last
  accepted unless a push timed out. SummariesUseTheQueue (SummariesAreQueued).
- `FrameFlowProofs`: PixelsAreKept (no pooled buffer is filled again or cached while
  a frame refers to it, and no picture in memory is drawn into; the DRM buffers,
  into which frames_draw shows that boxes are drawn, are excepted) rests on the pool being apart from the buffers
  in use, and `FreeingKeeps` on a step dropping one buffer at most. FreshestProved
  needs that the queue to inference ends with the frame last handed over.
  OrderProved cuts the line into six parts (packets, encoder, the frame at work,
  alignment, queue, source) that are sorted each and against each other; a new
  frame is later than all, because numbers grow and `RepairedPts` is beyond
  `last_media_pts_ms` within a connection. FlowTypeCorrect bounds the stages.
  FramesUseTheQueues (FramesAreQueued) is the refinement of `BoundedQueue` by each of
  the three queues, one lemma for each.
- `TilingProofs`: TilesAlwaysFit (every tile, of any region and grid, can be cut
  out), TilesCoverRegion (every pixel but the last two columns and rows is in a
  tile, neighbours share their overlap) and JointRegionShowsBoth (a joint region
  contains both boxes it is made of), by arithmetic on divisions. The invariant adds
  that boxes are typed, that regions fit (`Shape`), and that until the merge the boxes
  of the tiles are all that was found (`AllReported`). RectanglesAlwaysFit and
  BothAreLookedAtAgain then follow from the loop of `JointRegions`: the hull of two
  regions that fit does, and shows what each of them showed, so a turn never takes
  back what an earlier one has covered. OnePublishedPerPlace follows the candidates
  through suppression, choice, two sorts and two merges: each makes its list of
  elements of the list before (`From`), which cannot bring rivals, repetitions or
  overlaps back (`FromKeeps`), although both sorts are any rearrangement.
  NobodyLosesToALoser needs `MergeRatio >= 34`: then boxes whose IoU exceeds the
  threshold share half of the smaller one (`ThirdIsHalf`), so they are rivals, and the
  first choice has left no two of these. The configurations use 45 %. Below a
  third the merge may drop a box for one that is no rival of it, and TLC finds the
  property violated at 15 %; the other three hold for every threshold.

- `TrackerProofs`: `IndInv` says of every track what support it has (`Supported`: all
  around its place its class has been seen, at its place often enough once it has as
  many hits, and all around its waiting rival the rival's class), how old it
  may be for the time nothing was detected, that no two tracks are duplicates, and
  that in the list of snapshots those of a connection are together, the newest last.
  ObjectsAreDrawnOnce and the middle part rest on two things: `HalfIsNested`, geometry
  by which the relation of duplicates is symmetric (the areas may be equal, and then
  each of the two is taken for the smaller), and an induction over the turns of
  `Dropped`, by the well-foundedness of the natural numbers, that of any two
  duplicates one is gone at the end. OnlyConfirmedIsDrawn follows support through
  association, rivals, jumps and deduplication: what is associated with a track is
  akin to it (`AkinFacts`), so where the track goes its class had been seen around
  before, and is seen again now. Attempting it for `ConfirmHits`
  sightings failed for a reason: with `ConfirmHits` = 3 a rival that takes a confirmed
  track over has been seen twice only. The property says `Enough`, and this is what
  the code promises. LoneObjectsAreDrawn (LoneObjectIsShown) has an invariant of its
  own, `LoneInv`: an object that was seen alone has a track that shows it at its place,
  with as many hits as it has sightings, and every other track is `Far` from it. The
  step follows this through all of `update`: the own track is the only candidate, and
  takes the detection; a filter that moves a box between two boxes that are equal does
  not move it; rivals, jumps and new tracks of other detections stay `Far`; and
  neither deduplication can find a duplicate of it, since duplicates are candidates.
  GhostsDisappear needs that ages are bounded below by the time
  since the connection started.

What a loop computes is proved where the loop is written as a recursive function over
its turns, or as a part of a list (`Sublist`), by the well-foundedness of the natural
numbers. Operators that take operators (`SelectSeq`, `FoldLeft`) cannot be expanded by
the provers. Lemmas about lists and about `Boxes` that several modules need are stated
in each of them.

The refinements make one argument of the modules. `BlockingQueue` implements
`BoundedQueue`, and what the publisher, the reports and the frames do to their queues
is allowed by it; `NpuScheduler` implements `NpuService`, and main and its threads use
it so. That a mapped action is allowed says what a component does to an interface; that
the interface then answers (a pop returns, a mailbox is served) is liveness.

Every invariant, every step property and every refinement that a passing run checks is
stated by a theorem. Model-checked only are the liveness properties, since fairness and
ENABLED are beyond the prover: ClosingCallsReturn, EveryMailboxServed, CallsReturn,
StopEnds, ReconnectsOnceServerIsBack, ShutdownEnds, SettledSceneIsAttempted,
StayIsReported, EncoderCatchesUp. The three violations are counterexamples and have
nothing to prove.

## 7. What is not modelled

- Pixel work (decoding, resizing, cropping with the RGA, drawing, thumbnails), the
  numbers of YOLO post-processing (its suppression of overlapping boxes is
  the greedy choice `Tiling` has for others), RKNN, MPP, V4L2, Paho and FFmpeg
  beyond the outcomes the code distinguishes; logging and metrics lines.
- The configuration: reading, merging over defaults and validating happen before
  any thread runs. What validation guarantees is what the ASSUMEs demand.
- `Reports` keeps one class and one region, where classes and regions do not
  interact but in the signature. Tracks of `RoiFilter` never expire
  (RoiFilter.cpp:22), so dwell may count absence: no document says what it should
  count, and no property does. The highest score of a summary is that of the scene also
  where the filter drops objects: no property depends on which one it is.
- `Tracker`: `display_mode` 0, which passes detections through; the number of
  sightings a jump needs is two, as configured; motion compensation and the
  numbers of the filters; the thresholds of `Boxes` are the defaults.
- `FrameFlow`: the frame in a scheduler's mailbox (one more holder of a buffer),
  closing of the queues (in `BlockingQueue` and `ChannelLifecycle`), pacing by
  `frame_step` (a frame that is not used). Giving up a DRM frame that cannot be mapped
  (EncodeThread.cpp:543, :555) is the same as its `Put` failing, one step later. What
  MPP itself keeps of a DRM buffer while it encodes is not counted as held; DRM buffers
  are excepted from what is claimed of buffers anyway.
- `NpuScheduler`: a frame without timestamp never gets stale in the code
  (`timestamp_ms > 0`, NpuInferenceScheduler.cpp:205); sources always set one.
  `NpuSchedulerStats` leaves out spurious wakeups and channels without completion,
  which count nothing.
- `StreamThread`: a packet of parameter sets alone (StreamThread.cpp:212), which the
  encoder does not produce.
- `Tracker`: two identical detections in one frame, which the merges before it unite;
  what the distance takes off a score above `ScoreSlack`, which needs pairs farther
  apart than 1.6 times the reach, found in none of the pairings of the run.
- `set_executor` is done before `start`, as main does; exceptions thrown by
  the allocator are not considered.
