------------------------------- MODULE FrameFlow ------------------------------
(***************************************************************************)
(* The frames of a channel, from the source to the encoded packets: the    *)
(* loops of PullStreamThread and CaptureThread, the queues to the encoder  *)
(* and to inference, the loop of EncodeThread, the frames that inference   *)
(* reads, and the pool that lends the pixel buffers (FrameBufferPool).     *)
(*                                                                         *)
(* A frame refers to a buffer and is copied without its pixels.  What the  *)
(* buffer holds is the frame it was filled for, and whether boxes have     *)
(* been drawn into it.  Waiting and closing of the queues is in            *)
(* BlockingQueue, starting and stopping in ChannelLifecycle.               *)
(*                                                                         *)
(* Definitions marked (fault) are plausible mistakes, not specification.   *)
(***************************************************************************)
EXTENDS Integers, Sequences, FiniteSets, SequencesExt

CONSTANTS
  Buffers,      \* bound: pixel buffers that may exist at a time
  MaxCached,    \* buffers the pool keeps
  QueueSize,    \* capacity of enc_queue and of infer_queue
  OutSize,      \* capacity of the queue of encoded packets
  Delay,        \* detection_alignment_delay_frames
  Step,         \* fallback_step_ms
  MediaTimes,   \* timestamps a decoder may report, relative to the first one
  MaxFrames,    \* bound: frames of the source
  MaxConns      \* bound: connections of a pull source

NoTime == -1

ASSUME FrameFlowAssumption ==
  /\ MaxCached \in Nat
  /\ QueueSize \in Nat \ {0} /\ OutSize \in Nat \ {0}
  /\ Delay \in Nat /\ Step \in Nat \ {0}
  /\ MediaTimes \subseteq Nat
  /\ MaxFrames \in Nat \ {0} /\ MaxConns \in Nat \ {0}

VARIABLES
  source,       \* configuration: camera, decoder (NV12 in memory), drm
  phase,        \* of the source: connecting, reading, first, second, ended
  conn,         \* history: connections so far
  nextId,       \* next_frame_id
  hasOrigin,    \* whether source_pts_origin_ms is set
  lastPts,      \* last_media_pts_ms
  hand,         \* frame_obj, the frame the source delivers
  encQueue, inferQueue,
  align,        \* alignment_frames
  step,         \* of the encoder: idle, draw, put, get
  coding,       \* the frame the encoder works on
  inside,       \* frames the hardware encoder has taken, without a packet yet
  ready,        \* packets it will give now
  outQueue,
  infer,        \* the frames the inference thread holds: none or one
  pool,         \* free_
  pixels,       \* of every buffer: the frame it was filled for, and drawn
  handed        \* history: the frame last given to infer_queue

sourceVars == <<source, phase, conn, nextId, hasOrigin, lastPts, hand>>
encoderVars == <<align, step, coding, inside, ready, outQueue>>
bufferVars == <<pool, pixels>>
vars == <<sourceVars, encQueue, inferQueue, encoderVars, infer, bufferVars, handed>>

NoFrame == [id |-> 0, conn |-> 0, pts |-> NoTime, buf |-> 0]

Init ==
  /\ source \in {"camera", "decoder", "drm"}
  /\ phase = IF source = "camera" THEN "reading" ELSE "connecting"
  /\ conn = 0
  /\ nextId = 1
  /\ hasOrigin = FALSE
  /\ lastPts = NoTime
  /\ hand = <<>>
  /\ encQueue = <<>> /\ inferQueue = <<>>
  /\ align = <<>> /\ step = "idle" /\ coding = <<>>
  /\ inside = <<>> /\ ready = 0 /\ outQueue = <<>>
  /\ infer = <<>>
  /\ pool = <<>>
  /\ pixels = [b \in Buffers |-> [of |-> 0, drawn |-> FALSE]]
  /\ handed = 0

-------------------------------------------------------------------------------
\* Buffers.

\* The frames that someone refers to, and their buffers.
Frames == UNION {Range(q) : q \in {hand, encQueue, align, coding, inferQueue, infer}}

\* (fault) The buffer comes back when the encoder is done with its frame.
HeldByEncoder ==
  {f.buf : f \in UNION {Range(q) : q \in {hand, encQueue, align, coding}}}

Held == {f.buf : f \in Frames}

\* Neither in use nor cached: what a new buffer may be.
Spare == Buffers \ (Held \cup Range(pool))

\* FrameBufferPool::acquire takes the buffer cached last, or else a new one, whose
\* name does not matter.  The buffers of DRM frames come from outside the pool.
Cached == source # "drm" /\ pool # <<>>
Acquired == IF Cached THEN Last(pool) ELSE CHOOSE b \in Spare : TRUE

\* (fault) FrameBufferPool without a limit.
Unlimited(freed) == IF freed = {} THEN pool ELSE Append(pool, CHOOSE b \in freed : TRUE)

\* FrameBufferPool::release, when the last frame that refers to a buffer goes
\* (no step drops more than one): cached, or deleted when the pool is full.
Returned(freed) ==
  IF freed = {} \/ source = "drm" \/ Len(pool) >= MaxCached THEN pool
  ELSE Append(pool, CHOOSE b \in freed : TRUE)

\* What becomes of the pool in a step that acquires nothing.
Recycle == pool' = Returned(Held \ Held')

-------------------------------------------------------------------------------
\* The source.

\* The stream is opened and a decoder found.
Connect ==
  /\ phase = "connecting" /\ conn < MaxConns
  /\ phase' = "reading"
  /\ conn' = conn + 1
  /\ hasOrigin' = FALSE
  /\ lastPts' = NoTime
  /\ UNCHANGED <<source, nextId, hand, encQueue, inferQueue, encoderVars, infer,
                 bufferVars, handed>>

\* No hardware decoder, or a size that NV12 cannot have: the thread ends.
GiveUp ==
  /\ phase = "connecting"
  /\ phase' = "ended"
  /\ UNCHANGED <<source, conn, nextId, hasOrigin, lastPts, hand, encQueue,
                 inferQueue, encoderVars, infer, bufferVars, handed>>

\* Reading or decoding fails: a pull source connects again; a camera ends only
\* when its buffer cannot be given back or select fails.
ReadFails ==
  /\ phase = "reading"
  /\ phase' = IF source = "camera" THEN "ended" ELSE "connecting"
  /\ UNCHANGED <<source, conn, nextId, hasOrigin, lastPts, hand, encQueue,
                 inferQueue, encoderVars, infer, bufferVars, handed>>

\* (fault) The timestamps of the decoder as they are.
UnrepairedPts(media) == IF media = NoTime THEN 0 ELSE IF hasOrigin THEN media ELSE 0

\* The time of a frame: the media time from the first on; where it is missing or
\* not later than the last, a frame's duration after that.
RepairedPts(media) ==
  LET relative == IF media = NoTime THEN NoTime ELSE IF hasOrigin THEN media ELSE 0
  IN IF relative = NoTime \/ (lastPts # NoTime /\ relative <= lastPts)
     THEN IF lastPts = NoTime THEN 0 ELSE lastPts + Step
     ELSE relative

\* The camera stamps frames with its own steady clock.
Stamped(media) == IF source = "camera" THEN lastPts + Step ELSE RepairedPts(media)

\* A frame is decoded and put into a buffer; or it cannot be (a format or a
\* descriptor that is not supported), which leaves its number and time taken.
Decode(media) ==
  /\ phase = "reading" /\ nextId <= MaxFrames
  /\ hasOrigin' = (hasOrigin \/ media # NoTime)
  /\ nextId' = nextId + 1
  /\ lastPts' = Stamped(media)
  /\ \/ /\ Cached \/ Spare # {}
        /\ hand' = <<[id |-> nextId, conn |-> conn, pts |-> lastPts', buf |-> Acquired]>>
        /\ pixels' = [pixels EXCEPT ![Acquired] = [of |-> nextId, drawn |-> FALSE]]
        /\ pool' = IF Cached THEN Front(pool) ELSE pool
        /\ phase' = "first"
     \/ /\ source # "camera"
        /\ UNCHANGED <<phase, hand, pool, pixels>>
  /\ UNCHANGED <<source, conn, encQueue, inferQueue, encoderVars, infer, handed>>

\* The pull source serves the encoder first, the camera inference.
Turn(queue) ==
  phase = IF (queue = "enc") = (source = "camera") THEN "second" ELSE "first"

\* After the second delivery the source lets go of its frame.
Delivered ==
  IF phase = "first" THEN phase' = "second" /\ UNCHANGED hand
  ELSE phase' = "reading" /\ hand' = <<>>

\* enc_queue_.push(frame, 100): the frame, or after 100 ms without space nothing.
ToEncoder ==
  /\ Turn("enc")
  /\ Delivered
  /\ \/ Len(encQueue) < QueueSize /\ encQueue' = Append(encQueue, hand[1])
     \/ Len(encQueue) = QueueSize /\ UNCHANGED encQueue
  /\ UNCHANGED <<source, conn, nextId, hasOrigin, lastPts, inferQueue,
                 encoderVars, infer, pixels, handed>>
  /\ Recycle

\* (fault) A full queue keeps its old frame.
KeepOldest(queue, f) == IF Len(queue) < QueueSize THEN Append(queue, f) ELSE queue

\* push_latest: a full queue gives up its oldest frame.
PushLatest(queue, f) ==
  Append(IF Len(queue) < QueueSize THEN queue ELSE Tail(queue), f)

ToInference ==
  /\ Turn("infer")
  /\ Delivered
  /\ inferQueue' = PushLatest(inferQueue, hand[1])
  /\ handed' = hand[1].id
  /\ UNCHANGED <<source, conn, nextId, hasOrigin, lastPts, encQueue,
                 encoderVars, infer, pixels>>
  /\ Recycle

-------------------------------------------------------------------------------
\* The encoder.

\* A frame leaves enc_queue for alignment_frames; with more than Delay of them
\* the oldest is encoded.
TakeFrame ==
  /\ step = "idle" /\ encQueue # <<>>
  /\ encQueue' = Tail(encQueue)
  /\ LET frames == Append(align, encQueue[1]) IN
       IF Len(frames) <= Delay
       THEN align' = frames /\ UNCHANGED <<step, coding>>
       ELSE align' = Tail(frames) /\ coding' = <<frames[1]>> /\ step' = "draw"
  /\ UNCHANGED <<sourceVars, inferQueue, inside, ready, outQueue, infer,
                 pixels, handed>>
  /\ Recycle

\* The boxes of the frame are drawn: into the buffer of a DRM frame, else into a
\* copy the encoder owns.  Without a buffer the frame is given up.
Draw ==
  /\ step = "draw"
  /\ \/ /\ \E boxes \in BOOLEAN :
            pixels' = IF source = "drm" /\ boxes
                      THEN [pixels EXCEPT ![coding[1].buf].drawn = TRUE] ELSE pixels
       /\ step' = "put"
       /\ UNCHANGED coding
     \/ /\ source # "drm"
        /\ coding' = <<>> /\ step' = "idle"
        /\ UNCHANGED pixels
  /\ UNCHANGED <<sourceVars, encQueue, inferQueue, align, inside, ready,
                 outQueue, infer, handed>>
  /\ Recycle

\* encode_put_frame, which may fail.  The encoder then has some packets ready.
Put ==
  /\ step = "put"
  /\ \/ /\ inside' = Append(inside, coding[1])
        /\ ready' \in 0 .. Len(inside')
        /\ step' = "get"
        /\ UNCHANGED coding
     \/ /\ coding' = <<>> /\ step' = "idle"
        /\ UNCHANGED <<inside, ready>>
  /\ UNCHANGED <<sourceVars, encQueue, inferQueue, align, outQueue, infer,
                 pixels, handed>>
  /\ Recycle

\* (fault) The encoder waits for space in the queue of packets.
GetPacketWaiting ==
  /\ step = "get" /\ ready > 0 /\ Len(outQueue) < OutSize
  /\ inside' = Tail(inside)
  /\ ready' = ready - 1
  /\ outQueue' = Append(outQueue, inside[1])
  /\ UNCHANGED <<sourceVars, encQueue, inferQueue, align, step, coding, infer,
                 pixels, handed>>
  /\ Recycle

\* encode_get_packet: a packet that is pushed without waiting, or an empty one.
GetPacket ==
  /\ step = "get" /\ ready > 0
  /\ inside' = Tail(inside)
  /\ ready' = ready - 1
  /\ outQueue' \in {outQueue} \cup
       {q \in {Append(outQueue, inside[1])} : Len(outQueue) < OutSize}
  /\ UNCHANGED <<sourceVars, encQueue, inferQueue, align, step, coding, infer,
                 pixels, handed>>
  /\ Recycle

\* No packet is left: the frame is let go of.
Encoded ==
  /\ step = "get" /\ ready = 0
  /\ coding' = <<>> /\ step' = "idle"
  /\ UNCHANGED <<sourceVars, encQueue, inferQueue, align, inside, ready,
                 outQueue, infer, pixels, handed>>
  /\ Recycle

Encoder == TakeFrame \/ Draw \/ Put \/ GetPacket \/ Encoded

\* StreamThread takes a packet.
Stream ==
  /\ outQueue # <<>>
  /\ outQueue' = Tail(outQueue)
  /\ UNCHANGED <<sourceVars, encQueue, inferQueue, align, step, coding, inside,
                 ready, infer, pixels, handed>>
  /\ Recycle

-------------------------------------------------------------------------------
\* Inference.

\* The first pop takes a frame; further pops replace it while there are any.
InferTakes ==
  /\ inferQueue # <<>>
  /\ infer' = <<inferQueue[1]>>
  /\ inferQueue' = Tail(inferQueue)
  /\ UNCHANGED <<sourceVars, encQueue, encoderVars, pixels, handed>>
  /\ Recycle

\* The frame was read (with a scheduler: the job is done) and is let go of.
InferDone ==
  /\ infer # <<>>
  /\ infer' = <<>>
  /\ UNCHANGED <<sourceVars, encQueue, inferQueue, encoderVars, pixels, handed>>
  /\ Recycle

-------------------------------------------------------------------------------
Source ==
  \/ Connect \/ ReadFails \/ ToEncoder \/ ToInference
  \/ \E media \in MediaTimes \cup {NoTime} : Decode(media)

Next == Source \/ GiveUp \/ Encoder \/ Stream \/ InferTakes \/ InferDone

\* The encoder's loop and a delivery in progress go on; nothing is assumed of
\* the network, the camera, inference or the reader of the packets.
Spec == Init /\ [][Next]_vars /\ WF_vars(Encoder) /\ WF_vars(ToEncoder)

-------------------------------------------------------------------------------
\* Properties.

\* The stages hold what their loops allow, and the pool no more than it caches.
TypeOK ==
  /\ Len(encQueue) <= QueueSize /\ Len(inferQueue) <= QueueSize
  /\ Len(outQueue) <= OutSize /\ Len(align) <= Delay
  /\ Len(pool) <= MaxCached /\ IsInjective(pool)
  /\ Len(coding) = (IF step = "idle" THEN 0 ELSE 1)
  /\ Len(hand) = (IF phase \in {"first", "second"} THEN 1 ELSE 0)
  /\ ready <= Len(inside)

\* A frame's buffer holds that frame's pixels as long as anyone refers to it: it
\* is neither filled again nor waiting in the pool meanwhile, and no boxes are
\* drawn into memory that the decoder's frames share with inference.
FramesKeepTheirPixels ==
  /\ \A f \in Frames :
       /\ pixels[f.buf].of = f.id
       /\ source # "drm" => ~pixels[f.buf].drawn
  /\ Held \cap Range(pool) = {}

\* Frames stay in order from the source to the packets, across drops, repaired
\* timestamps and reconnections: numbers grow, and times within a connection.
FramesInOrder ==
  LET coded == IF step = "get" THEN <<>> ELSE coding
      atSource == IF Turn("enc") \/ phase = "first" THEN hand ELSE <<>>
      line == outQueue \o inside \o coded \o align \o encQueue \o atSource
  IN \A i, j \in DOMAIN line : i < j =>
       /\ line[i].id < line[j].id
       /\ line[i].conn = line[j].conn => line[i].pts < line[j].pts

\* What inference takes is the newest frame it was given when it stops popping:
\* there is none in the queue that is newer than the last one handed over.
FreshestIsInferred ==
  [][infer' # infer /\ infer' # <<>> /\ inferQueue' = <<>> => infer'[1].id = handed]_vars

\* Whatever the reader of the packets and inference do, the encoder gets through
\* its queue and keeps no more than the frames of the alignment.
EncoderCatchesUp == <>[](encQueue = <<>> /\ step = "idle" /\ ~Turn("enc"))

\* Frame.hpp: "once the producer has filled it, consumers only read the data".
InferenceSeesNoBoxes == \A i \in DOMAIN infer : ~pixels[infer[i].buf].drawn

\* The three queues are the one that BlockingQueue implements: to the encoder
\* and from it frames and packets are lost only before they are accepted, to
\* inference a frame may be replaced by a newer one.
EncoderQueue == INSTANCE BoundedQueue WITH
  Capacity <- QueueSize, Lossy <- FALSE, items <- encQueue, closed <- FALSE
InferenceQueue == INSTANCE BoundedQueue WITH
  Capacity <- QueueSize, Lossy <- TRUE, items <- inferQueue, closed <- FALSE
PacketQueue == INSTANCE BoundedQueue WITH
  Capacity <- OutSize, Lossy <- FALSE, items <- outQueue, closed <- FALSE

FramesAreQueued == EncoderQueue!Spec /\ InferenceQueue!Spec /\ PacketQueue!Spec
===============================================================================
