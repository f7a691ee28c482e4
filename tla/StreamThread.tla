---------------------------- MODULE StreamThread ----------------------------
(***************************************************************************)
(* The RTMP publisher of a channel (src/stream/StreamThread.cpp): packets  *)
(* from the stream queue, the connection and its single FLV header, output *)
(* timestamps, the reconnect loop and the heartbeat.                       *)
(*                                                                         *)
(* Everything but running_ belongs to the stream thread, so one iteration  *)
(* of its loop is one action.  FFmpeg is external: a header or a packet    *)
(* may be refused at any time, writes to a dead connection may still       *)
(* succeed (they end in a socket buffer), and pb->error is what the last   *)
(* input or output operation left there.  The MPP encoder is external too: *)
(* only its first key frame carries SPS and PPS, and every packet carries  *)
(* a picture (one without would be dropped once the header is written).    *)
(*                                                                         *)
(* Definitions marked (fault) are plausible mistakes, not specification.   *)
(***************************************************************************)
EXTENDS Integers, Sequences

CONSTANTS
  QueueSize,    \* capacity of stream_queue
  Step,         \* max(1, 1000 / cfg_.fps)
  MaxPts,       \* bound: source timestamps are 0 .. MaxPts
  MaxPackets    \* bound: packets the encoder produces

ASSUME StreamAssumption ==
  /\ QueueSize \in Nat \ {0}
  /\ Step \in Nat \ {0}
  /\ MaxPts \in Nat
  /\ MaxPackets \in Nat

VARIABLES
  sink,          \* cfg_.sink: publish, or only count (metrics)
  running,       \* running_
  pc,            \* the thread: off, run, reconnect, drain
  stopping,      \* stop() waits in join
  inQueue,       \* in_queue_
  produced,      \* packets the encoder has produced
  open,          \* fmt_ctx_ is not null
  alive,         \* the peer still holds the connection
  ioError,       \* fmt_ctx_->pb->error < 0
  extradata,     \* extradata_set_
  header,        \* header_written_
  params,        \* sps_ and pps_ are cached
  origin,        \* stream_pts_origin_ms_
  lastPts,       \* last_stream_pts_ms_
  serverUp,      \* whether the server accepts connections
  headers,       \* history: headers written to this connection
  sent           \* history: packets written to this connection

conn == <<open, alive, ioError, extradata, header, origin, lastPts, headers, sent>>
vars == <<sink, running, pc, stopping, inQueue, produced, conn, params, serverUp>>

Closed ==
  /\ open' = FALSE
  /\ alive' = FALSE
  /\ ioError' = FALSE
  /\ extradata' = FALSE
  /\ header' = FALSE
  /\ origin' = -1
  /\ lastPts' = -1
  /\ headers' = 0
  /\ sent' = 0

Init ==
  /\ sink \in {"rtmp", "metrics"}
  /\ running = FALSE
  /\ pc = "off"
  /\ stopping = FALSE
  /\ inQueue = <<>>
  /\ produced = 0
  /\ open = FALSE
  /\ alive = FALSE
  /\ ioError = FALSE
  /\ extradata = FALSE
  /\ header = FALSE
  /\ params = FALSE
  /\ origin = -1
  /\ lastPts = -1
  /\ serverUp = TRUE
  /\ headers = 0
  /\ sent = 0

-----------------------------------------------------------------------------
(* The encoder, the peer and the pipeline.                                 *)

\* EncodeThread pushes without waiting, so a full queue loses the packet.
\* The pipeline encodes only once the publisher has been started.
Encode(key, pts) ==
  /\ pc # "off"
  /\ produced < MaxPackets
  /\ produced = 0 => key
  /\ produced' = produced + 1
  /\ inQueue' = IF Len(inQueue) < QueueSize
                  THEN Append(inQueue, [key |-> key, params |-> produced = 0, pts |-> pts])
                  ELSE inQueue
  /\ UNCHANGED <<sink, running, pc, stopping, conn, params, serverUp>>

\* The server goes down or comes back; it or the network drops a connection.
ServerToggles ==
  /\ serverUp' = ~serverUp
  /\ UNCHANGED <<sink, running, pc, stopping, inQueue, produced, conn, params>>

PeerDrops ==
  /\ alive
  /\ alive' = FALSE
  /\ UNCHANGED <<sink, running, pc, stopping, inQueue, produced, open, ioError, extradata,
                 header, origin, lastPts, headers, sent, params, serverUp>>

\* start: the first connection is made before the thread exists; a failure
\* throws and leaves everything as it was.
Start ==
  /\ pc = "off"
  /\ ~running
  /\ ~stopping
  /\ produced = 0
  /\ sink = "rtmp" => serverUp
  /\ running' = TRUE
  /\ pc' = "run"
  /\ open' = (sink = "rtmp")
  /\ alive' = (sink = "rtmp")
  /\ UNCHANGED <<sink, stopping, inQueue, produced, ioError, extradata, header, origin,
                 lastPts, headers, sent, params, serverUp>>

StopRequest ==
  /\ running
  /\ running' = FALSE
  /\ stopping' = TRUE
  /\ UNCHANGED <<sink, pc, inQueue, produced, conn, params, serverUp>>

\* stop, after join: close_rtmp.
StopJoin ==
  /\ stopping
  /\ pc = "off"
  /\ stopping' = FALSE
  /\ Closed
  /\ UNCHANGED <<sink, running, pc, inQueue, produced, params, serverUp>>

-----------------------------------------------------------------------------
(* The stream thread.                                                      *)

Exit ==
  /\ pc = "run"
  /\ ~running
  /\ pc' = "off"
  /\ UNCHANGED <<sink, running, stopping, inQueue, produced, conn, params, serverUp>>

\* write_packet: the relative timestamp, and the one written to the stream.
Relative(p) == LET o == IF origin < 0 THEN p.pts ELSE origin
               IN  IF p.pts > o THEN p.pts - o ELSE 0

OutputPts(p) ==
  IF lastPts >= 0 /\ Relative(p) <= lastPts THEN lastPts + Step ELSE Relative(p)

\* write_packet when write_extradata is due: SPS and PPS are known for the
\* first time on this connection.
\* (fault) the header is due at every key frame
DueAtEveryKey(p) == p.key /\ (params \/ p.params)
HeaderDue(p) == ~extradata /\ p.key /\ (params \/ p.params)

Fail ==
  /\ pc' = "reconnect"
  /\ Closed

\* The rest of write_packet, with the header written: timestamp and frame.
WriteFrame(p) ==
  \/ /\ origin' = IF origin < 0 THEN p.pts ELSE origin
     /\ lastPts' = OutputPts(p)
     /\ sent' = sent + 1
     /\ UNCHANGED <<pc, open, alive, ioError>>
     /\ extradata' = TRUE
     /\ header' = TRUE
     /\ headers' = IF HeaderDue(p) THEN headers + 1 ELSE headers
  \/ Fail

\* run with a packet: write it, or drop it while there is no header.
Consume ==
  /\ pc = "run"
  /\ running
  /\ inQueue # <<>>
  /\ inQueue' = Tail(inQueue)
  /\ LET p == Head(inQueue) IN
     IF sink = "metrics"
       THEN UNCHANGED <<pc, conn, params>>
       ELSE /\ params' = (params \/ (~extradata /\ p.key /\ p.params))
            /\ \/ (header \/ HeaderDue(p)) /\ WriteFrame(p)
               \/ ~header /\ ~HeaderDue(p) /\ UNCHANGED <<pc, conn>>
  /\ UNCHANGED <<sink, running, stopping, produced, serverUp>>

\* run without a packet: after five seconds, look at pb->error.
Idle ==
  /\ pc = "run"
  /\ running
  /\ inQueue = <<>>
  /\ IF header /\ ioError THEN Fail ELSE UNCHANGED <<pc, conn>>
  /\ UNCHANGED <<sink, running, stopping, inQueue, produced, params, serverUp>>

\* (fault) after a reconnect the header waits for the next SPS and PPS
ReopenWaitsForKey ==
  /\ pc = "reconnect"
  /\ running
  /\ serverUp
  /\ pc' = "run"
  /\ open' = TRUE
  /\ alive' = TRUE
  /\ UNCHANGED <<sink, running, stopping, inQueue, produced, ioError, extradata, header,
                 origin, lastPts, headers, sent, params, serverUp>>
\* reconnect_loop: open_rtmp succeeds; with cached SPS and PPS the header is
\* written at once, and the result of that is not looked at.
Reopen ==
  /\ pc = "reconnect"
  /\ running
  /\ serverUp
  /\ pc' = "run"
  /\ open' = TRUE
  /\ alive' = TRUE
  /\ extradata' = params
  /\ \E written \in (IF params THEN BOOLEAN ELSE {FALSE}) :
       /\ header' = written
       /\ headers' = IF written THEN 1 ELSE 0
       /\ ioError' = (params /\ ~written)
  /\ UNCHANGED <<sink, running, stopping, inQueue, produced, origin, lastPts, sent, params,
                 serverUp>>

Refused ==
  /\ pc = "reconnect"
  /\ running
  /\ ~serverUp
  /\ pc' = "drain"
  /\ UNCHANGED <<sink, running, stopping, inQueue, produced, conn, params, serverUp>>

\* reconnect_loop between two attempts: discard packets for three seconds.
Drain ==
  /\ pc = "drain"
  /\ running
  /\ inQueue # <<>>
  /\ inQueue' = Tail(inQueue)
  /\ UNCHANGED <<sink, running, pc, stopping, produced, conn, params, serverUp>>

\* ... until they are over or a stop is requested.
Retry ==
  /\ pc = "drain"
  /\ pc' = "reconnect"
  /\ UNCHANGED <<sink, running, stopping, inQueue, produced, conn, params, serverUp>>

\* reconnect_loop returns without a connection once a stop was requested.
\* (fault) a stop is noticed only while the server is up
LeaveLoopWhenUp ==
  /\ pc = "reconnect"
  /\ ~running
  /\ serverUp
  /\ pc' = "run"
  /\ UNCHANGED <<sink, running, stopping, inQueue, produced, conn, params, serverUp>>
LeaveLoop ==
  /\ pc = "reconnect"
  /\ ~running
  /\ pc' = "run"
  /\ UNCHANGED <<sink, running, stopping, inQueue, produced, conn, params, serverUp>>

ThreadStep == Exit \/ Consume \/ Idle \/ Reopen \/ Refused \/ Drain \/ Retry \/ LeaveLoop

Next ==
  \/ \E key \in BOOLEAN, pts \in 0 .. MaxPts : Encode(key, pts)
  \/ ServerToggles \/ PeerDrops
  \/ Start \/ StopRequest \/ StopJoin
  \/ ThreadStep

Spec == Init /\ [][Next]_vars

\* The thread runs, its pause between two attempts ends, join returns.
FairSpec == Spec /\ WF_vars(ThreadStep) /\ WF_vars(Retry) /\ WF_vars(StopJoin)

-----------------------------------------------------------------------------
(* Properties.                                                             *)

TypeOK ==
  /\ sink \in {"rtmp", "metrics"}
  /\ pc \in {"off", "run", "reconnect", "drain"}
  /\ inQueue \in Seq([key : BOOLEAN, params : BOOLEAN, pts : 0 .. MaxPts])
  /\ Len(inQueue) <= QueueSize
  /\ produced \in 0 .. MaxPackets
  /\ running \in BOOLEAN /\ stopping \in BOOLEAN /\ open \in BOOLEAN
  /\ alive \in BOOLEAN /\ ioError \in BOOLEAN /\ serverUp \in BOOLEAN
  /\ extradata \in BOOLEAN /\ header \in BOOLEAN /\ params \in BOOLEAN
  /\ origin \in -1 .. MaxPts
  /\ lastPts \in Int /\ lastPts >= -1
  /\ headers \in 0 .. 1
  /\ sent \in Nat

\* Whenever the thread may write to the connection or look at its error flag
\* there is one (fmt_ctx_ is not null), a connection is never reopened over
\* one that was not closed, and stop leaves none behind.
ContextMatchesPhase ==
  /\ pc = "run" /\ running => (open <=> sink = "rtmp")
  /\ pc \in {"reconnect", "drain"} => ~open
  /\ pc = "off" /\ ~running /\ ~stopping => ~open
  /\ header => open /\ extradata

\* An FLV stream starts with exactly one header, before its first packet.
HeaderOnceAndFirst ==
  /\ headers = (IF header THEN 1 ELSE 0)
  /\ sent > 0 => headers = 1

\* stop() returns, whether the server answers or not.
StopEnds == stopping ~> ~stopping

\* The header was due and refused, and nobody will try it again: the mute
\* connection that NeverMute is about.
HeaderRefused == open /\ extradata /\ ~header

\* A publisher that lost its connection has the header on a new one, and may
\* send again, once the server stays up and unless it is stopped; it needs no
\* further key frame for that (BUGS.md, BUG-008, third cause).  Excepted are
\* the behaviours in which the server ever refuses the header of a reconnect.
ReconnectsOnceServerIsBack ==
  <>[]serverUp /\ []~HeaderRefused
    => (pc \in {"reconnect", "drain"} ~> header \/ ~running)

\* BUGS.md:520 on BUG-008: after a reconnect the header is written at once
\* from the cached SPS and PPS, so that a connected publisher that knows them
\* is never one that drops every packet for want of a header.
NeverMute == pc = "run" /\ running /\ params => header

\* The packets come through the queue that BlockingQueue implements.
StreamQueue == INSTANCE BoundedQueue WITH
  Capacity <- QueueSize, Lossy <- FALSE, items <- inQueue, closed <- FALSE

PacketsAreQueued == StreamQueue!Spec

\* What the server sees of all this are sessions with one header each, whose
\* packets have growing times: nothing of an old connection reaches a new one.
Server == INSTANCE RtmpSession WITH
  up <- open, headers <- headers, packets <- sent, time <- lastPts

ServerSeesSessions == Server!Spec
=============================================================================
