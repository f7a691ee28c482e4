------------------------- MODULE StreamThreadProofs -------------------------
(***************************************************************************)
(* The publisher never touches a connection it does not have, writes one   *)
(* header per connection before anything else, and strictly increasing     *)
(* timestamps, for any queue size, frame step and source timestamps.       *)
(***************************************************************************)
EXTENDS StreamThread, TLAPS

\* A closed connection has no trace left in the members, which is what lets
\* the next one start from scratch; a stop is requested once and stays.
Fresh == extradata = FALSE /\ header = FALSE /\ origin = -1 /\ lastPts = -1 /\ headers = 0 /\ sent = 0

IInv ==
  /\ TypeOK
  /\ ContextMatchesPhase
  /\ HeaderOnceAndFirst
  /\ ~open => Fresh
  /\ pc = "off" => ~running
  /\ stopping => ~running
  /\ pc # "off" /\ ~running => stopping
  /\ extradata \/ pc \in {"reconnect", "drain"} => sink = "rtmp"

\* The first packet of a queue and those behind it.
LEMMA FirstAndRest ==
  ASSUME NEW S, NEW q \in Seq(S), q # <<>>
  PROVE  Head(q) \in S /\ Tail(q) \in Seq(S) /\ Len(Tail(q)) = Len(q) - 1
OBVIOUS

Packet == [key : BOOLEAN, params : BOOLEAN, pts : 0 .. MaxPts]

\* The packet taken is well typed, and so is the queue it leaves behind.
LEMMA HeadTyped ==
  ASSUME TypeOK, inQueue # <<>>
  PROVE  /\ Head(inQueue) \in Packet
         /\ Tail(inQueue) \in Seq(Packet)
         /\ Len(Tail(inQueue)) <= QueueSize
<1>1. inQueue \in Seq(Packet) /\ Len(inQueue) <= QueueSize /\ QueueSize \in Nat
  BY StreamAssumption DEF TypeOK, Packet
<1>2. Len(Tail(inQueue)) = Len(inQueue) - 1 /\ Len(inQueue) \in Nat
  BY <1>1, FirstAndRest
<1>3. QED
  BY <1>1, <1>2, FirstAndRest

\* The timestamp written is a natural number, above the one written before.
LEMMA OutputPtsIncreases ==
  ASSUME TypeOK, NEW p \in Packet
  PROVE  OutputPts(p) \in Nat /\ OutputPts(p) > lastPts
<1>1. /\ p.pts \in 0 .. MaxPts /\ origin \in -1 .. MaxPts
      /\ lastPts \in Int /\ lastPts >= -1
      /\ MaxPts \in Nat /\ Step \in Nat \ {0}
  BY StreamAssumption DEF TypeOK, Packet
<1>2. Relative(p) \in Nat
  BY <1>1 DEF Relative
<1>3. QED
  BY <1>1, <1>2 DEF OutputPts

\* What close_rtmp leaves behind.
LEMMA ClosedIsFresh ==
  ASSUME Closed
  PROVE  /\ ~open' /\ ~header' /\ ~extradata' /\ Fresh'
         /\ open' \in BOOLEAN /\ alive' \in BOOLEAN /\ ioError' \in BOOLEAN
         /\ extradata' \in BOOLEAN /\ header' \in BOOLEAN
         /\ origin' \in -1 .. MaxPts
         /\ lastPts' \in Int /\ lastPts' >= -1
         /\ headers' \in 0 .. 1
         /\ sent' \in Nat
<1>1. /\ ~open' /\ ~header' /\ ~extradata' /\ Fresh'
      /\ open' \in BOOLEAN /\ alive' \in BOOLEAN /\ ioError' \in BOOLEAN
      /\ extradata' \in BOOLEAN /\ header' \in BOOLEAN
  BY DEF Closed, Fresh
<1>2. /\ origin' \in -1 .. MaxPts
      /\ lastPts' \in Int /\ lastPts' >= -1
      /\ headers' \in 0 .. 1
      /\ sent' \in Nat
  <2>1. origin' = -1 /\ lastPts' = -1 /\ headers' = 0 /\ sent' = 0
    BY DEF Closed
  <2>2. QED
    BY <2>1, StreamAssumption
<1>3. QED
  BY <1>1, <1>2

\* The publisher starts without a connection.
LEMMA InitIInv == Init => IInv
<1> SUFFICES ASSUME Init PROVE IInv
  OBVIOUS
<1>1. /\ inQueue \in Seq(Packet)
      /\ Len(inQueue) <= QueueSize
      /\ 0 \in 0 .. MaxPackets /\ -1 \in -1 .. MaxPts
  BY StreamAssumption DEF Init
<1>2. TypeOK
  <2>1. sink \in {"rtmp", "metrics"} /\ pc = "off" /\ produced \in 0 .. MaxPackets
    BY <1>1 DEF Init
  <2>2. /\ origin \in -1 .. MaxPts /\ lastPts = -1 /\ headers = 0 /\ sent = 0
    BY <1>1 DEF Init
  <2>3. /\ lastPts \in Int /\ lastPts >= -1 /\ headers \in 0 .. 1 /\ sent \in Nat
    BY <2>2
  <2>4. QED
    BY <1>1, <2>1, <2>2, <2>3 DEF Init, TypeOK, Packet
<1>3. QED
  BY <1>2 DEF Init, IInv, ContextMatchesPhase, HeaderOnceAndFirst, Fresh

-----------------------------------------------------------------------------
\* A packet of the encoder changes nothing but the queue.
LEMMA EncodeKeeps ==
  ASSUME IInv, NEW key \in BOOLEAN, NEW pts \in 0 .. MaxPts, Encode(key, pts)
  PROVE  IInv'
<1>1. /\ inQueue' \in Seq([key : BOOLEAN, params : BOOLEAN, pts : 0 .. MaxPts])
      /\ Len(inQueue') <= QueueSize
  <2> DEFINE p == [key |-> key, params |-> produced = 0, pts |-> pts]
  <2>1. inQueue \in Seq(Packet) /\ Len(inQueue) <= QueueSize /\ QueueSize \in Nat
    BY StreamAssumption DEF IInv, TypeOK, Packet
  <2>2. p \in Packet
    BY DEF Packet
  <2>3. inQueue' = IF Len(inQueue) < QueueSize THEN Append(inQueue, p) ELSE inQueue
    BY DEF Encode
  <2>4. Append(inQueue, p) \in Seq(Packet) /\ Len(Append(inQueue, p)) = Len(inQueue) + 1
    BY <2>1, <2>2
  <2>5. inQueue' \in Seq(Packet) /\ Len(inQueue') <= QueueSize
    <3> HIDE DEF p
    <3>1. CASE Len(inQueue) < QueueSize
      BY <2>1, <2>3, <2>4, <3>1
    <3>2. CASE ~(Len(inQueue) < QueueSize)
      BY <2>1, <2>3, <3>2
    <3>3. QED
      BY <3>1, <3>2
  <2>6. QED
    BY <2>5 DEF Packet
<1>2. produced' \in 0 .. MaxPackets
  BY StreamAssumption DEF IInv, TypeOK, Encode
<1>3. UNCHANGED <<sink, running, pc, stopping, conn, params, serverUp>>
  BY DEF Encode
<1>4. QED
  BY <1>1, <1>2, <1>3 DEF IInv, TypeOK, ContextMatchesPhase, HeaderOnceAndFirst, Fresh, conn

\* Neither the server nor start and stop disturb what thread and connection have in common.
LEMMA EnvironmentKeeps ==
  ASSUME IInv, ServerToggles \/ PeerDrops \/ Start \/ StopRequest \/ StopJoin
  PROVE  IInv'
<1> USE DEF IInv, TypeOK, ContextMatchesPhase, HeaderOnceAndFirst, Fresh, conn
<1>1. CASE ServerToggles
  BY <1>1 DEF ServerToggles
<1>2. CASE PeerDrops
  BY <1>2 DEF PeerDrops
<1>3. CASE Start
  BY <1>3 DEF Start
<1>4. CASE StopRequest
  BY <1>4 DEF StopRequest
<1>5. CASE StopJoin
  <2>1. Closed /\ UNCHANGED <<sink, running, pc, inQueue, produced, params, serverUp>>
        /\ pc = "off" /\ stopping' = FALSE
    BY <1>5 DEF StopJoin
  <2>2. TypeOK'
    BY <2>1, ClosedIsFresh
  <2>3. QED
    BY <2>1, <2>2, ClosedIsFresh
<1>6. QED
  BY <1>1, <1>2, <1>3, <1>4, <1>5

\* A packet is written after the header, later than those before it, or the connection is given up.
LEMMA ConsumeKeeps ==
  ASSUME IInv, Consume
  PROVE  IInv'
<1> DEFINE p == Head(inQueue)
<1>1. /\ p \in Packet
      /\ inQueue' \in Seq([key : BOOLEAN, params : BOOLEAN, pts : 0 .. MaxPts])
      /\ Len(inQueue') <= QueueSize
  BY HeadTyped DEF IInv, Consume, Packet
<1>2. OutputPts(p) \in Nat
  BY <1>1, OutputPtsIncreases DEF IInv
<1>3. /\ pc = "run" /\ running
      /\ UNCHANGED <<sink, running, stopping, produced, serverUp>>
      /\ params' \in BOOLEAN
  BY <1>1 DEF Consume, IInv, TypeOK, Packet
<1>4. CASE UNCHANGED <<pc, conn>>
  BY <1>1, <1>3, <1>4 DEF IInv, TypeOK, ContextMatchesPhase, HeaderOnceAndFirst, Fresh, conn
<1>5. CASE sink = "rtmp" /\ Fail
  <2>1. Closed /\ pc' = "reconnect"
    BY <1>5 DEF Fail
  <2>2. TypeOK'
    BY <1>1, <1>3, <2>1, ClosedIsFresh DEF IInv, TypeOK, Packet
  <2>3. QED
    BY <1>1, <1>3, <1>5, <2>1, <2>2, ClosedIsFresh
       DEF IInv, ContextMatchesPhase, HeaderOnceAndFirst, Fresh
<1>6. CASE /\ sink = "rtmp"
           /\ header \/ HeaderDue(p)
           /\ origin' = IF origin < 0 THEN p.pts ELSE origin
           /\ lastPts' = OutputPts(p)
           /\ sent' = sent + 1
           /\ UNCHANGED <<pc, open, alive, ioError>>
           /\ extradata' = TRUE
           /\ header' = TRUE
           /\ headers' = IF HeaderDue(p) THEN headers + 1 ELSE headers
  <2>1. headers' = 1
    BY <1>6 DEF IInv, HeaderOnceAndFirst, HeaderDue, ContextMatchesPhase
  <2>2. origin' \in -1 .. MaxPts /\ lastPts' \in Int /\ lastPts' >= -1 /\ sent' \in Nat
    BY <1>1, <1>2, <1>6, StreamAssumption DEF IInv, TypeOK, Packet
  <2>3. open /\ open' /\ pc' = "run"
    BY <1>3, <1>6 DEF IInv, ContextMatchesPhase
  <2>4. QED
    BY <1>1, <1>3, <1>6, <2>1, <2>2, <2>3
       DEF IInv, TypeOK, ContextMatchesPhase, HeaderOnceAndFirst, Fresh
<1>7. QED
  BY <1>4, <1>5, <1>6 DEF Consume, WriteFrame, IInv, TypeOK

\* Reconnecting opens and closes the context with the phase of the loop.
LEMMA ThreadKeeps ==
  ASSUME IInv, Exit \/ Idle \/ Reopen \/ Refused \/ Drain \/ Retry \/ LeaveLoop
  PROVE  IInv'
<1> USE DEF IInv, ContextMatchesPhase, HeaderOnceAndFirst, Fresh
<1>1. CASE Exit \/ Refused \/ Retry \/ LeaveLoop
  <2>1. UNCHANGED <<sink, running, stopping, inQueue, produced, conn, params, serverUp>>
    BY <1>1 DEF Exit, Refused, Retry, LeaveLoop
  <2>2. QED
    BY <1>1, <2>1 DEF Exit, Refused, Retry, LeaveLoop, TypeOK, conn
<1>2. CASE Idle
  <2>1. /\ pc = "run" /\ running
        /\ UNCHANGED <<sink, running, stopping, inQueue, produced, params, serverUp>>
    BY <1>2 DEF Idle
  <2>2. CASE header /\ ioError
    <3>0. extradata /\ sink = "rtmp"
      BY <2>2
    <3>1. Closed /\ pc' = "reconnect"
      BY <1>2, <2>2 DEF Idle, Fail
    <3>2. TypeOK'
      BY <2>1, <3>1, ClosedIsFresh DEF TypeOK
    <3>3. QED
      BY <2>1, <3>0, <3>1, <3>2, ClosedIsFresh
  <2>3. CASE ~(header /\ ioError)
    BY <1>2, <2>3 DEF Idle, TypeOK, conn
  <2>4. QED
    BY <2>2, <2>3
<1>3. CASE Drain
  BY <1>3, HeadTyped DEF Drain, TypeOK, conn, Packet
<1>4. CASE Reopen
  <2>1. /\ open' = TRUE /\ alive' = TRUE /\ extradata' = params /\ pc' = "run" /\ running
        /\ UNCHANGED <<sink, running, stopping, inQueue, produced, origin, lastPts, sent, params,
                       serverUp>>
        /\ ~open /\ sink = "rtmp"
    BY <1>4 DEF Reopen
  <2>2. PICK written \in BOOLEAN :
          /\ header' = written
          /\ headers' = (IF written THEN 1 ELSE 0)
          /\ ioError' = (params /\ ~written)
          /\ written => params
    BY <1>4 DEF Reopen, TypeOK
  <2>3. TypeOK'
    BY <2>1, <2>2 DEF TypeOK
  <2>4. QED
    BY <2>1, <2>2, <2>3 DEF TypeOK
<1>5. QED
  BY <1>1, <1>2, <1>3, <1>4

-----------------------------------------------------------------------------
\* Every step keeps the invariant.
LEMMA NextIInv == IInv /\ [Next]_vars => IInv'
<1>1. ASSUME IInv, Next
      PROVE  IInv'
  BY <1>1, EncodeKeeps, EnvironmentKeeps, ConsumeKeeps, ThreadKeeps DEF Next, ThreadStep
<1>2. ASSUME IInv, UNCHANGED vars
      PROVE  IInv'
  BY <1>2 DEF IInv, TypeOK, ContextMatchesPhase, HeaderOnceAndFirst, Fresh, vars, conn
<1>3. QED
  BY <1>1, <1>2

\* The phase of write and reconnect loops always agrees with the connection, the header and
\* the cached parameter sets, and the last output time with the origin.
THEOREM PublisherInvariance == Spec => []IInv
BY InitIInv, NextIInv, PTL DEF Spec

\* Every variable of the publisher stays in its range.
THEOREM PublisherTypeCorrect == Spec => []TypeOK
BY PublisherInvariance, PTL DEF IInv

\* fmt_ctx_ is dereferenced only while it is not null, and never leaked.
THEOREM ConnectionMatchesPhase == Spec => []ContextMatchesPhase
BY PublisherInvariance, PTL DEF IInv

\* One FLV header per connection, before the first packet.
THEOREM OneHeaderFirst == Spec => []HeaderOnceAndFirst
BY PublisherInvariance, PTL DEF IInv

-----------------------------------------------------------------------------
(* The packets' queue.                                                     *)

\* A packet that is appended is the last one.
LEMMA AppendedIsLast ==
  ASSUME NEW S, NEW q \in Seq(S), NEW e \in S
  PROVE  /\ Append(q, e) # <<>>
         /\ Append(q, e)[Len(Append(q, e))] = e
<1>1. /\ Len(Append(q, e)) = Len(q) + 1 /\ Len(q) \in Nat
      /\ Append(q, e)[Len(q) + 1] = e
  OBVIOUS
<1>2. Len(Append(q, e)) # Len(<<>>)
  BY <1>1
<1>3. Append(q, e) # <<>>
  BY <1>2, Zenon
<1>q. QED
  BY <1>1, <1>3

\* The encoder's packets and the publisher's loops use the queue as its promise
\* allows: a packet joins while there is room, the thread takes the first one,
\* also in the pauses between two connections.
THEOREM PacketsUseTheQueue == Spec => PacketsAreQueued
<1>1. Init => StreamQueue!Init
  BY DEF Init, StreamQueue!Init
<1>2. ASSUME IInv, [Next]_vars PROVE [StreamQueue!Next]_StreamQueue!qvars
  <2>0. inQueue \in Seq(Packet)
    BY <1>2 DEF IInv, TypeOK, Packet
  <2>1. ASSUME inQueue' = inQueue PROVE [StreamQueue!Next]_StreamQueue!qvars
    BY <2>1 DEF StreamQueue!qvars
  <2>2. ASSUME inQueue # <<>>, inQueue' = Tail(inQueue)
        PROVE  [StreamQueue!Next]_StreamQueue!qvars
    BY <2>2 DEF StreamQueue!Take, StreamQueue!Next
  <2>3. ASSUME NEW key \in BOOLEAN, NEW pts \in 0 .. MaxPts, Encode(key, pts)
        PROVE  [StreamQueue!Next]_StreamQueue!qvars
    <3> DEFINE p == [key |-> key, params |-> produced = 0, pts |-> pts]
    <3>0. p \in Packet
      BY DEF Packet
    <3>1. inQueue' = IF Len(inQueue) < QueueSize THEN Append(inQueue, p) ELSE inQueue
      BY <2>3 DEF Encode
    <3> HIDE DEF p
    <3>2. CASE Len(inQueue) < QueueSize
      <4>1. inQueue' = Append(inQueue, p)
        BY <3>1, <3>2
      <4>2. inQueue' # <<>> /\ inQueue'[Len(inQueue')] = p
        BY <2>0, <3>0, <4>1, AppendedIsLast
      <4>3. StreamQueue!Put
        BY <3>2, <4>1, <4>2 DEF StreamQueue!Put, StreamQueue!Joins
      <4>q. QED
        BY <4>3 DEF StreamQueue!Next
    <3>3. CASE ~(Len(inQueue) < QueueSize)
      BY <2>1, <3>1, <3>3
    <3>q. QED
      BY <3>2, <3>3
  <2>4. CASE ThreadStep
    BY <2>1, <2>2, <2>4 DEF ThreadStep, Exit, Consume, Idle, Reopen, Refused, Drain, Retry,
                            LeaveLoop
  <2>5. CASE ServerToggles \/ PeerDrops \/ Start \/ StopRequest \/ StopJoin \/ UNCHANGED vars
    BY <2>1, <2>5 DEF ServerToggles, PeerDrops, Start, StopRequest, StopJoin, vars
  <2>q. QED
    BY <1>2, <2>3, <2>4, <2>5 DEF Next
<1>q. QED
  BY <1>1, <1>2, PublisherInvariance, PTL DEF Spec, PacketsAreQueued, StreamQueue!Spec

-----------------------------------------------------------------------------
(* The sessions the server sees.                                           *)

\* The loop of run writes a packet, behind a header of its own if it is due,
\* drops it, or loses the session.
LEMMA ConsumeInSession ==
  ASSUME IInv, Consume
  PROVE  [Server!Next]_(Server!session)
<1> USE DEF IInv
<1> DEFINE p == Head(inQueue)
<1>1. p \in Packet
  BY HeadTyped DEF Consume
<1>2. p.key \in BOOLEAN
  BY <1>1 DEF Packet
<1>3. CASE UNCHANGED conn
  BY <1>3 DEF conn, Server!session
<1>4. CASE sink # "metrics" /\ (header \/ HeaderDue(p)) /\ WriteFrame(p)
  <2>0. sink = "rtmp" /\ pc = "run" /\ running
    BY <1>4 DEF Consume, TypeOK
  <2>1. open
    BY <2>0 DEF ContextMatchesPhase
  <2>2. CASE Fail
    <3>1. Server!Disconnect
      BY <2>1, <2>2 DEF Fail, Closed, Server!Disconnect, Server!Nothing
    <3>2. QED
      BY <3>1 DEF Server!Next
  <2>3. CASE ~Fail
    <3> HIDE DEF p
    <3>1. /\ lastPts' = OutputPts(p) /\ sent' = sent + 1 /\ open' = open
          /\ headers' = IF HeaderDue(p) THEN headers + 1 ELSE headers
      BY <1>4, <2>3 DEF WriteFrame
    <3>2. OutputPts(p) \in Nat /\ OutputPts(p) > lastPts
      BY <1>1, OutputPtsIncreases
    <3>3. headers' = 1
      <4>1. CASE header
        <5>1. headers = 1 /\ ~HeaderDue(p)
          BY <4>1 DEF ContextMatchesPhase, HeaderOnceAndFirst, HeaderDue
        <5>2. QED
          BY <3>1, <5>1
      <4>2. CASE ~header
        <5>1. headers = 0 /\ HeaderDue(p)
          BY <1>4, <4>2 DEF HeaderOnceAndFirst
        <5>2. QED
          BY <3>1, <5>1
      <4>3. QED
        BY <4>1, <4>2
    <3>4. lastPts' > lastPts /\ lastPts' >= 0
      BY <3>1, <3>2
    <3>5. Server!Write
      BY <2>1, <3>1, <3>3, <3>4 DEF Server!Write
    <3>6. QED
      BY <3>5 DEF Server!Next
  <2>4. QED
    BY <2>2, <2>3
<1>5. QED
  BY <1>3, <1>4 DEF Consume

\* A new session begins where the last one left nothing.
LEMMA ReopenInSession ==
  ASSUME IInv, Reopen
  PROVE  [Server!Next]_(Server!session)
<1>1. ~open /\ Fresh
  BY DEF IInv, ContextMatchesPhase, Reopen
<1>2. open' = TRUE /\ UNCHANGED <<lastPts, sent>> /\ headers' \in {0, 1}
  BY DEF Reopen
<1>3. Server!Connect
  BY <1>1, <1>2 DEF Fresh, Server!Connect
<1>4. QED
  BY <1>3 DEF Server!Next

\* Whatever a loop, a reconnection or a stop does, the server sees sessions of one
\* header and packets with growing times (StreamThread.cpp, write_packet,
\* reconnect_loop, close_rtmp).
THEOREM PublisherMakesSessions == Spec => ServerSeesSessions
<1>1. Init => Server!Init
  BY DEF Init, Server!Init, Server!Nothing
<1>2. ASSUME IInv, [Next]_vars PROVE [Server!Next]_(Server!session)
  <2>1. ASSUME UNCHANGED conn PROVE [Server!Next]_(Server!session)
    BY <2>1 DEF conn, Server!session
  <2>2. CASE Start
    <3>1. ~open /\ Fresh
      BY <1>2, <2>2 DEF IInv, ContextMatchesPhase, Start
    <3>2. UNCHANGED <<headers, sent, lastPts>> /\ open' \in BOOLEAN
      BY <2>2 DEF Start
    <3>3. CASE open'
      <4>1. Server!Connect
        BY <3>1, <3>2, <3>3 DEF Fresh, Server!Connect
      <4>2. QED
        BY <4>1 DEF Server!Next
    <3>4. CASE ~open'
      <4>1. open = FALSE /\ open' = FALSE
        BY <1>2, <3>1, <3>2, <3>4, Zenon DEF IInv, TypeOK
      <4>2. UNCHANGED <<open, headers, sent, lastPts>>
        BY <3>2, <4>1
      <4>3. QED
        BY <4>2 DEF Server!session
    <3>5. QED
      BY <3>3, <3>4
  <2>3. ASSUME Closed PROVE [Server!Next]_(Server!session)
    <3>1. CASE open
      <4>1. Server!Disconnect
        BY <2>3, <3>1 DEF Closed, Server!Disconnect, Server!Nothing
      <4>2. QED
        BY <4>1 DEF Server!Next
    <3>2. CASE ~open
      <4>1. Fresh /\ open = FALSE
        BY <1>2, <3>2 DEF IInv, TypeOK
      <4>2. QED
        BY <2>3, <4>1 DEF Fresh, Closed, Server!session
    <3>3. QED
      BY <3>1, <3>2
  <2>4. CASE Idle
    BY <2>1, <2>3, <2>4 DEF Idle, Fail
  <2>5. CASE StopJoin
    BY <2>3, <2>5 DEF StopJoin
  <2>6. CASE Exit \/ Refused \/ Drain \/ Retry \/ LeaveLoop \/ ServerToggles \/ StopRequest
    BY <2>1, <2>6 DEF Exit, Refused, Drain, Retry, LeaveLoop, ServerToggles, StopRequest
  <2>7. CASE PeerDrops
    BY <2>7 DEF PeerDrops, Server!session
  <2>8. ASSUME NEW key \in BOOLEAN, NEW pts \in 0 .. MaxPts, Encode(key, pts)
        PROVE  UNCHANGED conn
    BY <2>8 DEF Encode
  <2>9. CASE UNCHANGED vars
    BY <2>1, <2>9 DEF vars
  <2>10. QED
    BY <1>2, <2>1, <2>2, <2>4, <2>5, <2>6, <2>7, <2>8, <2>9, ConsumeInSession, ReopenInSession
    DEF Next, ThreadStep
<1>3. QED
  BY <1>1, <1>2, PublisherInvariance, PTL DEF Spec, ServerSeesSessions, Server!Spec
=============================================================================
