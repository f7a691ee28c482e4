---------------------------- MODULE FrameFlowProofs ---------------------------
(***************************************************************************)
(* What holds of the frames of a channel for every size of the queues and  *)
(* the pool, every alignment delay and every number of frames.             *)
(*                                                                         *)
(* The invariant of the pool is its disjointness from the buffers in use:  *)
(* a step that takes no frame can only free buffers, and those it frees    *)
(* are not in the pool yet.                                                *)
(***************************************************************************)
EXTENDS FrameFlow, TLAPS

FrameRecords == [id : Nat, conn : Nat, pts : Int, buf : Buffers]

Shape ==
  /\ source \in {"camera", "decoder", "drm"}
  /\ phase \in {"connecting", "reading", "first", "second", "ended"}
  /\ step \in {"idle", "draw", "put", "get"}
  /\ conn \in Nat /\ nextId \in Nat /\ lastPts \in Int /\ ready \in Nat
  /\ hand \in Seq(FrameRecords) /\ encQueue \in Seq(FrameRecords)
  /\ inferQueue \in Seq(FrameRecords) /\ align \in Seq(FrameRecords)
  /\ coding \in Seq(FrameRecords) /\ infer \in Seq(FrameRecords)
  /\ inside \in Seq(FrameRecords) /\ outQueue \in Seq(FrameRecords)
  /\ pixels \in [Buffers -> [of : Nat, drawn : BOOLEAN]]

Limits ==
  /\ Len(encQueue) <= QueueSize /\ Len(inferQueue) <= QueueSize
  /\ Len(outQueue) <= OutSize /\ Len(align) <= Delay
  /\ Len(coding) = (IF step = "idle" THEN 0 ELSE 1)
  /\ Len(hand) = (IF phase \in {"first", "second"} THEN 1 ELSE 0)
  /\ ready <= Len(inside)

PoolApart ==
  /\ pool \in Seq(Buffers)
  /\ Len(pool) <= MaxCached
  /\ IsInjective(pool)
  /\ Held \cap Range(pool) = {}

PixelsKept ==
  \A f \in Frames :
    /\ pixels[f.buf].of = f.id
    /\ source # "drm" => ~pixels[f.buf].drawn

Newest == inferQueue # <<>> => inferQueue[Len(inferQueue)].id = handed

IInv == Shape /\ Limits /\ PoolApart /\ PixelsKept /\ Newest

-------------------------------------------------------------------------------
\* Sequences.

\* A list with one more element,
LEMMA AppendFacts ==
  ASSUME NEW S, NEW s \in Seq(S), NEW e \in S
  PROVE  /\ Append(s, e) \in Seq(S) /\ Len(Append(s, e)) = Len(s) + 1
         /\ Append(s, e)[Len(s) + 1] = e
         /\ Range(Append(s, e)) = Range(s) \cup {e}
<1>1. /\ Append(s, e) \in Seq(S) /\ Len(Append(s, e)) = Len(s) + 1
      /\ Append(s, e)[Len(s) + 1] = e
      /\ \A i \in 1 .. Len(s) : Append(s, e)[i] = s[i]
  OBVIOUS
<1>2. DOMAIN s = 1 .. Len(s) /\ DOMAIN Append(s, e) = 1 .. Len(s) + 1 /\ Len(s) \in Nat
  BY <1>1
<1>3. Range(Append(s, e)) \subseteq Range(s) \cup {e}
  BY <1>1, <1>2 DEF Range
<1>4. Range(s) \cup {e} \subseteq Range(Append(s, e))
  BY <1>1, <1>2 DEF Range
<1> QED
  BY <1>1, <1>3, <1>4

\* a list without its first one,
LEMMA TailFacts ==
  ASSUME NEW S, NEW s \in Seq(S), s # <<>>
  PROVE  /\ s[1] \in S /\ s[1] \in Range(s)
         /\ Tail(s) \in Seq(S) /\ Len(Tail(s)) = Len(s) - 1 /\ Len(s) \in Nat \ {0}
         /\ Range(Tail(s)) \subseteq Range(s)
         /\ \A i \in 1 .. Len(s) - 1 : Tail(s)[i] = s[i + 1]
<1>1. /\ s[1] \in S /\ Tail(s) \in Seq(S) /\ Len(Tail(s)) = Len(s) - 1
      /\ Len(s) \in Nat \ {0}
      /\ \A i \in 1 .. Len(s) - 1 : Tail(s)[i] = s[i + 1]
  OBVIOUS
<1>2. DOMAIN s = 1 .. Len(s) /\ DOMAIN Tail(s) = 1 .. Len(s) - 1
  BY <1>1
<1>3. \A i \in 1 .. Len(s) - 1 : i + 1 \in 1 .. Len(s)
  BY <1>1
<1> QED
  BY <1>1, <1>2, <1>3 DEF Range

\* and one that had no other.
LEMMA TailIsEmpty ==
  ASSUME NEW S, NEW s \in Seq(S), s # <<>>, Tail(s) = <<>>
  PROVE  Len(s) = 1
<1>1. Len(s) \in Nat \ {0} /\ Len(Tail(s)) = Len(s) - 1
  BY TailFacts
<1>2. Len(<<>>) = 0
  OBVIOUS
<1>3. Len(Tail(s)) = 0
  BY <1>2, Zenon
<1> QED
  BY <1>1, <1>3

\* Lists of at most one frame, as the threads hold them.
LEMMA RangeOfNoneOrOne ==
  /\ Range(<<>>) = {}
  /\ \A e : Range(<<e>>) = {e}
BY DEF Range

\* The front of a sequence without repetitions has all but its last element.
LEMMA FrontFacts ==
  ASSUME NEW S, NEW s \in Seq(S), s # <<>>, IsInjective(s)
  PROVE  /\ Front(s) \in Seq(S) /\ Len(Front(s)) = Len(s) - 1
         /\ IsInjective(Front(s))
         /\ Last(s) \in S /\ Last(s) \in Range(s)
         /\ Range(Front(s)) = Range(s) \ {Last(s)}
<1>1. /\ Len(s) \in Nat \ {0} /\ DOMAIN s = 1 .. Len(s)
      /\ Last(s) = s[Len(s)]
      /\ Front(s) \in Seq(S) /\ Len(Front(s)) = Len(s) - 1
      /\ DOMAIN Front(s) = 1 .. Len(s) - 1
      /\ \A i \in 1 .. Len(s) - 1 : Front(s)[i] = s[i]
  <2> DEFINE n == Len(s) - 1
  <2>1. Len(s) \in Nat \ {0} /\ DOMAIN s = 1 .. Len(s)
    OBVIOUS
  <2>2. n \in Nat /\ n <= Len(s)
    BY <2>1
  <2>3. Front(s) = SubSeq(s, 1, n) /\ Last(s) = s[Len(s)]
    BY DEF Front, Last
  <2> HIDE DEF n
  <2>4. SubSeq(s, 1, n) \in Seq(S) /\ Len(SubSeq(s, 1, n)) = n
    BY <2>2
  <2>5. \A i \in 1 .. n : SubSeq(s, 1, n)[i] = s[i]
    BY <2>1, <2>2
  <2>6. DOMAIN SubSeq(s, 1, n) = 1 .. n
    BY <2>4
  <2> QED
    BY <2>1, <2>3, <2>4, <2>5, <2>6 DEF n
<1>2. \A i, j \in 1 .. Len(s) : s[i] = s[j] => i = j
  BY <1>1 DEF IsInjective
<1>3. IsInjective(Front(s))
  BY <1>1, <1>2 DEF IsInjective
<1>4. Last(s) \in S /\ Last(s) \in Range(s)
  BY <1>1 DEF Range
<1>5. Range(Front(s)) \subseteq Range(s) \ {Last(s)}
  BY <1>1, <1>2 DEF Range
<1>6. Range(s) \ {Last(s)} \subseteq Range(Front(s))
  BY <1>1 DEF Range
<1> QED
  BY <1>1, <1>3, <1>4, <1>5, <1>6

\* A new element does not repeat another.
LEMMA InjectiveAppend ==
  ASSUME NEW S, NEW s \in Seq(S), IsInjective(s), NEW e \in S, e \notin Range(s)
  PROVE  IsInjective(Append(s, e))
<1>1. /\ Len(s) \in Nat /\ DOMAIN s = 1 .. Len(s)
      /\ DOMAIN Append(s, e) = 1 .. Len(s) + 1
      /\ Append(s, e)[Len(s) + 1] = e
      /\ \A i \in 1 .. Len(s) : Append(s, e)[i] = s[i]
  OBVIOUS
<1>2. \A i \in 1 .. Len(s) : s[i] # e
  BY <1>1 DEF Range
<1>3. \A i, j \in 1 .. Len(s) : s[i] = s[j] => i = j
  BY <1>1 DEF IsInjective
<1> QED
  BY <1>1, <1>2, <1>3 DEF IsInjective

-------------------------------------------------------------------------------
\* Frames and buffers.

\* The frames are those of the six places, before a step and after it.
LEMMA FramesAre ==
  /\ Frames = Range(hand) \cup Range(encQueue) \cup Range(align)
                \cup Range(coding) \cup Range(inferQueue) \cup Range(infer)
  /\ Frames' = Range(hand') \cup Range(encQueue') \cup Range(align')
                 \cup Range(coding') \cup Range(inferQueue') \cup Range(infer')
BY DEF Frames

\* What is in a list is of its type.
LEMMA RangeInRecords ==
  ASSUME NEW S, NEW s \in Seq(S)
  PROVE  Range(s) \subseteq S
BY DEF Range

\* Frames are records, their buffers are buffers.
LEMMA FramesAreRecords ==
  ASSUME Shape
  PROVE  Frames \subseteq FrameRecords /\ Held \subseteq Buffers
<1>1. Frames \subseteq FrameRecords
  BY FramesAre, RangeInRecords DEF Shape
<1> QED
  BY <1>1 DEF Held, FrameRecords

\* A step that refers to no new frame and fills no buffer keeps the pool apart
\* from the buffers in use.
LEMMA FreeingKeeps ==
  ASSUME Shape, PoolApart, Frames' \subseteq Frames, Recycle
  PROVE  PoolApart'
<1>1. Held' \subseteq Held
  BY DEF Held
<1>2. pool' = Returned(Held \ Held')
  BY DEF Recycle
<1>3. CASE pool' = pool
  BY <1>1, <1>3 DEF PoolApart
<1>4. CASE pool' # pool
  <2> DEFINE b == CHOOSE x \in Held \ Held' : TRUE
  <2>1. Held \ Held' # {} /\ Len(pool) < MaxCached /\ pool' = Append(pool, b)
    <3>1. Held \ Held' # {} /\ ~(Len(pool) >= MaxCached) /\ pool' = Append(pool, b)
      BY <1>2, <1>4 DEF Returned
    <3>2. Len(pool) \in Nat /\ MaxCached \in Nat
      BY FrameFlowAssumption DEF PoolApart
    <3> QED
      BY <3>1, <3>2
  <2>2. b \in Held \ Held'
    BY <2>1
  <2> HIDE DEF b
  <2>3. b \in Buffers /\ b \notin Range(pool)
    BY <2>2, FramesAreRecords DEF PoolApart
  <2>4. /\ pool' \in Seq(Buffers) /\ Len(pool') = Len(pool) + 1
        /\ Range(pool') = Range(pool) \cup {b}
    BY <2>1, <2>3, AppendFacts DEF PoolApart
  <2>5. IsInjective(pool')
    BY <2>1, <2>3, InjectiveAppend DEF PoolApart
  <2>6. Len(pool') <= MaxCached
    BY <2>1, <2>4, FrameFlowAssumption DEF PoolApart
  <2>7. Held' \cap Range(pool') = {}
    BY <1>1, <2>2, <2>4 DEF PoolApart
  <2> QED
    BY <2>4, <2>5, <2>6, <2>7 DEF PoolApart
<1> QED
  BY <1>3, <1>4

\* A step that only drops frames does not change what the others show.
LEMMA FreeingKeepsPixels ==
  ASSUME PixelsKept, Frames' \subseteq Frames, UNCHANGED <<pixels, source>>
  PROVE  PixelsKept'
BY DEF PixelsKept

\* The same of a step that leaves the pool and every frame where they are.
LEMMA IdleKeeps ==
  ASSUME PoolApart, PixelsKept, UNCHANGED <<bufferVars, source>>,
         UNCHANGED <<hand, encQueue, align, coding, inferQueue, infer>>
  PROVE  PoolApart' /\ PixelsKept'
<1>1. Frames' = Frames
  BY DEF Frames
<1>2. Held' = Held
  BY <1>1 DEF Held
<1> QED
  BY <1>1, <1>2 DEF PoolApart, PixelsKept, bufferVars

-------------------------------------------------------------------------------
\* The initial states, and the steps of the source.

\* Nothing flows at first.
LEMMA InitIInv == Init => IInv
<1> SUFFICES ASSUME Init PROVE IInv
  OBVIOUS
<1>1. Frames = {} /\ Range(pool) = {}
  BY FramesAre, RangeOfNoneOrOne DEF Init
<1>2. Shape
  BY DEF Init, Shape, NoTime
<1>3. Limits /\ Newest
  BY FrameFlowAssumption DEF Init, Limits, Newest
<1>4. PoolApart
  BY <1>1, FrameFlowAssumption DEF Init, PoolApart, Held, IsInjective
<1>5. PixelsKept
  BY <1>1 DEF PixelsKept
<1> QED
  BY <1>2, <1>3, <1>4, <1>5 DEF IInv

\* Connecting, giving up and failing touch neither frames nor buffers.
LEMMA ConnectionStep ==
  ASSUME IInv, Connect \/ GiveUp \/ ReadFails
  PROVE  IInv'
<1> USE DEF IInv
<1>1. /\ UNCHANGED <<bufferVars, source, handed>>
      /\ UNCHANGED <<hand, encQueue, align, coding, inferQueue, infer>>
      /\ UNCHANGED <<step, inside, ready, outQueue, nextId>>
      /\ phase \notin {"first", "second"} /\ phase' \in {"connecting", "reading", "ended"}
      /\ conn' \in Nat /\ lastPts' \in Int
  <2>0. conn \in Nat /\ conn + 1 \in Nat /\ lastPts \in Int /\ NoTime \in Int
    BY DEF NoTime, Shape
  <2>1. CASE Connect
    BY <2>0, <2>1 DEF Connect, encoderVars
  <2>2. CASE GiveUp
    BY <2>0, <2>2 DEF GiveUp, encoderVars
  <2>3. CASE ReadFails
    BY <2>0, <2>3 DEF ReadFails, encoderVars
  <2> QED BY <2>1, <2>2, <2>3
<1>2. Shape' /\ Limits' /\ Newest'
  BY <1>1 DEF Shape, Limits, Newest, bufferVars
<1> QED
  BY <1>1, <1>2, IdleKeeps

\* A repaired timestamp is a number, whatever the decoder says.
LEMMA RepairedPtsType ==
  ASSUME Shape, NEW media \in MediaTimes \cup {NoTime}
  PROVE  Stamped(media) \in Int
BY FrameFlowAssumption DEF Stamped, RepairedPts, Shape, NoTime

\* A buffer that is acquired is nobody's, and leaves the pool.
LEMMA AcquiredIsFree ==
  ASSUME Shape, PoolApart, Cached \/ Spare # {}, NEW p,
         p = IF Cached THEN Front(pool) ELSE pool
  PROVE  /\ Acquired \in Buffers /\ Acquired \notin Held
         /\ p \in Seq(Buffers) /\ Len(p) <= MaxCached /\ IsInjective(p)
         /\ Range(p) \subseteq Range(pool) /\ Acquired \notin Range(p)
<1>1. CASE Cached
  <2>1. pool \in Seq(Buffers) /\ pool # <<>> /\ IsInjective(pool)
    BY <1>1 DEF PoolApart, Cached
  <2>2. /\ Front(pool) \in Seq(Buffers) /\ Len(Front(pool)) = Len(pool) - 1
        /\ IsInjective(Front(pool))
        /\ Last(pool) \in Buffers /\ Last(pool) \in Range(pool)
        /\ Range(Front(pool)) = Range(pool) \ {Last(pool)}
    BY <2>1, FrontFacts
  <2>3. Acquired = Last(pool) /\ p = Front(pool)
    BY <1>1 DEF Acquired
  <2>4. Len(p) <= MaxCached
    BY <2>1, <2>2, <2>3, FrameFlowAssumption DEF PoolApart
  <2> QED
    BY <2>2, <2>3, <2>4 DEF PoolApart
<1>2. CASE ~Cached
  <2>1. p = pool /\ Acquired \in Spare
    BY <1>2 DEF Acquired
  <2> QED
    BY <2>1 DEF Spare, PoolApart
<1> QED
  BY <1>1, <1>2

\* The pixels of a new frame go into a buffer that no frame refers to.
LEMMA DecodeStep ==
  ASSUME IInv, NEW media \in MediaTimes \cup {NoTime}, Decode(media)
  PROVE  IInv'
<1> USE DEF IInv
<1>1. /\ phase = "reading" /\ hand = <<>> /\ Len(hand) = 0
  BY DEF Decode, Limits, Shape
<1>2. lastPts' \in Int /\ nextId' \in Nat /\ conn' \in Nat
  BY RepairedPtsType DEF Decode, Shape
<1>3. CASE UNCHANGED <<phase, hand, pool, pixels>>
  <2>1. UNCHANGED <<source, encQueue, inferQueue, encoderVars, infer, handed, conn>>
    BY DEF Decode
  <2>2. Shape' /\ Limits' /\ Newest'
    BY <1>2, <1>3, <2>1 DEF Shape, Limits, Newest, encoderVars
  <2> QED
    BY <1>3, <2>1, <2>2, IdleKeeps DEF bufferVars, encoderVars
<1>4. CASE ~UNCHANGED <<phase, hand, pool, pixels>>
  <2> DEFINE f == [id |-> nextId, conn |-> conn, pts |-> lastPts', buf |-> Acquired]
  <2>1. /\ Cached \/ Spare # {}
        /\ hand' = <<f>> /\ phase' = "first"
        /\ pixels' = [pixels EXCEPT ![Acquired] = [of |-> nextId, drawn |-> FALSE]]
        /\ pool' = IF Cached THEN Front(pool) ELSE pool
    BY <1>4 DEF Decode
  <2>2. UNCHANGED <<source, encQueue, inferQueue, encoderVars, infer, handed, conn>>
    BY DEF Decode
  <2>3. /\ Acquired \in Buffers /\ Acquired \notin Held
        /\ pool' \in Seq(Buffers) /\ Len(pool') <= MaxCached /\ IsInjective(pool')
        /\ Range(pool') \subseteq Range(pool) /\ Acquired \notin Range(pool')
    BY <2>1, AcquiredIsFree
  <2>4. f \in FrameRecords
    BY <1>2, <2>3 DEF FrameRecords, Shape
  <2>5. f.buf = Acquired /\ f.id = nextId
    OBVIOUS
  <2> HIDE DEF f
  <2>6. Shape'
    BY <1>2, <2>1, <2>2, <2>3, <2>4 DEF Shape, encoderVars
  <2>7. Limits' /\ Newest'
    BY <2>1, <2>2 DEF Limits, Newest, encoderVars
  <2>8. Frames' = Frames \cup {f}
    BY <1>1, <2>1, <2>2, FramesAre, RangeOfNoneOrOne DEF encoderVars
  <2>9. Held' = Held \cup {Acquired}
    BY <2>5, <2>8 DEF Held
  <2>10. PoolApart'
    BY <2>3, <2>9 DEF PoolApart
  <2>11. pixels'[Acquired] = [of |-> nextId, drawn |-> FALSE]
    BY <2>1, <2>3 DEF Shape
  <2>12. \A g \in Frames : pixels'[g.buf] = pixels[g.buf]
    BY <2>1, <2>3 DEF Held, Shape
  <2>13. PixelsKept'
    BY <2>2, <2>5, <2>8, <2>11, <2>12 DEF PixelsKept
  <2> QED
    BY <2>6, <2>7, <2>10, <2>13
<1> QED
  BY <1>3, <1>4

\* A delivery passes the frame on or lets it go.
LEMMA DeliveredFacts ==
  ASSUME IInv, phase \in {"first", "second"}, Delivered
  PROVE  /\ hand[1] \in FrameRecords /\ hand[1] \in Range(hand)
         /\ hand' \in Seq(FrameRecords) /\ Range(hand') \subseteq Range(hand)
         /\ phase' \in {"second", "reading"}
         /\ Len(hand') = (IF phase' \in {"first", "second"} THEN 1 ELSE 0)
<1> USE DEF IInv
<1>1. hand \in Seq(FrameRecords) /\ Len(hand) = 1
  BY DEF Shape, Limits
<1>2. hand[1] \in FrameRecords /\ hand[1] \in Range(hand)
  BY <1>1, TailFacts
<1>3. CASE phase = "first"
  BY <1>1, <1>2, <1>3 DEF Delivered
<1>4. CASE phase # "first"
  <2>1. phase' = "reading" /\ hand' = <<>>
    BY <1>4 DEF Delivered
  <2> QED
    BY <1>2, <2>1, RangeOfNoneOrOne
<1> QED
  BY <1>3, <1>4

\* The source hands a frame to the encoder's queue, or gives it up after 100 ms.
LEMMA ToEncoderStep ==
  ASSUME IInv, ToEncoder
  PROVE  IInv'
<1> USE DEF IInv
<1>1. phase \in {"first", "second"} /\ Delivered
  BY DEF ToEncoder, Turn
<1>2. /\ hand[1] \in FrameRecords /\ hand[1] \in Range(hand)
      /\ hand' \in Seq(FrameRecords) /\ Range(hand') \subseteq Range(hand)
      /\ phase' \in {"second", "reading"}
      /\ Len(hand') = (IF phase' \in {"first", "second"} THEN 1 ELSE 0)
  BY <1>1, DeliveredFacts
<1>3. UNCHANGED <<source, conn, nextId, lastPts, inferQueue, encoderVars, infer,
                  pixels, handed>>
  BY DEF ToEncoder
<1>4. /\ encQueue' \in Seq(FrameRecords) /\ Len(encQueue') <= QueueSize
      /\ Range(encQueue') \subseteq Range(encQueue) \cup Range(hand)
  <2>1. CASE encQueue' = encQueue
    BY <2>1 DEF Shape, Limits
  <2>2. CASE Len(encQueue) < QueueSize /\ encQueue' = Append(encQueue, hand[1])
    <3>1. encQueue \in Seq(FrameRecords)
      BY DEF Shape
    <3>2. /\ Append(encQueue, hand[1]) \in Seq(FrameRecords)
          /\ Len(Append(encQueue, hand[1])) = Len(encQueue) + 1
          /\ Range(Append(encQueue, hand[1])) = Range(encQueue) \cup {hand[1]}
      BY <1>2, <3>1, AppendFacts
    <3> QED
      BY <1>2, <2>2, <3>1, <3>2, FrameFlowAssumption
  <2> QED
    BY <2>1, <2>2 DEF ToEncoder
<1>5. Shape' /\ Limits' /\ Newest'
  BY <1>2, <1>3, <1>4 DEF Shape, Limits, Newest, encoderVars
<1>6. Frames' \subseteq Frames
  BY <1>2, <1>3, <1>4, FramesAre DEF encoderVars
<1>7. Recycle
  BY DEF ToEncoder
<1> QED
  BY <1>3, <1>5, <1>6, <1>7, FreeingKeeps, FreeingKeepsPixels

\* A full queue gives up its oldest frame; the newest is the one handed over.
LEMMA PushLatestFacts ==
  ASSUME NEW q \in Seq(FrameRecords), Len(q) <= QueueSize, NEW f \in FrameRecords
  PROVE  /\ PushLatest(q, f) \in Seq(FrameRecords)
         /\ Len(PushLatest(q, f)) <= QueueSize
         /\ PushLatest(q, f)[Len(PushLatest(q, f))] = f
         /\ Range(PushLatest(q, f)) \subseteq Range(q) \cup {f}
<1> DEFINE kept == IF Len(q) < QueueSize THEN q ELSE Tail(q)
<1>1. kept \in Seq(FrameRecords) /\ Len(kept) < QueueSize /\ Range(kept) \subseteq Range(q)
  <2>1. CASE Len(q) < QueueSize
    BY <2>1
  <2>2. CASE ~(Len(q) < QueueSize)
    <3>1. q # <<>>
      BY <2>2, FrameFlowAssumption
    <3>2. /\ Tail(q) \in Seq(FrameRecords) /\ Len(Tail(q)) = Len(q) - 1
          /\ Len(q) \in Nat \ {0} /\ Range(Tail(q)) \subseteq Range(q)
      BY <3>1, TailFacts
    <3> QED
      BY <2>2, <3>2, FrameFlowAssumption
  <2> QED
    BY <2>1, <2>2
<1>2. PushLatest(q, f) = Append(kept, f)
  BY DEF PushLatest
<1> HIDE DEF kept
<1>3. /\ Append(kept, f) \in Seq(FrameRecords) /\ Len(Append(kept, f)) = Len(kept) + 1
      /\ Append(kept, f)[Len(kept) + 1] = f
      /\ Range(Append(kept, f)) = Range(kept) \cup {f}
  BY <1>1, AppendFacts
<1>4. Len(kept) \in Nat
  BY <1>1
<1> QED
  BY <1>1, <1>2, <1>3, <1>4, FrameFlowAssumption

\* ... and to the queue of inference.
LEMMA ToInferenceStep ==
  ASSUME IInv, ToInference
  PROVE  IInv'
<1> USE DEF IInv
<1>1. phase \in {"first", "second"} /\ Delivered
  BY DEF ToInference, Turn
<1>2. /\ hand[1] \in FrameRecords /\ hand[1] \in Range(hand)
      /\ hand' \in Seq(FrameRecords) /\ Range(hand') \subseteq Range(hand)
      /\ phase' \in {"second", "reading"}
      /\ Len(hand') = (IF phase' \in {"first", "second"} THEN 1 ELSE 0)
  BY <1>1, DeliveredFacts
<1>3. UNCHANGED <<source, conn, nextId, lastPts, encQueue, encoderVars, infer, pixels>>
  BY DEF ToInference
<1>4. inferQueue' = PushLatest(inferQueue, hand[1]) /\ handed' = hand[1].id
  BY DEF ToInference
<1>5. inferQueue \in Seq(FrameRecords) /\ Len(inferQueue) <= QueueSize
  BY DEF Shape, Limits
<1>6. /\ inferQueue' \in Seq(FrameRecords) /\ Len(inferQueue') <= QueueSize
      /\ inferQueue'[Len(inferQueue')].id = handed'
      /\ Range(inferQueue') \subseteq Range(inferQueue) \cup {hand[1]}
  BY <1>2, <1>4, <1>5, PushLatestFacts
<1>7. Shape' /\ Limits' /\ Newest'
  BY <1>2, <1>3, <1>6 DEF Shape, Limits, Newest, encoderVars
<1>8. Frames' \subseteq Frames
  BY <1>2, <1>3, <1>6, FramesAre DEF encoderVars
<1>9. Recycle
  BY DEF ToInference
<1> QED
  BY <1>3, <1>7, <1>8, <1>9, FreeingKeeps, FreeingKeepsPixels

-------------------------------------------------------------------------------
\* The steps of the encoder, of the reader of its packets, and of inference.

\* Of a frame, alignment_frames keeps at most Delay frames; the oldest may go on.
LEMMA TakeFrameStep ==
  ASSUME IInv, TakeFrame
  PROVE  IInv'
<1> USE DEF IInv
<1> DEFINE frames == Append(align, encQueue[1])
<1>1. /\ encQueue \in Seq(FrameRecords) /\ encQueue # <<>> /\ align \in Seq(FrameRecords)
      /\ Len(align) <= Delay /\ Len(encQueue) <= QueueSize /\ step = "idle"
  BY DEF TakeFrame, Shape, Limits
<1>2. /\ encQueue[1] \in FrameRecords /\ encQueue[1] \in Range(encQueue)
      /\ Tail(encQueue) \in Seq(FrameRecords) /\ Len(Tail(encQueue)) = Len(encQueue) - 1
      /\ Len(encQueue) \in Nat \ {0}
      /\ Range(Tail(encQueue)) \subseteq Range(encQueue)
  BY <1>1, TailFacts
<1>3. /\ frames \in Seq(FrameRecords) /\ Len(frames) = Len(align) + 1
      /\ Range(frames) = Range(align) \cup {encQueue[1]}
  BY <1>1, <1>2, AppendFacts
<1>4. /\ encQueue' = Tail(encQueue) /\ Recycle
      /\ UNCHANGED <<sourceVars, inferQueue, inside, ready, outQueue, infer,
                     pixels, handed>>
  BY DEF TakeFrame
<1>5. \/ Len(frames) <= Delay /\ align' = frames /\ UNCHANGED <<step, coding>>
      \/ /\ ~(Len(frames) <= Delay)
         /\ align' = Tail(frames) /\ coding' = <<frames[1]>> /\ step' = "draw"
  BY DEF TakeFrame
<1> HIDE DEF frames
<1>6. /\ frames # <<>> /\ Len(frames) \in Nat
  BY <1>1, <1>3
<1>7. /\ frames[1] \in FrameRecords /\ frames[1] \in Range(frames)
      /\ Tail(frames) \in Seq(FrameRecords) /\ Len(Tail(frames)) = Len(frames) - 1
      /\ Range(Tail(frames)) \subseteq Range(frames)
  BY <1>3, <1>6, TailFacts
<1>8. /\ align' \in Seq(FrameRecords) /\ Len(align') <= Delay
      /\ Range(align') \subseteq Range(frames)
  <2>1. CASE Len(frames) <= Delay /\ align' = frames
    BY <1>3, <2>1
  <2>2. CASE align' = Tail(frames)
    <3>1. Len(Tail(frames)) = Len(align) /\ Len(align) \in Nat
      BY <1>1, <1>3, <1>7
    <3> QED
      BY <1>1, <1>7, <2>2, <3>1
  <2> QED
    BY <1>5, <2>1, <2>2
<1>9. CASE UNCHANGED <<step, coding>>
  <2>1. Shape' /\ Limits' /\ Newest'
    BY <1>1, <1>2, <1>4, <1>8, <1>9, FrameFlowAssumption
    DEF Shape, Limits, Newest, sourceVars
  <2>2. Frames' \subseteq Frames
    BY <1>2, <1>3, <1>4, <1>8, <1>9, FramesAre DEF sourceVars
  <2> QED
    BY <1>4, <2>1, <2>2, FreeingKeeps, FreeingKeepsPixels DEF sourceVars
<1>10. CASE coding' = <<frames[1]>> /\ step' = "draw"
  <2>1. /\ coding' \in Seq(FrameRecords) /\ Len(coding') = 1
        /\ Range(coding') \subseteq Range(frames)
    BY <1>7, <1>10, RangeOfNoneOrOne
  <2>2. Shape' /\ Limits' /\ Newest'
    BY <1>1, <1>2, <1>4, <1>8, <1>10, <2>1, FrameFlowAssumption
    DEF Shape, Limits, Newest, sourceVars
  <2>3. Frames' \subseteq Frames
    BY <1>2, <1>3, <1>4, <1>8, <2>1, FramesAre DEF sourceVars
  <2> QED
    BY <1>4, <2>2, <2>3, FreeingKeeps, FreeingKeepsPixels DEF sourceVars
<1> QED
  BY <1>5, <1>9, <1>10

\* Only a DRM frame is drawn into; of it PixelsKept asks no clean pixels.
LEMMA DrawStep ==
  ASSUME IInv, Draw
  PROVE  IInv'
<1> USE DEF IInv
<1>1. /\ UNCHANGED <<sourceVars, encQueue, inferQueue, align, inside, ready,
                     outQueue, infer, handed>>
      /\ Recycle /\ step = "draw"
  BY DEF Draw
<1>2. CASE coding' = <<>> /\ step' = "idle" /\ UNCHANGED pixels
  <2>1. Shape' /\ Limits' /\ Newest'
    BY <1>1, <1>2 DEF Shape, Limits, Newest, sourceVars
  <2>2. Frames' \subseteq Frames
    BY <1>1, <1>2, FramesAre, RangeOfNoneOrOne DEF sourceVars
  <2> QED
    BY <1>1, <1>2, <2>1, <2>2, FreeingKeeps, FreeingKeepsPixels DEF sourceVars
<1>3. CASE /\ UNCHANGED coding /\ step' = "put"
           /\ \/ UNCHANGED pixels
              \/ source = "drm" /\ pixels' = [pixels EXCEPT ![coding[1].buf].drawn = TRUE]
  <2>1. /\ coding \in Seq(FrameRecords) /\ Len(coding) = 1
    BY <1>1 DEF Shape, Limits
  <2>2. coding[1].buf \in Buffers
    <3>1. coding[1] \in FrameRecords
      BY <2>1
    <3> QED
      BY <3>1 DEF FrameRecords
  <2>3. /\ pixels' \in [Buffers -> [of : Nat, drawn : BOOLEAN]]
        /\ \A b \in Buffers : pixels'[b].of = pixels[b].of
    <3> DEFINE B == [of : Nat, drawn : BOOLEAN]
               d == coding[1].buf
    <3>1. pixels \in [Buffers -> B] /\ d \in Buffers
      BY <2>2 DEF Shape
    <3>2. CASE UNCHANGED pixels
      BY <3>1, <3>2
    <3>3. CASE pixels' = [pixels EXCEPT ![d] = [pixels[d] EXCEPT !.drawn = TRUE]]
      <4>1. pixels[d] \in B
        BY <3>1
      <4>2. /\ [pixels[d] EXCEPT !.drawn = TRUE] \in B
            /\ [pixels[d] EXCEPT !.drawn = TRUE].of = pixels[d].of
        BY <4>1
      <4> QED
        BY <3>1, <3>3, <4>2
    <3> QED
      BY <1>3, <3>2, <3>3
  <2>4. Shape' /\ Limits' /\ Newest'
    BY <1>1, <1>3, <2>1, <2>3 DEF Shape, Limits, Newest, sourceVars
  <2>5. Frames' = Frames
    BY <1>1, <1>3, FramesAre DEF sourceVars
  <2>6. PixelsKept'
    <3>1. \A g \in Frames : g.buf \in Buffers
      BY FramesAreRecords DEF FrameRecords
    <3>2. source # "drm" => pixels' = pixels
      BY <1>3
    <3> QED
      BY <1>1, <2>3, <2>5, <3>1, <3>2 DEF PixelsKept, sourceVars
  <2> QED
    BY <1>1, <2>4, <2>5, <2>6, FreeingKeeps
<1> QED
  BY <1>2, <1>3 DEF Draw

\* The codec takes the frame at work or refuses it.
LEMMA PutStep ==
  ASSUME IInv, Put
  PROVE  IInv'
<1> USE DEF IInv
<1>1. /\ UNCHANGED <<sourceVars, encQueue, inferQueue, align, outQueue, infer,
                     pixels, handed>>
      /\ Recycle /\ step = "put"
  BY DEF Put
<1>2. coding \in Seq(FrameRecords) /\ Len(coding) = 1 /\ inside \in Seq(FrameRecords)
  BY <1>1 DEF Shape, Limits
<1>3. CASE coding' = <<>> /\ step' = "idle" /\ UNCHANGED <<inside, ready>>
  <2>1. Shape' /\ Limits' /\ Newest'
    BY <1>1, <1>3 DEF Shape, Limits, Newest, sourceVars
  <2>2. Frames' \subseteq Frames
    BY <1>1, <1>3, FramesAre, RangeOfNoneOrOne DEF sourceVars
  <2> QED
    BY <1>1, <2>1, <2>2, FreeingKeeps, FreeingKeepsPixels DEF sourceVars
<1>4. CASE /\ inside' = Append(inside, coding[1]) /\ ready' \in 0 .. Len(inside')
           /\ step' = "get" /\ UNCHANGED coding
  <2>1. coding[1] \in FrameRecords
    BY <1>2
  <2>2. inside' \in Seq(FrameRecords) /\ Len(inside') \in Nat
    BY <1>2, <1>4, <2>1
  <2>3. ready' \in Nat /\ ready' <= Len(inside')
    BY <1>4, <2>2
  <2>4. Shape' /\ Limits' /\ Newest'
    BY <1>1, <1>2, <1>4, <2>2, <2>3 DEF Shape, Limits, Newest, sourceVars
  <2>5. Frames' = Frames
    BY <1>1, <1>4, FramesAre DEF sourceVars
  <2> QED
    BY <1>1, <2>4, <2>5, FreeingKeeps, FreeingKeepsPixels DEF sourceVars
<1> QED
  BY <1>3, <1>4 DEF Put

\* A packet of the codec enters the queue or is lost.
LEMMA GetPacketStep ==
  ASSUME IInv, GetPacket
  PROVE  IInv'
<1> USE DEF IInv
<1>1. /\ UNCHANGED <<sourceVars, encQueue, inferQueue, align, step, coding, infer,
                     pixels, handed>>
      /\ Recycle /\ ready > 0 /\ ready' = ready - 1 /\ inside' = Tail(inside)
  BY DEF GetPacket
<1>2. /\ inside \in Seq(FrameRecords) /\ outQueue \in Seq(FrameRecords)
      /\ ready \in Nat /\ ready <= Len(inside)
  BY DEF Shape, Limits
<1>3. inside # <<>>
  BY <1>1, <1>2
<1>4. /\ inside[1] \in FrameRecords /\ Tail(inside) \in Seq(FrameRecords)
      /\ Len(Tail(inside)) = Len(inside) - 1
  BY <1>2, <1>3, TailFacts
<1>5. ready' \in Nat /\ ready' <= Len(inside')
  BY <1>1, <1>2, <1>4
<1>6. outQueue' \in Seq(FrameRecords) /\ Len(outQueue') <= OutSize
  <2>1. CASE outQueue' = outQueue
    BY <1>2, <2>1 DEF Limits
  <2>2. CASE outQueue' = Append(outQueue, inside[1]) /\ Len(outQueue) < OutSize
    BY <1>2, <1>4, <2>2, FrameFlowAssumption
  <2> QED
    BY <2>1, <2>2 DEF GetPacket
<1>7. Shape' /\ Limits' /\ Newest'
  BY <1>1, <1>4, <1>5, <1>6 DEF Shape, Limits, Newest, sourceVars
<1>8. Frames' = Frames
  BY <1>1, FramesAre DEF sourceVars
<1> QED
  BY <1>1, <1>7, <1>8, FreeingKeeps, FreeingKeepsPixels DEF sourceVars

\* The encoder lets go of the frame at work.
LEMMA EncodedStep ==
  ASSUME IInv, Encoded
  PROVE  IInv'
<1> USE DEF IInv
<1>1. /\ UNCHANGED <<sourceVars, encQueue, inferQueue, align, inside, ready,
                     outQueue, infer, pixels, handed>>
      /\ Recycle /\ coding' = <<>> /\ step' = "idle"
  BY DEF Encoded
<1>2. Shape' /\ Limits' /\ Newest'
  BY <1>1 DEF Shape, Limits, Newest, sourceVars
<1>3. Frames' \subseteq Frames
  BY <1>1, FramesAre, RangeOfNoneOrOne DEF sourceVars
<1> QED
  BY <1>1, <1>2, <1>3, FreeingKeeps, FreeingKeepsPixels DEF sourceVars

\* A packet leaves.
LEMMA StreamStep ==
  ASSUME IInv, Stream
  PROVE  IInv'
<1> USE DEF IInv
<1>1. /\ UNCHANGED <<sourceVars, encQueue, inferQueue, align, step, coding, inside,
                     ready, infer, pixels, handed>>
      /\ Recycle /\ outQueue # <<>> /\ outQueue' = Tail(outQueue)
  BY DEF Stream
<1>2. outQueue \in Seq(FrameRecords) /\ Len(outQueue) <= OutSize
  BY DEF Shape, Limits
<1>3. outQueue' \in Seq(FrameRecords) /\ Len(outQueue') <= OutSize
  BY <1>1, <1>2, TailFacts, FrameFlowAssumption
<1>4. Shape' /\ Limits' /\ Newest'
  BY <1>1, <1>3 DEF Shape, Limits, Newest, sourceVars
<1>5. Frames' = Frames
  BY <1>1, FramesAre DEF sourceVars
<1> QED
  BY <1>1, <1>4, <1>5, FreeingKeeps, FreeingKeepsPixels DEF sourceVars

\* Inference that has emptied its queue has taken the frame handed over last.
LEMMA InferTakesStep ==
  ASSUME IInv, InferTakes
  PROVE  IInv' /\ (inferQueue' = <<>> => infer'[1].id = handed)
<1> USE DEF IInv
<1>1. /\ UNCHANGED <<sourceVars, encQueue, encoderVars, pixels, handed>>
      /\ Recycle /\ inferQueue # <<>> /\ inferQueue' = Tail(inferQueue)
      /\ infer' = <<inferQueue[1]>>
  BY DEF InferTakes
<1>2. inferQueue \in Seq(FrameRecords) /\ Len(inferQueue) <= QueueSize
  BY DEF Shape, Limits
<1>3. /\ inferQueue[1] \in FrameRecords /\ inferQueue[1] \in Range(inferQueue)
      /\ Tail(inferQueue) \in Seq(FrameRecords) /\ Len(inferQueue) \in Nat \ {0}
      /\ Len(Tail(inferQueue)) = Len(inferQueue) - 1
      /\ Range(Tail(inferQueue)) \subseteq Range(inferQueue)
      /\ \A i \in 1 .. Len(inferQueue) - 1 : Tail(inferQueue)[i] = inferQueue[i + 1]
  BY <1>1, <1>2, TailFacts
<1>4. infer' \in Seq(FrameRecords) /\ Range(infer') = {inferQueue[1]}
  BY <1>1, <1>3, RangeOfNoneOrOne
<1>5. inferQueue[Len(inferQueue)].id = handed
  BY <1>1 DEF Newest
<1>6. Newest'
  <2> SUFFICES ASSUME inferQueue' # <<>> PROVE inferQueue'[Len(inferQueue')].id = handed
    BY <1>1 DEF Newest
  <2>1. Len(inferQueue') \in 1 .. Len(inferQueue) - 1
    BY <1>1, <1>3
  <2> QED
    BY <1>1, <1>3, <1>5, <2>1
<1>7. inferQueue' = <<>> => infer'[1].id = handed
  <2> SUFFICES ASSUME inferQueue' = <<>> PROVE infer'[1].id = handed
    OBVIOUS
  <2>1. Len(inferQueue) = 1
    BY <1>1, <1>2, TailIsEmpty
  <2>2. inferQueue[1].id = handed
    BY <1>5, <2>1
  <2>3. infer'[1] = inferQueue[1]
    BY <1>1
  <2> QED
    BY <2>2, <2>3
<1>8. Shape' /\ Limits'
  BY SMTT(20), <1>1, <1>2, <1>3, <1>4, FrameFlowAssumption DEF Shape, Limits, sourceVars, encoderVars
<1>9. Frames' \subseteq Frames
  BY <1>1, <1>3, <1>4, FramesAre DEF sourceVars, encoderVars
<1> QED
  BY <1>1, <1>6, <1>7, <1>8, <1>9, FreeingKeeps, FreeingKeepsPixels DEF sourceVars

\* Inference lets go of its frame.
LEMMA InferDoneStep ==
  ASSUME IInv, InferDone
  PROVE  IInv'
<1> USE DEF IInv
<1>1. /\ UNCHANGED <<sourceVars, encQueue, inferQueue, encoderVars, pixels, handed>>
      /\ Recycle /\ infer' = <<>>
  BY DEF InferDone
<1>2. Shape' /\ Limits' /\ Newest'
  BY <1>1 DEF Shape, Limits, Newest, sourceVars, encoderVars
<1>3. Frames' \subseteq Frames
  BY <1>1, FramesAre, RangeOfNoneOrOne DEF sourceVars, encoderVars
<1> QED
  BY <1>1, <1>2, <1>3, FreeingKeeps, FreeingKeepsPixels DEF sourceVars

-------------------------------------------------------------------------------
\* Every step keeps the invariant.
LEMMA Steps == IInv /\ [Next]_vars => IInv'
<1> SUFFICES ASSUME IInv, [Next]_vars PROVE IInv'
  OBVIOUS
<1>1. CASE Next
  BY <1>1, ConnectionStep, DecodeStep, ToEncoderStep, ToInferenceStep, TakeFrameStep,
     DrawStep, PutStep, GetPacketStep, EncodedStep, StreamStep, InferTakesStep,
     InferDoneStep
  DEF Next, Source, Encoder
<1>2. CASE UNCHANGED vars
  <2>1. /\ UNCHANGED <<bufferVars, source>>
        /\ UNCHANGED <<hand, encQueue, align, coding, inferQueue, infer>>
    BY <1>2 DEF vars, sourceVars, encoderVars
  <2>2. Shape' /\ Limits' /\ Newest'
    BY <1>2 DEF vars, sourceVars, encoderVars, bufferVars, IInv, Shape, Limits, Newest
  <2> QED
    BY <2>1, <2>2, IdleKeeps DEF IInv
<1> QED
  BY <1>1, <1>2

\* So it always holds.
LEMMA InvariantHolds == Spec => []IInv
BY InitIInv, Steps, PTL DEF Spec

\* The queues, the alignment and the pool stay within their limits, and the
\* threads hold the frames their loops say (PullStreamThread.cpp, EncodeThread.cpp,
\* FrameBufferPool.hpp).
THEOREM FlowTypeCorrect == Spec => []TypeOK
<1>1. IInv => TypeOK
  BY DEF IInv, Limits, PoolApart, TypeOK
<1> QED
  BY <1>1, InvariantHolds, PTL

\* However long frames are held, wherever they are dropped: a buffer that a frame
\* refers to is neither filled for another frame nor in the pool
\* (FrameBufferPool.hpp, Frame.hpp).
THEOREM PixelsAreKept == Spec => []FramesKeepTheirPixels
<1>1. IInv => FramesKeepTheirPixels
  BY DEF IInv, PoolApart, PixelsKept, FramesKeepTheirPixels
<1> QED
  BY <1>1, InvariantHolds, PTL

\* Inference that has emptied its queue works on the newest frame it was given
\* (push_latest of BlockingQueue.hpp, the loop of InferThread.cpp).
THEOREM FreshestProved == Spec => FreshestIsInferred
<1>1. IInv /\ [Next]_vars =>
        [infer' # infer /\ infer' # <<>> /\ inferQueue' = <<>>
           => infer'[1].id = handed]_vars
  <2> SUFFICES ASSUME IInv, Next, infer' # infer, infer' # <<>>, inferQueue' = <<>>
               PROVE  infer'[1].id = handed
    OBVIOUS
  <2>1. InferTakes
    BY DEF Next, Source, Encoder, Connect, GiveUp, ReadFails, Decode, ToEncoder,
           ToInference, TakeFrame, Draw, Put, GetPacket, Encoded, Stream, InferDone
  <2> QED
    BY <2>1, InferTakesStep
<1> QED
  BY <1>1, InvariantHolds, PTL DEF Spec, FreshestIsInferred

-------------------------------------------------------------------------------
(***************************************************************************)
(* The order of the frames.  The line from the packets back to the source  *)
(* has six parts; each is in order, and ahead of all parts behind it.  New *)
(* frames come last, since their number is new and their time repaired.    *)
(***************************************************************************)
Before(f, g) == f.id < g.id /\ (f.conn = g.conn => f.pts < g.pts)
InOrder(s) == \A i, j \in DOMAIN s : i < j => Before(s[i], s[j])
Ahead(S, T) == \A f \in S, g \in T : Before(f, g)

Coded == IF step = "get" THEN <<>> ELSE coding
AtSource == IF Turn("enc") \/ phase = "first" THEN hand ELSE <<>>

BehindQueue == Range(AtSource)
BehindAlign == Range(encQueue) \cup BehindQueue
BehindCoded == Range(align) \cup BehindAlign
BehindInside == Range(Coded) \cup BehindCoded
BehindOut == Range(inside) \cup BehindInside
Line == Range(outQueue) \cup BehindOut

Sorted ==
  /\ InOrder(outQueue) /\ InOrder(inside) /\ InOrder(align) /\ InOrder(encQueue)
  /\ Ahead(Range(outQueue), BehindOut)
  /\ Ahead(Range(inside), BehindInside)
  /\ Ahead(Range(Coded), BehindCoded)
  /\ Ahead(Range(align), BehindAlign)
  /\ Ahead(Range(encQueue), BehindQueue)

Numbered ==
  \A f \in Line :
    /\ f.id < nextId
    /\ f.conn <= conn
    /\ f.conn = conn => f.pts <= lastPts

OrderInv == IInv /\ Sorted /\ Numbered /\ NoTime <= lastPts

\* What follows the first one of an ordered list is behind it.
LEMMA TailInOrder ==
  ASSUME NEW S, NEW s \in Seq(S), s # <<>>, InOrder(s)
  PROVE  InOrder(Tail(s)) /\ Ahead({s[1]}, Range(Tail(s)))
<1>1. /\ Len(Tail(s)) = Len(s) - 1 /\ Len(s) \in Nat \ {0}
      /\ \A i \in 1 .. Len(s) - 1 : Tail(s)[i] = s[i + 1]
      /\ Tail(s) \in Seq(S)
  BY TailFacts
<1>2. DOMAIN Tail(s) = 1 .. Len(s) - 1 /\ DOMAIN s = 1 .. Len(s)
  BY <1>1
<1>3. \A i \in 1 .. Len(s) - 1 : i + 1 \in 1 .. Len(s) /\ 1 < i + 1
  BY <1>1
<1>4. InOrder(Tail(s))
  <2> SUFFICES ASSUME NEW i \in 1 .. Len(s) - 1, NEW j \in 1 .. Len(s) - 1, i < j
               PROVE  Before(Tail(s)[i], Tail(s)[j])
    BY <1>2 DEF InOrder
  <2>1. Before(s[i + 1], s[j + 1])
    BY <1>2, <1>3 DEF InOrder
  <2> QED
    BY <1>1, <2>1
<1>5. Ahead({s[1]}, Range(Tail(s)))
  <2> SUFFICES ASSUME NEW i \in 1 .. Len(s) - 1 PROVE Before(s[1], Tail(s)[i])
    BY <1>2 DEF Ahead, Range
  <2>1. Before(s[1], s[i + 1])
    BY <1>1, <1>2, <1>3 DEF InOrder
  <2> QED
    BY <1>1, <2>1
<1> QED
  BY <1>4, <1>5

\* A list stays ordered when what comes is behind all of it.
LEMMA AppendInOrder ==
  ASSUME NEW S, NEW s \in Seq(S), InOrder(s), NEW e \in S, Ahead(Range(s), {e})
  PROVE  InOrder(Append(s, e))
<1>1. /\ Len(s) \in Nat /\ DOMAIN s = 1 .. Len(s)
      /\ DOMAIN Append(s, e) = 1 .. Len(s) + 1
      /\ Append(s, e)[Len(s) + 1] = e
      /\ \A i \in 1 .. Len(s) : Append(s, e)[i] = s[i]
  OBVIOUS
<1>2. \A i \in 1 .. Len(s) : Before(s[i], e)
  BY <1>1 DEF Ahead, Range
<1> SUFFICES ASSUME NEW i \in 1 .. Len(s) + 1, NEW j \in 1 .. Len(s) + 1, i < j
             PROVE  Before(Append(s, e)[i], Append(s, e)[j])
  BY <1>1 DEF InOrder
<1>3. i \in 1 .. Len(s)
  BY <1>1
<1>4. CASE j = Len(s) + 1
  BY <1>1, <1>2, <1>3, <1>4
<1>5. CASE j \in 1 .. Len(s)
  BY <1>1, <1>3, <1>5 DEF InOrder
<1> QED
  BY <1>1, <1>4, <1>5

\* Two ordered lists, one behind the other, are one.
LEMMA ConcatInOrder ==
  ASSUME NEW S, NEW s \in Seq(S), NEW t \in Seq(S), InOrder(s), InOrder(t),
         Ahead(Range(s), Range(t))
  PROVE  /\ s \o t \in Seq(S) /\ InOrder(s \o t)
         /\ Range(s \o t) = Range(s) \cup Range(t)
<1> DEFINE u == s \o t
<1>1. /\ Len(s) \in Nat /\ DOMAIN s = 1 .. Len(s)
      /\ Len(t) \in Nat /\ DOMAIN t = 1 .. Len(t)
      /\ u \in Seq(S) /\ Len(u) = Len(s) + Len(t)
  OBVIOUS
<1>2. /\ DOMAIN u = 1 .. Len(s) + Len(t)
      /\ \A i \in 1 .. Len(s) : u[i] = s[i]
      /\ \A i \in Len(s) + 1 .. Len(s) + Len(t) : u[i] = t[i - Len(s)]
  BY <1>1
<1> HIDE DEF u
<1>3. \A i \in Len(s) + 1 .. Len(s) + Len(t) : i - Len(s) \in 1 .. Len(t)
  BY <1>1
<1>4. \A i \in 1 .. Len(t) : i + Len(s) \in DOMAIN u /\ u[i + Len(s)] = t[i]
  BY SMTT(20), <1>1, <1>2
<1>5. Range(u) \subseteq Range(s) \cup Range(t)
  <2> SUFFICES ASSUME NEW i \in DOMAIN u PROVE u[i] \in Range(s) \cup Range(t)
    BY DEF Range
  <2>1. CASE i \in 1 .. Len(s)
    BY <1>1, <1>2, <2>1 DEF Range
  <2>2. CASE i \in Len(s) + 1 .. Len(s) + Len(t)
    BY <1>1, <1>2, <1>3, <2>2 DEF Range
  <2> QED
    BY <1>1, <1>2, <2>1, <2>2
<1>6. Range(s) \cup Range(t) \subseteq Range(u)
  <2>1. \A i \in 1 .. Len(s) : i \in DOMAIN u /\ u[i] = s[i]
    BY <1>1, <1>2
  <2>2. Range(s) \subseteq Range(u)
    BY <1>1, <2>1 DEF Range
  <2>3. Range(t) \subseteq Range(u)
    BY <1>1, <1>4 DEF Range
  <2> QED
    BY <2>2, <2>3
<1>7. InOrder(u)
  <2> SUFFICES ASSUME NEW i \in DOMAIN u, NEW j \in DOMAIN u, i < j
               PROVE  Before(u[i], u[j])
    BY DEF InOrder
  <2>1. CASE i \in 1 .. Len(s) /\ j \in 1 .. Len(s)
    BY <1>1, <1>2, <2>1 DEF InOrder
  <2>2. CASE i \in 1 .. Len(s) /\ j \in Len(s) + 1 .. Len(s) + Len(t)
    <3>1. u[i] \in Range(s) /\ u[j] \in Range(t)
      BY <1>1, <1>2, <1>3, <2>2 DEF Range
    <3> QED
      BY <3>1 DEF Ahead
  <2>3. CASE i \in Len(s) + 1 .. Len(s) + Len(t) /\ j \in Len(s) + 1 .. Len(s) + Len(t)
    <3>1. i - Len(s) < j - Len(s)
      BY <1>1, <2>3
    <3>2. i - Len(s) \in DOMAIN t /\ j - Len(s) \in DOMAIN t
      BY <1>1, <1>3, <2>3
    <3> QED
      BY <1>2, <2>3, <3>1, <3>2 DEF InOrder
  <2> QED
    BY <1>1, <1>2, <2>1, <2>2, <2>3
<1> QED
  BY <1>1, <1>5, <1>6, <1>7 DEF u

\* Parts of what is ahead are ahead of parts of the rest.
LEMMA SmallerSets ==
  ASSUME NEW A, NEW B, NEW C, NEW D, Ahead(A, B), C \subseteq A, D \subseteq B
  PROVE  Ahead(C, D)
BY DEF Ahead

\* Two parts that are ahead are so together.
LEMMA BothAhead ==
  ASSUME NEW A, NEW B, NEW T, NEW U, Ahead(A, T), Ahead(B, U), U \subseteq T
  PROVE  Ahead(A \cup B, U)
BY DEF Ahead

\* Six ordered parts, each behind those before it, are the ordered line.
LEMMA LineInOrder ==
  ASSUME IInv, Sorted
  PROVE  FramesInOrder
<1> DEFINE S == FrameRecords
           p1 == outQueue \o inside
           p2 == p1 \o Coded
           p3 == p2 \o align
           p4 == p3 \o encQueue
           p5 == p4 \o AtSource
<1>1. /\ outQueue \in Seq(S) /\ inside \in Seq(S) /\ coding \in Seq(S)
      /\ align \in Seq(S) /\ encQueue \in Seq(S) /\ hand \in Seq(S)
  BY DEF IInv, Shape
<1>2. Len(coding) <= 1 /\ Len(hand) <= 1
  BY DEF IInv, Limits
<1>3. /\ Coded \in Seq(S) /\ AtSource \in Seq(S)
      /\ InOrder(Coded) /\ InOrder(AtSource)
  <2>1. Coded \in Seq(S) /\ AtSource \in Seq(S)
    BY <1>1 DEF Coded, AtSource
  <2>2. Len(Coded) <= 1 /\ Len(AtSource) <= 1
    BY <1>2 DEF Coded, AtSource
  <2>3. ASSUME NEW s \in Seq(S), Len(s) <= 1 PROVE InOrder(s)
    BY <2>3 DEF InOrder
  <2> QED
    BY <2>1, <2>2, <2>3
<1>4. /\ BehindInside \subseteq BehindOut /\ BehindCoded \subseteq BehindInside
      /\ BehindAlign \subseteq BehindCoded /\ BehindQueue \subseteq BehindAlign
      /\ Range(inside) \subseteq BehindOut /\ Range(Coded) \subseteq BehindInside
      /\ Range(align) \subseteq BehindCoded /\ Range(encQueue) \subseteq BehindAlign
  BY DEF BehindOut, BehindInside, BehindCoded, BehindAlign
<1>5. /\ p1 \in Seq(S) /\ InOrder(p1) /\ Ahead(Range(p1), BehindInside)
  <2>1. Ahead(Range(outQueue), Range(inside))
    BY <1>4, SmallerSets DEF Sorted
  <2>2. p1 \in Seq(S) /\ InOrder(p1) /\ Range(p1) = Range(outQueue) \cup Range(inside)
    BY <1>1, <2>1, ConcatInOrder DEF Sorted
  <2> QED
    BY <1>4, <2>2, BothAhead DEF Sorted
<1> HIDE DEF p1
<1>6. /\ p2 \in Seq(S) /\ InOrder(p2) /\ Ahead(Range(p2), BehindCoded)
  <2>1. Ahead(Range(p1), Range(Coded))
    BY <1>4, <1>5, SmallerSets
  <2>2. p2 \in Seq(S) /\ InOrder(p2) /\ Range(p2) = Range(p1) \cup Range(Coded)
    BY <1>3, <1>5, <2>1, ConcatInOrder
  <2> QED
    BY <1>4, <1>5, <2>2, BothAhead DEF Sorted
<1> HIDE DEF p2
<1>7. /\ p3 \in Seq(S) /\ InOrder(p3) /\ Ahead(Range(p3), BehindAlign)
  <2>1. Ahead(Range(p2), Range(align))
    BY <1>4, <1>6, SmallerSets
  <2>2. p3 \in Seq(S) /\ InOrder(p3) /\ Range(p3) = Range(p2) \cup Range(align)
    BY <1>1, <1>6, <2>1, ConcatInOrder DEF Sorted
  <2> QED
    BY <1>4, <1>6, <2>2, BothAhead DEF Sorted
<1> HIDE DEF p3
<1>8. InOrder(p5)
  <2>1. Ahead(Range(p3), Range(encQueue))
    BY <1>4, <1>7, SmallerSets
  <2>2. p4 \in Seq(S) /\ InOrder(p4) /\ Range(p4) = Range(p3) \cup Range(encQueue)
    BY <1>1, <1>7, <2>1, ConcatInOrder DEF Sorted
  <2>3. Ahead(Range(p4), Range(AtSource))
    BY <1>4, <1>7, <2>2, BothAhead DEF Sorted, BehindQueue
  <2> HIDE DEF p4
  <2> QED
    BY <1>3, <2>2, <2>3, ConcatInOrder
<1>9. p5 = outQueue \o inside \o Coded \o align \o encQueue \o AtSource
  BY DEF p1, p2, p3, p4
<1> HIDE DEF p5
<1> QED
  BY <1>8, <1>9 DEF FramesInOrder, InOrder, Before, Coded, AtSource

\* A step that leaves every part as it is or takes frames out of it.
LEMMA TakingOutKeeps ==
  ASSUME Sorted, Numbered, NoTime <= lastPts,
         InOrder(outQueue)', InOrder(inside)', InOrder(align)', InOrder(encQueue)',
         (Range(outQueue))' \subseteq Range(outQueue),
         (Range(inside))' \subseteq Range(inside),
         (Range(Coded))' \subseteq Range(Coded),
         (Range(align))' \subseteq Range(align),
         (Range(encQueue))' \subseteq Range(encQueue),
         (Range(AtSource))' \subseteq Range(AtSource),
         UNCHANGED <<conn, nextId, lastPts>>
  PROVE  Sorted' /\ Numbered' /\ NoTime <= lastPts'
<1>1. /\ BehindQueue' \subseteq BehindQueue /\ BehindAlign' \subseteq BehindAlign
      /\ BehindCoded' \subseteq BehindCoded /\ BehindInside' \subseteq BehindInside
      /\ BehindOut' \subseteq BehindOut /\ Line' \subseteq Line
  BY DEF BehindQueue, BehindAlign, BehindCoded, BehindInside, BehindOut, Line
<1>2. Sorted'
  BY <1>1, SmallerSets DEF Sorted
<1>3. Numbered'
  BY <1>1 DEF Numbered
<1> QED
  BY <1>2, <1>3

\* A new connection starts behind the frames of the one before.
LEMMA ConnectInOrder ==
  ASSUME OrderInv, Connect \/ GiveUp \/ ReadFails
  PROVE  Sorted' /\ Numbered' /\ NoTime <= lastPts'
<1> USE DEF OrderInv, IInv
<1>1. /\ UNCHANGED <<hand, encQueue, align, coding, step, inside, outQueue, nextId>>
      /\ phase \notin {"first", "second"}
  BY DEF Connect, GiveUp, ReadFails, encoderVars
<1>2. hand = <<>>
  BY <1>1 DEF Shape, Limits
<1>3. AtSource = <<>> /\ AtSource' = <<>> /\ Coded' = Coded
  BY <1>1, <1>2 DEF AtSource, Coded
<1>4. Sorted'
  BY <1>1, <1>3
  DEF Sorted, BehindQueue, BehindAlign, BehindCoded, BehindInside, BehindOut
<1>5. Line' = Line
  BY <1>1, <1>3
  DEF Line, BehindQueue, BehindAlign, BehindCoded, BehindInside, BehindOut
<1>6. Line \subseteq FrameRecords /\ conn \in Nat
  <2>1. AtSource \in Seq(FrameRecords) /\ Coded \in Seq(FrameRecords)
    BY DEF AtSource, Coded, Shape
  <2> QED
    BY <2>1, RangeInRecords
    DEF Shape, Line, BehindQueue, BehindAlign, BehindCoded, BehindInside, BehindOut
<1>7. \/ conn' = conn /\ lastPts' = lastPts
      \/ conn' = conn + 1 /\ lastPts' = NoTime
  BY DEF Connect, GiveUp, ReadFails
<1>8. Numbered'
  BY <1>1, <1>5, <1>6, <1>7 DEF Numbered, FrameRecords
<1> QED
  BY <1>4, <1>7, <1>8 DEF NoTime

\* Times of a connection grow, whatever the decoder reports.
LEMMA StampedGrows ==
  ASSUME Shape, NoTime <= lastPts, NEW media \in MediaTimes \cup {NoTime}
  PROVE  lastPts < Stamped(media)
BY FrameFlowAssumption DEF Stamped, RepairedPts, Shape, NoTime

\* A decoded frame is behind all others, whatever its timestamp was.
LEMMA DecodeInOrder ==
  ASSUME OrderInv, NEW media \in MediaTimes \cup {NoTime}, Decode(media)
  PROVE  Sorted' /\ Numbered' /\ NoTime <= lastPts'
<1> USE DEF OrderInv, IInv
<1>1. /\ UNCHANGED <<encQueue, align, coding, step, inside, outQueue, conn, source>>
      /\ phase = "reading" /\ hand = <<>> /\ nextId' = nextId + 1
      /\ lastPts' = Stamped(media)
  BY DEF Decode, encoderVars, Limits, Shape
<1>2. lastPts < lastPts' /\ lastPts' \in Int /\ lastPts \in Int /\ nextId \in Nat /\ conn \in Nat
  BY <1>1, StampedGrows, RepairedPtsType DEF Shape
<1>3. AtSource = <<>> /\ Coded' = Coded /\ BehindQueue = {}
  BY <1>1, RangeOfNoneOrOne DEF AtSource, Coded, BehindQueue
<1>4. Line \subseteq FrameRecords
  <2>1. AtSource \in Seq(FrameRecords) /\ Coded \in Seq(FrameRecords)
    BY DEF AtSource, Coded, Shape
  <2> QED
    BY <2>1, RangeInRecords
    DEF Shape, Line, BehindQueue, BehindAlign, BehindCoded, BehindInside, BehindOut
<1>5. \A f \in Line : f.id < nextId' /\ f.conn <= conn' /\ (f.conn = conn' => f.pts <= lastPts')
  BY <1>1, <1>2, <1>4 DEF Numbered, FrameRecords
<1>6. CASE hand' = hand
  <2>1. AtSource' = <<>>
    BY <1>1, <1>6 DEF AtSource
  <2>2. Sorted' /\ Line' = Line
    BY <1>1, <1>3, <2>1
    DEF Sorted, Line, BehindQueue, BehindAlign, BehindCoded, BehindInside, BehindOut
  <2> QED
    BY <1>2, <1>5, <2>2 DEF Numbered, NoTime
<1>7. CASE hand' # hand
  <2> DEFINE f == [id |-> nextId, conn |-> conn, pts |-> lastPts', buf |-> Acquired]
  <2>1. hand' = <<f>> /\ phase' = "first"
    BY <1>7 DEF Decode
  <2>2. f.id = nextId /\ f.conn = conn /\ f.pts = lastPts'
    OBVIOUS
  <2> HIDE DEF f
  <2>3. BehindQueue' = {f}
    BY <2>1, RangeOfNoneOrOne DEF AtSource, BehindQueue
  <2>4. \A g \in Line : Before(g, f)
    BY <1>2, <1>4, <2>2 DEF Numbered, Before, FrameRecords
  <2>5. /\ BehindAlign' = BehindAlign \cup {f} /\ BehindCoded' = BehindCoded \cup {f}
        /\ BehindInside' = BehindInside \cup {f} /\ BehindOut' = BehindOut \cup {f}
        /\ Line' = Line \cup {f}
    BY <1>1, <1>3, <2>3
    DEF Line, BehindAlign, BehindCoded, BehindInside, BehindOut
  <2>6. /\ Range(outQueue) \subseteq Line /\ Range(inside) \subseteq Line
        /\ Range(Coded) \subseteq Line /\ Range(align) \subseteq Line
        /\ Range(encQueue) \subseteq Line
    BY DEF Line, BehindAlign, BehindCoded, BehindInside, BehindOut
  <2>7. Sorted'
    BY <1>1, <1>3, <2>3, <2>4, <2>5, <2>6 DEF Sorted, Ahead
  <2>8. Numbered'
    BY <1>1, <1>2, <1>5, <2>2, <2>5 DEF Numbered
  <2> QED
    BY <1>2, <2>7, <2>8 DEF NoTime
<1> QED
  BY <1>6, <1>7

\* The frame at the source goes to the end of enc_queue, or nowhere.
LEMMA ToEncoderInOrder ==
  ASSUME OrderInv, ToEncoder
  PROVE  Sorted' /\ Numbered' /\ NoTime <= lastPts'
<1> USE DEF OrderInv, IInv
<1>1. /\ UNCHANGED <<source, align, coding, step, inside, outQueue, conn, nextId, lastPts>>
      /\ Turn("enc") /\ Delivered /\ phase \in {"first", "second"}
  BY DEF ToEncoder, encoderVars, Turn
<1>2. hand \in Seq(FrameRecords) /\ Len(hand) = 1 /\ hand[1] \in Range(hand)
  BY <1>1, DeliveredFacts DEF Shape, Limits
<1>3. AtSource = hand /\ Coded' = Coded
  BY <1>1 DEF AtSource, Coded
<1>4. AtSource' = <<>>
  BY <1>1, RangeOfNoneOrOne DEF AtSource, Delivered, Turn
<1>5. BehindQueue' = {} /\ hand[1] \in BehindQueue
  BY <1>2, <1>3, <1>4, RangeOfNoneOrOne DEF BehindQueue
<1>6. /\ InOrder(encQueue)' /\ (Range(encQueue))' \subseteq Range(encQueue) \cup BehindQueue
  <2>1. CASE encQueue' = encQueue
    BY <2>1 DEF Sorted
  <2>2. CASE encQueue' = Append(encQueue, hand[1])
    <3>1. encQueue \in Seq(FrameRecords) /\ hand[1] \in FrameRecords
      BY <1>1, DeliveredFacts DEF Shape
    <3>2. Ahead(Range(encQueue), {hand[1]})
      BY <1>5 DEF Sorted, Ahead
    <3>3. /\ InOrder(Append(encQueue, hand[1]))
          /\ Range(Append(encQueue, hand[1])) = Range(encQueue) \cup {hand[1]}
      BY <3>1, <3>2, AppendInOrder, AppendFacts DEF Sorted
    <3> QED
      BY <1>5, <2>2, <3>3
  <2> QED
    BY <2>1, <2>2 DEF ToEncoder
<1>7. /\ BehindAlign' \subseteq BehindAlign /\ BehindCoded' \subseteq BehindCoded
      /\ BehindInside' \subseteq BehindInside /\ BehindOut' \subseteq BehindOut
      /\ Line' \subseteq Line
  BY <1>1, <1>3, <1>5, <1>6
  DEF BehindAlign, BehindCoded, BehindInside, BehindOut, Line
<1>8. Sorted'
  BY <1>1, <1>3, <1>5, <1>6, <1>7 DEF Sorted, Ahead
<1>9. Numbered'
  BY <1>1, <1>7 DEF Numbered
<1> QED
  BY <1>1, <1>8, <1>9

\* The oldest frame of enc_queue goes to the end of alignment_frames, and the
\* oldest of those may go on.
LEMMA TakeFrameInOrder ==
  ASSUME OrderInv, TakeFrame
  PROVE  Sorted' /\ Numbered' /\ NoTime <= lastPts'
<1> USE DEF OrderInv, IInv
<1> DEFINE e == encQueue[1]
           frames == Append(align, e)
<1>1. /\ UNCHANGED <<sourceVars, inside, outQueue>>
      /\ step = "idle" /\ encQueue # <<>> /\ encQueue' = Tail(encQueue)
      /\ \/ align' = frames /\ UNCHANGED <<step, coding>>
         \/ align' = Tail(frames) /\ coding' = <<frames[1]>> /\ step' = "draw"
  BY DEF TakeFrame
<1>2. coding = <<>> /\ Coded = <<>>
  BY <1>1 DEF Shape, Limits, Coded
<1>3. encQueue \in Seq(FrameRecords) /\ align \in Seq(FrameRecords)
  BY DEF Shape
<1>4. /\ e \in FrameRecords /\ e \in Range(encQueue)
      /\ Range(Tail(encQueue)) \subseteq Range(encQueue)
      /\ InOrder(Tail(encQueue)) /\ Ahead({e}, Range(Tail(encQueue)))
  BY <1>1, <1>3, TailFacts, TailInOrder DEF Sorted
<1> HIDE DEF e
<1>5. Ahead(Range(align), {e})
  BY <1>4 DEF Sorted, Ahead, BehindAlign
<1>6. /\ frames \in Seq(FrameRecords) /\ frames # <<>> /\ InOrder(frames)
      /\ Range(frames) = Range(align) \cup {e}
  <2>1. frames \in Seq(FrameRecords) /\ Len(frames) = Len(align) + 1
        /\ Range(frames) = Range(align) \cup {e}
    BY <1>3, <1>4, AppendFacts
  <2>2. InOrder(frames)
    BY <1>3, <1>4, <1>5, AppendInOrder DEF Sorted
  <2>3. frames # <<>>
    <3>1. Len(align) \in Nat
      BY <1>3
    <3> QED
      BY <2>1, <3>1
  <2> QED
    BY <2>1, <2>2, <2>3
<1> HIDE DEF frames
<1>7. /\ frames[1] \in Range(frames) /\ Range(Tail(frames)) \subseteq Range(frames)
      /\ InOrder(Tail(frames)) /\ Ahead({frames[1]}, Range(Tail(frames)))
  BY <1>6, TailFacts, TailInOrder
<1>8. AtSource' = AtSource /\ BehindQueue' = BehindQueue
  BY <1>1 DEF AtSource, BehindQueue, Turn, sourceVars
<1>9. Ahead(Range(frames), BehindAlign')
  <2>1. BehindAlign' = Range(Tail(encQueue)) \cup BehindQueue
    BY <1>1, <1>8 DEF BehindAlign
  <2>2. Ahead(Range(align), BehindAlign')
    BY <1>4, <2>1, SmallerSets DEF Sorted, BehindAlign
  <2>3. Ahead({e}, BehindAlign')
    BY <1>4, <2>1 DEF Sorted, Ahead
  <2> QED
    BY <1>6, <2>2, <2>3 DEF Ahead
<1>10. Ahead(Range(encQueue'), BehindQueue')
  BY <1>1, <1>4, <1>8, SmallerSets DEF Sorted
<1>11. /\ InOrder(align)' /\ Range(align') \subseteq Range(frames)
       /\ Range(Coded') \subseteq Range(frames)
       /\ Ahead(Range(Coded'), Range(align'))
  <2>1. CASE align' = frames /\ UNCHANGED <<step, coding>>
    <3>1. Range(Coded') = {}
      BY <1>2, <2>1, RangeOfNoneOrOne DEF Coded
    <3> QED
      BY <1>6, <2>1, <3>1 DEF Ahead
  <2>2. CASE align' = Tail(frames) /\ coding' = <<frames[1]>> /\ step' = "draw"
    <3>1. Range(Coded') = {frames[1]}
      BY <2>2, RangeOfNoneOrOne DEF Coded
    <3> QED
      BY <1>7, <2>2, <3>1
  <2> QED
    BY <1>1, <2>1, <2>2
<1>12. Ahead(Range(align'), BehindAlign') /\ Ahead(Range(Coded'), BehindCoded')
  BY <1>9, <1>11 DEF Ahead, BehindCoded
<1>13. /\ BehindAlign' \subseteq BehindAlign
       /\ Range(frames) \subseteq BehindCoded
  BY <1>1, <1>4, <1>6, <1>8 DEF BehindAlign, BehindCoded
<1>14. /\ BehindInside' \subseteq BehindInside /\ BehindOut' \subseteq BehindOut
       /\ Line' \subseteq Line
  <2>1. BehindCoded' \subseteq BehindCoded
    BY <1>11, <1>13 DEF BehindCoded
  <2> QED
    BY <1>1, <1>11, <1>13, <2>1 DEF BehindInside, BehindOut, Line
<1>15. Sorted'
  <2>1. Ahead(Range(outQueue'), BehindOut') /\ Ahead(Range(inside'), BehindInside')
    BY <1>1, <1>14, SmallerSets DEF Sorted
  <2> QED
    BY <1>1, <1>4, <1>10, <1>11, <1>12, <2>1 DEF Sorted
<1>16. Numbered'
  BY <1>1, <1>14 DEF Numbered, sourceVars
<1> QED
  BY <1>1, <1>15, <1>16 DEF sourceVars

\* The frame goes into the hardware encoder, or is given up.
LEMMA PutInOrder ==
  ASSUME OrderInv, Put
  PROVE  Sorted' /\ Numbered' /\ NoTime <= lastPts'
<1> USE DEF OrderInv, IInv
<1>1. /\ UNCHANGED <<sourceVars, encQueue, align, outQueue>>
      /\ step = "put"
  BY DEF Put
<1>2. /\ coding \in Seq(FrameRecords) /\ Len(coding) = 1 /\ inside \in Seq(FrameRecords)
      /\ Coded = coding
  BY <1>1 DEF Shape, Limits, Coded
<1>3. coding[1] \in FrameRecords /\ coding[1] \in Range(Coded)
  <2>1. coding # <<>>
    BY <1>2
  <2> QED
    BY <1>2, <2>1, TailFacts
<1>4. AtSource' = AtSource /\ BehindCoded' = BehindCoded
  BY <1>1 DEF AtSource, Turn, sourceVars, BehindQueue, BehindAlign, BehindCoded
<1>5. Range(Coded') = {}
  BY RangeOfNoneOrOne DEF Put, Coded
<1>6. InOrder(inside)' /\ Range(inside') \subseteq Range(inside) \cup Range(Coded)
  <2>1. CASE inside' = inside
    BY <2>1 DEF Sorted
  <2>2. CASE inside' = Append(inside, coding[1])
    <3>1. Ahead(Range(inside), {coding[1]})
      BY <1>3 DEF Sorted, Ahead, BehindInside
    <3>2. /\ InOrder(Append(inside, coding[1]))
          /\ Range(Append(inside, coding[1])) = Range(inside) \cup {coding[1]}
      BY <1>2, <1>3, <3>1, AppendInOrder, AppendFacts DEF Sorted
    <3> QED
      BY <1>3, <2>2, <3>2
  <2> QED
    BY <2>1, <2>2 DEF Put
<1>7. BehindInside' = BehindCoded
  BY <1>4, <1>5 DEF BehindInside
<1>8. Ahead(Range(inside'), BehindInside')
  BY <1>6, <1>7 DEF Sorted, Ahead, BehindInside
<1>9. BehindOut' \subseteq BehindOut /\ Line' \subseteq Line
  BY <1>1, <1>6, <1>7 DEF BehindOut, BehindInside, Line
<1>10. Sorted'
  BY <1>1, <1>4, <1>5, <1>6, <1>8, <1>9
  DEF Sorted, Ahead, BehindQueue, BehindAlign, BehindCoded
<1>11. Numbered'
  BY <1>1, <1>9 DEF Numbered, sourceVars
<1> QED
  BY <1>1, <1>10, <1>11 DEF sourceVars

\* The oldest frame inside becomes a packet, or is lost.
LEMMA GetPacketInOrder ==
  ASSUME OrderInv, GetPacket
  PROVE  Sorted' /\ Numbered' /\ NoTime <= lastPts'
<1> USE DEF OrderInv, IInv
<1>1. /\ UNCHANGED <<sourceVars, encQueue, align, step, coding>>
      /\ inside' = Tail(inside)
      /\ outQueue' = outQueue \/ outQueue' = Append(outQueue, inside[1])
      /\ ready > 0
  BY DEF GetPacket
<1>2. /\ inside \in Seq(FrameRecords) /\ outQueue \in Seq(FrameRecords) /\ inside # <<>>
  <2>1. inside \in Seq(FrameRecords) /\ outQueue \in Seq(FrameRecords) /\ ready <= Len(inside)
        /\ ready \in Nat
    BY DEF Shape, Limits
  <2> QED
    BY <1>1, <2>1
<1>3. /\ inside[1] \in FrameRecords /\ inside[1] \in Range(inside)
      /\ Range(Tail(inside)) \subseteq Range(inside)
      /\ InOrder(Tail(inside)) /\ Ahead({inside[1]}, Range(Tail(inside)))
  BY <1>2, TailFacts, TailInOrder DEF Sorted
<1>4. AtSource' = AtSource /\ Coded' = Coded /\ BehindInside' = BehindInside
  BY <1>1
  DEF AtSource, Turn, sourceVars, Coded, BehindQueue, BehindAlign, BehindCoded, BehindInside
<1>5. BehindOut' = Range(Tail(inside)) \cup BehindInside
  BY <1>1, <1>4 DEF BehindOut
<1>6. /\ InOrder(outQueue)' /\ Range(outQueue') \subseteq Range(outQueue) \cup {inside[1]}
  <2>1. CASE outQueue' = outQueue
    BY <2>1 DEF Sorted
  <2>2. CASE outQueue' = Append(outQueue, inside[1])
    <3>1. Ahead(Range(outQueue), {inside[1]})
      BY <1>3 DEF Sorted, Ahead, BehindOut
    <3>2. /\ InOrder(Append(outQueue, inside[1]))
          /\ Range(Append(outQueue, inside[1])) = Range(outQueue) \cup {inside[1]}
      BY <1>2, <1>3, <3>1, AppendInOrder, AppendFacts DEF Sorted
    <3> QED
      BY <2>2, <3>2
  <2> QED
    BY <1>1, <2>1, <2>2
<1>7. Ahead(Range(outQueue'), BehindOut')
  <2>1. Ahead(Range(outQueue), BehindOut')
    BY <1>3, <1>5, SmallerSets DEF Sorted, BehindOut
  <2>2. Ahead({inside[1]}, BehindOut')
    BY <1>3, <1>5 DEF Sorted, Ahead
  <2> QED
    BY <1>6, <2>1, <2>2 DEF Ahead
<1>8. Ahead(Range(inside'), BehindInside')
  BY <1>1, <1>3, <1>4, SmallerSets DEF Sorted
<1>9. Line' \subseteq Line
  BY <1>3, <1>5, <1>6 DEF Line, BehindOut
<1>10. Sorted'
  BY <1>1, <1>3, <1>4, <1>6, <1>7, <1>8
  DEF Sorted, BehindQueue, BehindAlign, BehindCoded
<1>11. Numbered'
  BY <1>1, <1>9 DEF Numbered, sourceVars
<1> QED
  BY <1>1, <1>10, <1>11 DEF sourceVars

\* All other steps leave the line as it is or take a frame out of it.
LEMMA OthersInOrder ==
  ASSUME OrderInv,
         ToInference \/ Draw \/ Encoded \/ Stream \/ InferTakes \/ InferDone \/ UNCHANGED vars
  PROVE  Sorted' /\ Numbered' /\ NoTime <= lastPts'
<1> USE DEF OrderInv, IInv
<1>1. /\ UNCHANGED <<source, conn, nextId, lastPts, encQueue, align, inside>>
      /\ outQueue' = outQueue \/ (outQueue # <<>> /\ outQueue' = Tail(outQueue))
  BY DEF ToInference, Draw, Encoded, Stream, InferTakes, InferDone, vars, sourceVars, encoderVars
<1>2. InOrder(outQueue)' /\ Range(outQueue') \subseteq Range(outQueue)
  <2>1. outQueue \in Seq(FrameRecords)
    BY DEF Shape
  <2> QED
    BY <1>1, <2>1, TailFacts, TailInOrder DEF Sorted
<1>3. Range(AtSource') \subseteq Range(AtSource)
  <2>1. CASE ToInference
    <3>1. hand' = hand \/ hand' = <<>>
      BY <2>1 DEF ToInference, Delivered
    <3>2. CASE AtSource' = <<>>
      BY <3>2, RangeOfNoneOrOne
    <3>3. CASE AtSource' # <<>>
      <4>1. AtSource' = hand' /\ hand' # <<>>
        BY <3>3 DEF AtSource
      <4>2. hand' = hand
        BY <3>1, <4>1
      <4>3. phase = "first"
        BY <1>1, <2>1, <4>1 DEF ToInference, Delivered
      <4> QED
        BY <4>1, <4>2, <4>3 DEF AtSource
    <3> QED
      BY <3>2, <3>3
  <2>2. CASE ~ToInference
    <3>1. UNCHANGED <<hand, phase, source>>
      BY <2>2 DEF Draw, Encoded, Stream, InferTakes, InferDone, vars, sourceVars
    <3> QED
      BY <3>1 DEF AtSource, Turn
  <2> QED
    BY <2>1, <2>2
<1>4. Range(Coded') \subseteq Range(Coded)
  <2>1. CASE Draw \/ Encoded
    <3>1. Coded' = Coded \/ Coded' = <<>>
      BY <2>1 DEF Draw, Encoded, Coded
    <3> QED
      BY <3>1, RangeOfNoneOrOne
  <2>2. CASE ~(Draw \/ Encoded)
    <3>1. UNCHANGED <<coding, step>>
      BY <2>2 DEF ToInference, Stream, InferTakes, InferDone, vars, encoderVars
    <3> QED
      BY <3>1 DEF Coded
  <2> QED
    BY <2>1, <2>2
<1>5. /\ InOrder(inside)' /\ InOrder(align)' /\ InOrder(encQueue)'
      /\ Range(inside') \subseteq Range(inside) /\ Range(align') \subseteq Range(align)
      /\ Range(encQueue') \subseteq Range(encQueue)
  BY <1>1 DEF Sorted
<1> QED
  BY <1>1, <1>2, <1>3, <1>4, <1>5, TakingOutKeeps

\* So the parts are always in order.
LEMMA OrderHolds == Spec => []OrderInv
<1>1. Init => OrderInv
  <2> SUFFICES ASSUME Init PROVE OrderInv
    OBVIOUS
  <2>1. Line = {} /\ BehindOut = {} /\ BehindInside = {} /\ BehindCoded = {}
        /\ BehindAlign = {} /\ BehindQueue = {}
    BY RangeOfNoneOrOne
    DEF Init, Line, BehindOut, BehindInside, BehindCoded, BehindAlign, BehindQueue,
        AtSource, Coded
  <2>2. Numbered /\ NoTime <= lastPts
    BY <2>1 DEF Init, Numbered, NoTime
  <2>3. Sorted
    BY <2>1 DEF Init, Sorted, Ahead, InOrder
  <2> QED
    BY <2>2, <2>3, InitIInv DEF OrderInv
<1>2. OrderInv /\ [Next]_vars => OrderInv'
  <2> SUFFICES ASSUME OrderInv, [Next]_vars PROVE OrderInv'
    OBVIOUS
  <2>1. IInv'
    BY Steps DEF OrderInv
  <2>2. Sorted' /\ Numbered' /\ NoTime <= lastPts'
    BY ConnectInOrder, DecodeInOrder, ToEncoderInOrder, TakeFrameInOrder, PutInOrder,
       GetPacketInOrder, OthersInOrder
    DEF Next, Source, Encoder
  <2> QED
    BY <2>1, <2>2 DEF OrderInv
<1> QED
  BY <1>1, <1>2, PTL DEF Spec

\* Frames and packets never overtake each other, and their times grow within a
\* connection, for every repair of timestamps and every drop
\* (PullStreamThread.cpp, EncodeThread.cpp).
THEOREM OrderProved == Spec => []FramesInOrder
<1>1. OrderInv => FramesInOrder
  BY LineInOrder DEF OrderInv
<1> QED
  BY <1>1, OrderHolds, PTL

-------------------------------------------------------------------------------
(* The queues of the channel are used as the queue's promise allows.       *)

\* A list that is appended to ends with the new element.
LEMMA AppendedIsLast ==
  ASSUME NEW S, NEW q \in Seq(S), NEW e \in S
  PROVE  /\ Append(q, e) # <<>>
         /\ Append(q, e)[Len(Append(q, e))] = e
<1>1. Len(Append(q, e)) = Len(q) + 1 /\ Append(q, e)[Len(q) + 1] = e /\ Len(q) \in Nat
  BY AppendFacts
<1>2. Len(Append(q, e)) # Len(<<>>)
  BY <1>1
<1>3. Append(q, e) # <<>>
  BY <1>2, Zenon
<1> QED
  BY <1>1, <1>3

\* A frame joins enc_queue, or the encoder takes the first one.
LEMMA EncoderUsesItsQueue ==
  IInv /\ [Next]_vars => [EncoderQueue!Next]_EncoderQueue!qvars
<1> SUFFICES ASSUME IInv, [Next]_vars PROVE [EncoderQueue!Next]_EncoderQueue!qvars
  OBVIOUS
<1>0. encQueue \in Seq(FrameRecords)
  BY DEF IInv, Shape
<1>1. ASSUME encQueue' = encQueue PROVE [EncoderQueue!Next]_EncoderQueue!qvars
  BY <1>1 DEF EncoderQueue!qvars
<1>2. CASE ToEncoder
  <2>1. hand[1] \in FrameRecords
    BY <1>2, DeliveredFacts DEF ToEncoder, Turn
  <2>2. CASE Len(encQueue) < QueueSize /\ encQueue' = Append(encQueue, hand[1])
    <3>1. encQueue' # <<>> /\ encQueue'[Len(encQueue')] = hand[1]
      BY <1>0, <2>1, <2>2, AppendedIsLast
    <3>2. EncoderQueue!Put
      BY <2>2, <3>1 DEF EncoderQueue!Put, EncoderQueue!Joins
    <3> QED
      BY <3>2 DEF EncoderQueue!Next
  <2> QED
    BY <1>1, <1>2, <2>2 DEF ToEncoder
<1>3. CASE TakeFrame
  <2>1. EncoderQueue!Take
    BY <1>3 DEF TakeFrame, EncoderQueue!Take
  <2> QED
    BY <2>1 DEF EncoderQueue!Next
<1>4. CASE Connect \/ GiveUp \/ ReadFails \/ ToInference \/ Stream \/ InferTakes \/ InferDone
  BY <1>1, <1>4 DEF Connect, GiveUp, ReadFails, ToInference, Stream, InferTakes, InferDone
<1>5. ASSUME NEW media, Decode(media) PROVE encQueue' = encQueue
  BY <1>5 DEF Decode
<1>6. CASE Draw \/ Put \/ GetPacket \/ Encoded \/ UNCHANGED vars
  BY <1>1, <1>6 DEF Draw, Put, GetPacket, Encoded, vars
<1> QED
  BY <1>1, <1>2, <1>3, <1>4, <1>5, <1>6 DEF Next, Source, Encoder

\* A frame joins infer_queue, if need be in the place of the oldest, or inference
\* takes the first one.
LEMMA InferenceUsesItsQueue ==
  IInv /\ [Next]_vars => [InferenceQueue!Next]_InferenceQueue!qvars
<1> SUFFICES ASSUME IInv, [Next]_vars PROVE [InferenceQueue!Next]_InferenceQueue!qvars
  OBVIOUS
<1>0. inferQueue \in Seq(FrameRecords) /\ Len(inferQueue) <= QueueSize
  BY DEF IInv, Shape, Limits
<1>1. ASSUME inferQueue' = inferQueue PROVE [InferenceQueue!Next]_InferenceQueue!qvars
  BY <1>1 DEF InferenceQueue!qvars
<1>2. CASE ToInference
  <2>1. hand[1] \in FrameRecords
    BY <1>2, DeliveredFacts DEF ToInference, Turn
  <2>2. inferQueue' = PushLatest(inferQueue, hand[1])
    BY <1>2 DEF ToInference
  <2>3. CASE Len(inferQueue) < QueueSize
    <3>1. inferQueue' = Append(inferQueue, hand[1])
      BY <2>2, <2>3 DEF PushLatest
    <3>2. inferQueue' # <<>> /\ inferQueue'[Len(inferQueue')] = hand[1]
      BY <1>0, <2>1, <3>1, AppendedIsLast
    <3>3. InferenceQueue!Put
      BY <2>3, <3>1, <3>2 DEF InferenceQueue!Put, InferenceQueue!Joins
    <3> QED
      BY <3>3 DEF InferenceQueue!Next
  <2>4. CASE ~(Len(inferQueue) < QueueSize)
    <3>1. inferQueue' = Append(Tail(inferQueue), hand[1])
      BY <2>2, <2>4 DEF PushLatest
    <3>2. Len(inferQueue) = QueueSize /\ inferQueue # <<>>
      BY <1>0, <2>4, FrameFlowAssumption
    <3>3. Tail(inferQueue) \in Seq(FrameRecords)
      BY <1>0, <3>2, TailFacts
    <3>4. inferQueue' # <<>> /\ inferQueue'[Len(inferQueue')] = hand[1]
      BY <2>1, <3>1, <3>3, AppendedIsLast
    <3>5. InferenceQueue!Replace
      BY <3>1, <3>2, <3>4 DEF InferenceQueue!Replace, InferenceQueue!Joins
    <3> QED
      BY <3>5 DEF InferenceQueue!Next
  <2> QED
    BY <2>3, <2>4
<1>3. CASE InferTakes
  <2>1. InferenceQueue!Take
    BY <1>3 DEF InferTakes, InferenceQueue!Take
  <2> QED
    BY <2>1 DEF InferenceQueue!Next
<1>4. CASE Connect \/ GiveUp \/ ReadFails \/ ToEncoder \/ Stream \/ InferDone
  BY <1>1, <1>4 DEF Connect, GiveUp, ReadFails, ToEncoder, Stream, InferDone
<1>5. ASSUME NEW media, Decode(media) PROVE inferQueue' = inferQueue
  BY <1>5 DEF Decode
<1>6. CASE TakeFrame \/ Draw \/ Put \/ GetPacket \/ Encoded \/ UNCHANGED vars
  BY <1>1, <1>6 DEF TakeFrame, Draw, Put, GetPacket, Encoded, vars
<1> QED
  BY <1>1, <1>2, <1>3, <1>4, <1>5, <1>6 DEF Next, Source, Encoder

\* A packet joins the queue of encoded packets, or StreamThread takes the first one.
LEMMA PacketsUseTheirQueue ==
  IInv /\ [Next]_vars => [PacketQueue!Next]_PacketQueue!qvars
<1> SUFFICES ASSUME IInv, [Next]_vars PROVE [PacketQueue!Next]_PacketQueue!qvars
  OBVIOUS
<1>0. /\ outQueue \in Seq(FrameRecords) /\ inside \in Seq(FrameRecords)
      /\ ready \in Nat /\ ready <= Len(inside)
  BY DEF IInv, Shape, Limits
<1>1. ASSUME outQueue' = outQueue PROVE [PacketQueue!Next]_PacketQueue!qvars
  BY <1>1 DEF PacketQueue!qvars
<1>2. CASE GetPacket
  <2>1. inside # <<>>
    BY <1>0, <1>2 DEF GetPacket
  <2>2. inside[1] \in FrameRecords
    BY <1>0, <2>1, TailFacts
  <2>3. CASE Len(outQueue) < OutSize /\ outQueue' = Append(outQueue, inside[1])
    <3>1. outQueue' # <<>> /\ outQueue'[Len(outQueue')] = inside[1]
      BY <1>0, <2>2, <2>3, AppendedIsLast
    <3>2. PacketQueue!Put
      BY <2>3, <3>1 DEF PacketQueue!Put, PacketQueue!Joins
    <3> QED
      BY <3>2 DEF PacketQueue!Next
  <2> QED
    BY <1>1, <1>2, <2>3 DEF GetPacket
<1>3. CASE Stream
  <2>1. PacketQueue!Take
    BY <1>3 DEF Stream, PacketQueue!Take
  <2> QED
    BY <2>1 DEF PacketQueue!Next
<1>4. CASE Connect \/ GiveUp \/ ReadFails \/ ToEncoder \/ ToInference
  BY <1>1, <1>4
  DEF Connect, GiveUp, ReadFails, ToEncoder, ToInference, encoderVars
<1>5. ASSUME NEW media, Decode(media) PROVE outQueue' = outQueue
  BY <1>5 DEF Decode, encoderVars
<1>6. CASE TakeFrame \/ Draw \/ Put \/ Encoded \/ InferTakes \/ InferDone \/ UNCHANGED vars
  BY <1>1, <1>6 DEF TakeFrame, Draw, Put, Encoded, InferTakes, InferDone, encoderVars, vars
<1> QED
  BY <1>1, <1>2, <1>3, <1>4, <1>5, <1>6 DEF Next, Source, Encoder

\* The three queues of a channel are what the users of BlockingQueue.hpp rely on:
\* what was accepted leaves in its turn, and only inference's oldest frame is ever
\* replaced (PullStreamThread.cpp, EncodeThread.cpp, InferThread.cpp).
THEOREM FramesUseTheQueues == Spec => FramesAreQueued
<1>1. Init => EncoderQueue!Init /\ InferenceQueue!Init /\ PacketQueue!Init
  BY DEF Init, EncoderQueue!Init, InferenceQueue!Init, PacketQueue!Init
<1> QED
  BY <1>1, EncoderUsesItsQueue, InferenceUsesItsQueue, PacketsUseTheirQueue,
     InvariantHolds, PTL
  DEF Spec, FramesAreQueued, EncoderQueue!Spec, InferenceQueue!Spec, PacketQueue!Spec
===============================================================================
