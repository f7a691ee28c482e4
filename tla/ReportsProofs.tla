---------------------------- MODULE ReportsProofs ----------------------------
(***************************************************************************)
(* NoRepeatedSummary, TypeOK and EventsMatchObjects for every scene,       *)
(* region, interval and queue size.                                        *)
(*                                                                         *)
(* The signature that the thread remembers stands for the last summary it  *)
(* tried to send, and that one is the last accepted summary unless a push  *)
(* timed out.  What is being pushed therefore differs from what the reader *)
(* got before, or has events.  Events are about an object of the           *)
(* detections they were made from, and both are carried over a frame       *)
(* together, so that every summary lists what its events are about.        *)
(***************************************************************************)
EXTENDS Reports, FiniteSetTheorems, TLAPS

\* What the remembered signature stands for, at rest and during a push.
Remembered ==
  /\ lastKey = tried
  /\ pushing => tried = Key(payload)
  /\ ~pushing /\ ~lost /\ accepted # NoPayload => tried = Key(accepted)

\* What is pushed is news, unless the summary before it was dropped.
PushIsNews ==
  pushing /\ ~lost /\ accepted # NoPayload /\ payload.events = {}
    => Key(payload) # Key(accepted)

IInv == Remembered /\ PushIsNews

\* Nothing was reported at first.
LEMMA InitHolds == Init => IInv
BY DEF Init, IInv, Remembered, PushIsNews

\* A summary has the signature of the detections it was made from.
LEMMA SummaryKey ==
  ASSUME NEW d, NEW evs
  PROVE  Key([objects |-> d.objects, score |-> d.score, events |-> evs]) = Key(d)
BY DEF Key

\* The end of a frame keeps the invariant, whatever it found.
LEMMA ReportKeeps ==
  ASSUME IInv, ~pushing, NEW d, NEW evs, Report(d, evs)
  PROVE  IInv'
<1>1. CASE UNCHANGED <<reportVars, mqttVars>>
  BY <1>1 DEF IInv, Remembered, PushIsNews, reportVars, mqttVars, Key
<1>2. CASE Key(d) = lastKey /\ evs = {} /\ lastKey' = Key(d) /\ UNCHANGED mqttVars
  BY <1>2 DEF IInv, Remembered, PushIsNews, mqttVars, Key
<1>3. CASE ~(Key(d) = lastKey /\ evs = {}) /\ lastKey' = Key(d) /\ Send(d, evs)
  <2>1. /\ pushing' /\ tried' = Key(d) /\ lastKey' = Key(d)
        /\ payload' = [objects |-> d.objects, score |-> d.score, events |-> evs]
        /\ UNCHANGED <<accepted, lost>>
    BY <1>3 DEF Send
  <2>2. Key(payload)' = Key(d) /\ payload'.events = evs
    BY <2>1, SummaryKey DEF Key
  <2>3. Remembered'
    BY <2>1, <2>2 DEF Remembered
  <2>4. ASSUME ~lost, accepted # NoPayload, evs = {}
        PROVE  Key(d) # Key(accepted)
    BY <2>4, <1>3 DEF IInv, Remembered
  <2>5. Key(accepted)' = Key(accepted)
    BY <2>1 DEF Key
  <2>6. PushIsNews'
    BY <2>1, <2>2, <2>4, <2>5 DEF PushIsNews, NoPayload
  <2> QED
    BY <2>3, <2>6 DEF IInv
<1> QED
  BY <1>1, <1>2, <1>3 DEF Report

\* A frame, inferred, skipped or failed, hands over at most one summary.
LEMMA FrameKeeps ==
  ASSUME IInv, Frame
  PROVE  IInv'
<1>1. CASE InferredFrame
  BY <1>1, ReportKeeps DEF InferredFrame
<1>2. CASE SkippedFrame
  BY <1>2, ReportKeeps DEF SkippedFrame
<1>3. CASE ScheduledResult
  BY <1>3, ReportKeeps DEF ScheduledResult
<1> QED
  BY <1>1, <1>2, <1>3 DEF Frame

\* After a push the accepted summary is the pushed one, or a loss is noted.
LEMMA PushKeeps ==
  ASSUME IInv, PushEnds
  PROVE  IInv'
<1>1. UNCHANGED <<lastKey, tried>> /\ ~pushing' /\ pushing
  BY DEF PushEnds, reportVars
<1>2. accepted' = payload \/ lost'
  BY DEF PushEnds
<1>3. Key(accepted)' = Key(payload) \/ lost'
  BY <1>2 DEF Key
<1> QED
  BY <1>1, <1>3 DEF IInv, Remembered, PushIsNews

\* The scene, the clock and the reader have no part in it.
LEMMA OthersKeep ==
  ASSUME IInv, SceneChanges \/ NpuToggles \/ Tick \/ MqttPublish \/ UNCHANGED vars
  PROVE  IInv'
<1>1. UNCHANGED <<lastKey, pushing, payload, tried, accepted, lost>>
  BY DEF SceneChanges, NpuToggles, Tick, MqttPublish, vars, reportVars, mqttVars
<1> QED
  BY <1>1 DEF IInv, Remembered, PushIsNews, Key

\* The signature that throttles the reports always stands for the last
\* summary handed to push.
THEOREM ReportsInvariance == Spec => []IInv
<1>1. IInv /\ [Next]_vars => IInv'
  BY FrameKeeps, PushKeeps, OthersKeep DEF Next
<1> QED
  BY InitHolds, <1>1, PTL DEF Spec

\* No two summaries in a row with the same signature enter the queue, but for
\* events and for a summary dropped between them.
THEOREM NothingRepeated == Spec => NoRepeatedSummary
<1>1. IInv /\ [Next]_vars
        => [pushing /\ Len(queue') > Len(queue) /\ payload.events = {}
              /\ accepted # NoPayload
                => Key(payload) # Key(accepted) \/ lost]_vars
  BY DEF IInv, PushIsNews
<1> QED
  BY <1>1, ReportsInvariance, PTL DEF Spec, NoRepeatedSummary

-----------------------------------------------------------------------------
(* Lists of objects.                                                       *)

\* Ranks number the positions from one, in their order.
LEMMA RankFacts ==
  ASSUME NEW n \in Nat, NEW I \in SUBSET (1 .. n)
  PROVE  /\ Cardinality(I) \in Nat
         /\ \A i \in I : Rank(I, i) \in 1 .. Cardinality(I)
         /\ \A i, j \in I : i < j => Rank(I, i) < Rank(I, j)
         /\ \A k \in 1 .. Cardinality(I) : \E i \in I : Rank(I, i) = k
<1> DEFINE upTo(i) == {j \in I : j <= i}
           m == Cardinality(I)
           rank == [i \in I |-> Rank(I, i)]
<1>1. IsFiniteSet(I) /\ m \in Nat /\ \A i \in I : i \in Int
  <2>1. IsFiniteSet(1 .. n)
    BY FS_Interval
  <2>2. IsFiniteSet(I)
    BY <2>1, FS_Subset
  <2> QED
    BY <2>2, FS_CardinalityType
<1>2. ASSUME NEW i \in I
      PROVE  IsFiniteSet(upTo(i)) /\ Rank(I, i) = Cardinality(upTo(i)) /\ Rank(I, i) \in 1 .. m
  <2>1. upTo(i) \in SUBSET I /\ i \in upTo(i)
    OBVIOUS
  <2>2. IsFiniteSet(upTo(i)) /\ Cardinality(upTo(i)) \in Nat /\ Cardinality(upTo(i)) <= m
    BY <1>1, <2>1, FS_Subset, FS_CardinalityType
  <2>3. Cardinality(upTo(i)) # 0
    BY <2>1, <2>2, FS_EmptySet
  <2> HIDE DEF m
  <2> QED
    BY <1>1, <2>2, <2>3 DEF Rank
<1>3. ASSUME NEW i \in I, NEW j \in I, i < j
      PROVE  Rank(I, i) < Rank(I, j)
  <2>1. upTo(i) \in SUBSET upTo(j) /\ j \in upTo(j) /\ j \notin upTo(i)
    <3>1. i \in Int /\ j \in Int /\ i < j
      BY <1>1, <1>3
    <3>2. ASSUME NEW k \in upTo(i) PROVE k \in upTo(j)
      <4>1. k \in I /\ k <= i /\ k \in Int
        BY <1>1
      <4> QED
        BY <3>1, <4>1
    <3>3. j \in upTo(j) /\ j \notin upTo(i)
      BY <3>1
    <3> HIDE DEF upTo
    <3> QED
      BY <3>2, <3>3
  <2>2. Cardinality(upTo(i)) <= Cardinality(upTo(j)) /\ Cardinality(upTo(i)) # Cardinality(upTo(j))
    <3> HIDE DEF upTo
    <3> QED
      BY <1>2, <2>1, FS_Subset
  <2> HIDE DEF upTo, m
  <2> QED
    BY <1>1, <1>2, <2>2
<1>4. rank \in Injection(I, 1 .. m)
  <2>1. rank \in [I -> 1 .. m]
    BY <1>2
  <2>2. ASSUME NEW i \in I, NEW j \in I, rank[i] = rank[j] PROVE i = j
    <3>1. Rank(I, i) = Rank(I, j)
      BY <2>2
    <3>2. i \in Int /\ j \in Int /\ Rank(I, i) \in Int
      <4> HIDE DEF upTo
      <4> QED
        BY <1>1, <1>2
    <3> QED
      BY <1>3, <3>1, <3>2
  <2> QED
    BY <2>1, <2>2 DEF Injection, IsInjective
<1>5. rank \in Surjection(I, 1 .. m)
  <2>1. IsFiniteSet(1 .. m) /\ Cardinality(1 .. m) = m
    <3> HIDE DEF m
    <3> QED
      BY <1>1, FS_Interval
  <2> HIDE DEF rank
  <2> QED
    BY <1>4, <2>1, FS_Injection
<1>6. \A k \in 1 .. m : \E i \in I : Rank(I, i) = k
  BY <1>5 DEF Surjection
<1> QED
  BY <1>1, <1>2, <1>3, <1>6

\* A sublist has its elements in their order: position at[k] of the list
\* becomes position k, and every chosen position becomes one.
LEMMA SublistFacts ==
  ASSUME NEW s, NEW n \in Nat, NEW I \in SUBSET (1 .. n)
  PROVE  /\ Cardinality(I) \in Nat
         /\ DOMAIN Sublist(s, I) = 1 .. Cardinality(I)
         /\ \A i \in I : Rank(I, i) \in 1 .. Cardinality(I) /\ Sublist(s, I)[Rank(I, i)] = s[i]
         /\ \A k \in 1 .. Cardinality(I) : \E i \in I : Rank(I, i) = k /\ Sublist(s, I)[k] = s[i]
         /\ \A i, j \in I : i < j => Rank(I, i) < Rank(I, j)
<1>1. /\ Cardinality(I) \in Nat
      /\ \A i \in I : Rank(I, i) \in 1 .. Cardinality(I)
      /\ \A i, j \in I : i < j => Rank(I, i) < Rank(I, j)
      /\ \A k \in 1 .. Cardinality(I) : \E i \in I : Rank(I, i) = k
  BY RankFacts
<1>2. \A i, j \in I : Rank(I, i) = Rank(I, j) => i = j
  <2> SUFFICES ASSUME NEW i \in I, NEW j \in I, Rank(I, i) = Rank(I, j) PROVE i = j
    OBVIOUS
  <2> i \in Int /\ j \in Int /\ Rank(I, i) \in Int /\ Rank(I, j) \in Int
    BY <1>1
  <2> QED
    BY <1>1
<1>3. ASSUME NEW i \in I PROVE Sublist(s, I)[Rank(I, i)] = s[i]
  <2>1. (CHOOSE j \in I : Rank(I, j) = Rank(I, i)) = i
    BY <1>2
  <2> QED
    BY <1>1, <2>1 DEF Sublist
<1>4. DOMAIN Sublist(s, I) = 1 .. Cardinality(I)
  BY DEF Sublist
<1> QED
  BY <1>1, <1>3, <1>4

\* Its elements are the chosen ones; of two, the first was the first before.
LEMMA SublistPairs ==
  ASSUME NEW S, NEW s \in Seq(S), NEW I \in SUBSET (DOMAIN s)
  PROVE  /\ Sublist(s, I) \in Seq(S)
         /\ Len(Sublist(s, I)) <= Len(s)
         /\ \A i \in I : \E k \in DOMAIN Sublist(s, I) : Sublist(s, I)[k] = s[i]
         /\ \A k \in DOMAIN Sublist(s, I) : \E i \in I : Sublist(s, I)[k] = s[i]
         /\ \A k, l \in DOMAIN Sublist(s, I) : k < l =>
              \E i, j \in I : i < j /\ Sublist(s, I)[k] = s[i] /\ Sublist(s, I)[l] = s[j]
<1> DEFINE t == Sublist(s, I)
           m == Cardinality(I)
<1>0. Len(s) \in Nat /\ DOMAIN s = 1 .. Len(s) /\ I \in SUBSET (1 .. Len(s))
  OBVIOUS
<1>1. /\ m \in Nat
      /\ DOMAIN t = 1 .. m
      /\ \A i \in I : Rank(I, i) \in 1 .. m /\ t[Rank(I, i)] = s[i]
      /\ \A k \in 1 .. m : \E i \in I : Rank(I, i) = k /\ t[k] = s[i]
      /\ \A i, j \in I : i < j => Rank(I, i) < Rank(I, j)
  BY <1>0, SublistFacts, Zenon
<1>2. m <= Len(s)
  <2>1. IsFiniteSet(1 .. Len(s)) /\ Cardinality(1 .. Len(s)) = Len(s)
    <3> DEFINE n == Len(s)
    <3>1. n \in Nat
      OBVIOUS
    <3> HIDE DEF n
    <3>2. IsFiniteSet(1 .. n) /\ Cardinality(1 .. n) = IF 1 > n THEN 0 ELSE n - 1 + 1
      BY <3>1, FS_Interval
    <3>3. IsFiniteSet(1 .. n) /\ Cardinality(1 .. n) = n
      BY <3>1, <3>2
    <3> QED
      BY <3>3 DEF n
  <2> QED
    BY <1>0, <2>1, FS_Subset
<1>3. t = [k \in 1 .. m |-> t[k]]
  BY DEF Sublist
<1> HIDE DEF t, m
<1>4. t \in Seq(S) /\ Len(t) = m
  <2>1. \A k \in 1 .. m : t[k] \in S
    BY <1>0, <1>1
  <2> QED
    BY <1>1, <1>3, <2>1
<1>5. ASSUME NEW k \in DOMAIN t, NEW l \in DOMAIN t, k < l
      PROVE  \E i, j \in I : i < j /\ t[k] = s[i] /\ t[l] = s[j]
  <2>1. PICK i \in I : Rank(I, i) = k /\ t[k] = s[i]
    BY <1>1
  <2>2. PICK j \in I : Rank(I, j) = l /\ t[l] = s[j]
    BY <1>1
  <2>3. i < j
    <3>1. i \in Int /\ j \in Int /\ k \in Int /\ l \in Int
      BY <1>0, <1>1
    <3>2. i # j
      BY <1>5, <2>1, <2>2, <3>1
    <3>3. ASSUME j < i PROVE FALSE
      BY SMTT(20), <1>1, <1>5, <2>1, <2>2, <3>1, <3>3
    <3> QED
      BY <3>1, <3>2, <3>3
  <2> QED
    BY <2>1, <2>2, <2>3
<1>6. \A i \in I : \E k \in DOMAIN t : t[k] = s[i]
  BY <1>1
<1>7. \A k \in DOMAIN t : \E i \in I : t[k] = s[i]
  BY <1>1
<1> QED
  BY <1>2, <1>4, <1>5, <1>6, <1>7 DEF t

\* The objects in some places are objects, in those places, and there is one if
\* any of the objects is there.
LEMMA ObjectsInFacts ==
  ASSUME NEW d \in Seen, NEW places
  PROVE  /\ ObjectsIn(d, places) \in Seq(Places)
         /\ \A k \in 1 .. Len(ObjectsIn(d, places)) :
              ObjectsIn(d, places)[k] \in places /\ ObjectsIn(d, places)[k] \in Objects(d)
<1> DEFINE s == d.objects
           I == {i \in DOMAIN s : s[i] \in places}
           t == ObjectsIn(d, places)
<1>1. s \in Seq(Places) /\ I \in SUBSET (DOMAIN s)
  BY DEF Seen
<1>2. t \in Seq(Places) /\ \A k \in DOMAIN t : \E i \in I : t[k] = s[i]
  <2> HIDE DEF I, s
  <2>1. t = Sublist(s, I)
    BY DEF ObjectsIn, I, s
  <2> HIDE DEF t
  <2> QED
    BY <1>1, <2>1, SublistPairs
<1>3. DOMAIN s = 1 .. Len(s) /\ DOMAIN t = 1 .. Len(t)
  BY <1>1, <1>2
<1> QED
  BY <1>1, <1>2, <1>3 DEF Objects

-----------------------------------------------------------------------------
(* Types, and what events are about.                                       *)

\* Events carried over skipped frames are about the detections carried with them.
EventsOfLast ==
  /\ events \subseteq Objects(last)
  /\ mode = "scheduled" => events = {}

SummariesInv == TypeOK /\ EventsOfLast /\ EventsMatchObjects

\* No summary, no event to match.
LEMMA SummariesInitially == Init => SummariesInv
<1> SUFFICES ASSUME Init PROVE SummariesInv
  OBVIOUS
<1>1. /\ mode \in {"scheduled", "plain", "roi", "tiling"}
      /\ scene \in Scenes /\ npuOk \in BOOLEAN /\ frameIdx \in 0 .. EveryN - 1
      /\ sinceReport \in 0 .. Interval /\ pushing \in BOOLEAN /\ lost \in BOOLEAN
      /\ events \in SUBSET Region
  <2>1. 0 \in 0 .. EveryN - 1 /\ 0 \in 0 .. Interval
    BY ReportsAssumption
  <2> QED
    BY <2>1 DEF Init
<1>2. /\ last \in Seen /\ payload \in Summary /\ accepted \in Summary
      /\ track \in [place : Region \cup {Nowhere}, age : 0 .. Dwell]
  BY ReportsAssumption DEF Init, Nothing, NoPayload, Seen, Summary
<1>3. /\ lastKey \in [count : Nat \cup {-1}, score : Nat]
      /\ tried \in [count : Nat \cup {-1}, score : Nat]
      /\ queue \in Seq(Summary) /\ Len(queue) <= QueueSize
  BY ReportsAssumption DEF Init, NoKey
<1>4. TypeOK
  BY <1>1, <1>2, <1>3 DEF TypeOK
<1>5. EventsOfLast /\ EventsMatchObjects
  BY DEF Init, EventsOfLast, EventsMatchObjects, NoPayload
<1> QED
  BY <1>4, <1>5 DEF SummariesInv

\* What a report at the end of a frame does to the variables it writes.
LEMMA ReportTypes ==
  ASSUME TypeOK, EventsMatchObjects, NEW d \in Seen, NEW evs \in SUBSET Region,
         evs \subseteq Objects(d), Report(d, evs)
  PROVE  /\ sinceReport' \in 0 .. Interval
         /\ lastKey' \in [count : Nat \cup {-1}, score : Nat]
         /\ pushing' \in BOOLEAN /\ payload' \in Summary
         /\ tried' \in [count : Nat \cup {-1}, score : Nat]
         /\ UNCHANGED <<queue, accepted, lost>>
         /\ payload'.events \subseteq Objects(payload')
<1>1. Key(d) \in [count : Nat \cup {-1}, score : Nat]
  BY DEF Key, Seen
<1>2. CASE UNCHANGED <<reportVars, mqttVars>>
  BY <1>2 DEF TypeOK, EventsMatchObjects, reportVars, mqttVars
<1>3. CASE sinceReport' = 0 /\ lastKey' = Key(d) /\ UNCHANGED mqttVars
  BY <1>1, <1>3, ReportsAssumption DEF TypeOK, EventsMatchObjects, mqttVars
<1>4. CASE sinceReport' = 0 /\ lastKey' = Key(d) /\ Send(d, evs)
  <2>1. /\ payload' = [objects |-> d.objects, score |-> d.score, events |-> evs]
        /\ pushing' = TRUE /\ tried' = Key(d) /\ UNCHANGED <<queue, accepted, lost>>
    BY <1>4 DEF Send
  <2>2. payload' \in Summary
    BY <2>1, ReportsAssumption DEF Summary, Seen
  <2>3. payload'.events \subseteq Objects(payload')
    BY <2>1 DEF Objects
  <2> QED
    BY <1>1, <1>4, <2>1, <2>2, <2>3, ReportsAssumption
<1> QED
  BY <1>2, <1>3, <1>4 DEF Report

\* What the filter lets pass holds the object that its event is about.
LEMMA InferredTypes ==
  ASSUME TypeOK, NEW d \in Seen
  PROVE  /\ Filtered(d) \in Seen
         /\ TrackAfter(d) \in [place : Region \cup {Nowhere}, age : 0 .. Dwell]
         /\ DwellEvents(d) \in SUBSET Region
         /\ DwellEvents(d) \subseteq Objects(Filtered(d))
<1>1. /\ Inside(d) \in Seq(Places)
      /\ \A k \in 1 .. Len(Inside(d)) : Inside(d)[k] \in Region /\ Inside(d)[k] \in Objects(d)
  BY ObjectsInFacts DEF Inside
<1> DEFINE o == Inside(d)
<1>2. o # <<>> => /\ Len(o) \in 1 .. Len(o) /\ 1 \in 1 .. Len(o)
  BY <1>1
<1>3. Filtered(d) \in Seen
  BY <1>1 DEF Filtered, Seen
<1>4. TrackAfter(d) \in [place : Region \cup {Nowhere}, age : 0 .. Dwell]
  <2>1. CASE ~Roi \/ o = <<>>
    BY <2>1 DEF TrackAfter, TypeOK
  <2>2. CASE ~(~Roi \/ o = <<>>)
    <3>1. o[Len(o)] \in Region
      BY <1>1, <1>2, <2>2
    <3>2. track.age \in 0 .. Dwell /\ 0 \in 0 .. Dwell
      BY ReportsAssumption DEF TypeOK
    <3>3. TrackAfter(d) =
            [place |-> o[Len(o)],
             age |-> IF \A i \in 1 .. Len(o) : o[i] = track.place THEN track.age ELSE 0]
      BY <2>2 DEF TrackAfter
    <3> HIDE DEF o
    <3> QED
      BY <3>1, <3>2, <3>3
  <2> QED
    BY <2>1, <2>2
<1>5. ASSUME NEW p \in DwellEvents(d)
      PROVE  p \in Region /\ p \in Objects(Filtered(d))
  <2>1. Roi /\ o # <<>> /\ p = o[1]
    BY <1>5 DEF DwellEvents
  <2>2. p \in Region /\ p \in Objects(d)
    BY <1>1, <1>2, <2>1
  <2>3. ASSUME Filtered(d) = d PROVE p \in Objects(Filtered(d))
    BY <2>2, <2>3
  <2>4. ASSUME Filtered(d) = [d EXCEPT !.objects = o] PROVE p \in Objects(Filtered(d))
    <3>1. Filtered(d).objects = o
      BY <2>4 DEF Seen
    <3>2. 1 \in 1 .. Len(o) /\ p = o[1]
      BY <1>2, <2>1
    <3> HIDE DEF o
    <3> QED
      BY <3>1, <3>2 DEF Objects
  <2> QED
    BY <2>2, <2>3, <2>4 DEF Filtered
<1> QED
  BY <1>3, <1>4, <1>5

\* Inference reports what can be seen.
LEMMA DetectionsSeen ==
  ASSUME TypeOK, NEW d \in Detections
  PROVE  d \in Seen
<1>1. scene \in Seen /\ last \in Seen
  BY ReportsAssumption DEF TypeOK
<1>2. \A S \in SUBSET Places : ObjectsIn(scene, S) \in Seq(Places)
  BY <1>1, ObjectsInFacts
<1>3. \A S \in SUBSET Places : [scene EXCEPT !.objects = ObjectsIn(scene, S)] \in Seen
  BY <1>1, <1>2 DEF Seen
<1> QED
  BY <1>1, <1>3 DEF Detections

\* A frame, whatever it finds, reports what it found.
LEMMA FrameMatches ==
  ASSUME SummariesInv, Frame
  PROVE  SummariesInv'
<1> DEFINE Reported ==
      /\ last' \in Seen /\ events' \in SUBSET Region /\ events' \subseteq Objects(last')
      /\ mode' = "scheduled" => events' = {}
      /\ track' \in [place : Region \cup {Nowhere}, age : 0 .. Dwell]
      /\ frameIdx' \in 0 .. EveryN - 1
      /\ Report(last', events')
      /\ UNCHANGED envVars
<1>1. TypeOK /\ EventsOfLast /\ EventsMatchObjects
  BY DEF SummariesInv
<1>2. ASSUME InferredFrame PROVE Reported
  <2>1. PICK d \in Detections :
          last' = Filtered(d) /\ track' = TrackAfter(d) /\ events' = DwellEvents(d)
    BY <1>2 DEF InferredFrame
  <2>2. d \in Seen
    BY <1>1, DetectionsSeen
  <2>3. /\ last' \in Seen /\ events' \in SUBSET Region /\ events' \subseteq Objects(last')
        /\ track' \in [place : Region \cup {Nowhere}, age : 0 .. Dwell]
    BY <1>1, <2>1, <2>2, InferredTypes
  <2>4. 1 % EveryN \in 0 .. EveryN - 1
    BY ReportsAssumption
  <2> QED
    BY <1>2, <2>3, <2>4 DEF InferredFrame, envVars
<1>3. ASSUME SkippedFrame PROVE Reported
  <2>1. (frameIdx + 1) % EveryN \in 0 .. EveryN - 1
    BY <1>1, ReportsAssumption DEF TypeOK
  <2>2. UNCHANGED <<last, events, track, mode>>
    BY <1>3 DEF SkippedFrame, envVars
  <2>3. last' \in Seen /\ events' \in SUBSET Region /\ events' \subseteq Objects(last')
    BY <1>1, <2>2 DEF TypeOK, EventsOfLast
  <2>4. track' \in [place : Region \cup {Nowhere}, age : 0 .. Dwell]
    BY <1>1, <2>2 DEF TypeOK
  <2>5. frameIdx' \in 0 .. EveryN - 1 /\ Report(last', events') /\ UNCHANGED envVars
    BY <1>3, <2>1, <2>2 DEF SkippedFrame
  <2> QED
    BY <1>1, <2>2, <2>3, <2>4, <2>5 DEF EventsOfLast
<1>4. ASSUME ScheduledResult PROVE Reported
  <2>1. events = {} /\ events' = {} /\ last' = scene /\ scene \in Seen
    BY <1>1, <1>4, ReportsAssumption DEF ScheduledResult, EventsOfLast, TypeOK
  <2>2. UNCHANGED <<frameIdx, track, envVars>> /\ Report(last', events')
    BY <1>4, <2>1 DEF ScheduledResult
  <2> QED
    BY <1>1, <2>1, <2>2 DEF TypeOK
<1>5. Reported
  BY <1>2, <1>3, <1>4 DEF Frame
<1>6. /\ sinceReport' \in 0 .. Interval
      /\ lastKey' \in [count : Nat \cup {-1}, score : Nat]
      /\ pushing' \in BOOLEAN /\ payload' \in Summary
      /\ tried' \in [count : Nat \cup {-1}, score : Nat]
      /\ UNCHANGED <<queue, accepted, lost>>
      /\ payload'.events \subseteq Objects(payload')
  <2> DEFINE d == last'
             evs == events'
  <2>1. d \in Seen /\ evs \in SUBSET Region /\ evs \subseteq Objects(d) /\ Report(d, evs)
    BY <1>5
  <2> HIDE DEF d, evs
  <2> QED
    BY <1>1, <2>1, ReportTypes
<1>7. TypeOK'
  BY <1>1, <1>5, <1>6 DEF TypeOK, envVars
<1>8. EventsOfLast'
  BY <1>5 DEF EventsOfLast, Objects
<1>9. EventsMatchObjects'
  BY <1>1, <1>6 DEF EventsMatchObjects, Objects
<1> QED
  BY <1>7, <1>8, <1>9 DEF SummariesInv

\* What is pushed, or given up after the timeout, has matched before.
LEMMA PushMatches ==
  ASSUME SummariesInv, PushEnds
  PROVE  SummariesInv'
<1>1. TypeOK /\ EventsOfLast /\ EventsMatchObjects
  BY DEF SummariesInv
<1>2. /\ UNCHANGED <<mode, scene, npuOk, frameIdx, last, track, events, sinceReport, lastKey, tried>>
      /\ pushing' = FALSE /\ payload' = NoPayload
  BY DEF PushEnds, envVars, inferVars, reportVars
<1>3. NoPayload \in Summary /\ NoPayload.events = {}
  BY DEF NoPayload, Summary
<1>4. \/ queue' = queue /\ accepted' = accepted /\ lost' = TRUE
      \/ Len(queue) < QueueSize /\ queue' = Append(queue, payload) /\ accepted' = payload /\ lost' = FALSE
  BY DEF PushEnds
<1>5. /\ queue' \in Seq(Summary) /\ Len(queue') <= QueueSize
      /\ accepted' \in Summary /\ lost' \in BOOLEAN
      /\ \A i \in 1 .. Len(queue') : queue'[i].events \subseteq Objects(queue'[i])
  <2>1. CASE queue' = queue /\ accepted' = accepted /\ lost' = TRUE
    BY <1>1, <2>1 DEF TypeOK, EventsMatchObjects, Objects
  <2>2. CASE Len(queue) < QueueSize /\ queue' = Append(queue, payload) /\ accepted' = payload /\ lost' = FALSE
    <3>1. /\ queue \in Seq(Summary) /\ payload \in Summary /\ Len(queue) \in Nat
          /\ \A i \in 1 .. Len(queue) : queue[i].events \subseteq Objects(queue[i])
          /\ payload.events \subseteq Objects(payload)
      BY <1>1 DEF TypeOK, EventsMatchObjects
    <3>2. /\ queue' \in Seq(Summary) /\ Len(queue') = Len(queue) + 1
          /\ \A i \in 1 .. Len(queue') : queue'[i] = IF i <= Len(queue) THEN queue[i] ELSE payload
      BY <2>2, <3>1
    <3>3. \A i \in 1 .. Len(queue') : queue'[i].events \subseteq Objects(queue'[i])
      BY <3>1, <3>2
    <3>4. Len(queue') <= QueueSize
      BY <2>2, <3>1, <3>2, ReportsAssumption
    <3> QED
      BY <2>2, <3>1, <3>2, <3>3, <3>4
  <2> QED
    BY <1>4, <2>1, <2>2
<1>6. TypeOK'
  BY <1>1, <1>2, <1>3, <1>5 DEF TypeOK
<1>7. EventsOfLast'
  BY <1>1, <1>2 DEF EventsOfLast, Objects
<1>8. EventsMatchObjects'
  BY <1>2, <1>3, <1>5 DEF EventsMatchObjects, Objects
<1> QED
  BY <1>6, <1>7, <1>8 DEF SummariesInv

\* Nobody else touches events or detections.
LEMMA OthersMatch ==
  ASSUME SummariesInv, SceneChanges \/ NpuToggles \/ Tick \/ MqttPublish \/ UNCHANGED vars
  PROVE  SummariesInv'
<1>1. TypeOK /\ EventsOfLast /\ EventsMatchObjects
  BY DEF SummariesInv
<1>2. UNCHANGED <<mode, frameIdx, last, events, lastKey, pushing, payload, tried, accepted, lost>>
  BY DEF SceneChanges, NpuToggles, Tick, MqttPublish, vars, envVars, inferVars, reportVars, mqttVars
<1>3. scene' \in Scenes /\ npuOk' \in BOOLEAN
  BY <1>1 DEF SceneChanges, NpuToggles, Tick, MqttPublish, vars, envVars, TypeOK
<1>4. /\ track' \in [place : Region \cup {Nowhere}, age : 0 .. Dwell]
      /\ sinceReport' \in 0 .. Interval
  <2>1. CASE Tick
    <3>1. /\ sinceReport' = Older(sinceReport, Interval)
          /\ track' = [track EXCEPT !.age = Older(@, Dwell)]
          /\ track \in [place : Region \cup {Nowhere}, age : 0 .. Dwell]
          /\ sinceReport \in 0 .. Interval
      BY <1>1, <2>1 DEF Tick, TypeOK
    <3>2. Older(sinceReport, Interval) \in 0 .. Interval /\ Older(track.age, Dwell) \in 0 .. Dwell
      BY <3>1, ReportsAssumption DEF Older
    <3> QED
      BY <3>1, <3>2
  <2>2. CASE UNCHANGED <<track, sinceReport>>
    BY <1>1, <2>2 DEF TypeOK
  <2> QED
    BY <2>1, <2>2 DEF SceneChanges, NpuToggles, MqttPublish, vars, inferVars, reportVars
<1>5. /\ queue' \in Seq(Summary) /\ Len(queue') <= QueueSize
      /\ \A i \in 1 .. Len(queue') : queue'[i].events \subseteq Objects(queue'[i])
  <2>1. CASE queue' = queue
    BY <1>1, <2>1 DEF TypeOK, EventsMatchObjects
  <2>2. CASE MqttPublish
    <3>1. /\ queue \in Seq(Summary) /\ queue # <<>> /\ Len(queue) <= QueueSize
          /\ \A i \in 1 .. Len(queue) : queue[i].events \subseteq Objects(queue[i])
          /\ queue' = Tail(queue)
      BY <1>1, <2>2 DEF TypeOK, EventsMatchObjects, MqttPublish
    <3>2. /\ queue' \in Seq(Summary) /\ Len(queue') = Len(queue) - 1
          /\ \A i \in 1 .. Len(queue') : queue'[i] = queue[i + 1] /\ i + 1 \in 1 .. Len(queue)
      BY <3>1
    <3> QED
      BY <3>1, <3>2, ReportsAssumption
  <2> QED
    BY <2>1, <2>2 DEF SceneChanges, NpuToggles, Tick, vars, mqttVars
<1>6. TypeOK'
  BY <1>1, <1>2, <1>3, <1>4, <1>5 DEF TypeOK
<1>7. EventsOfLast'
  BY <1>1, <1>2 DEF EventsOfLast, Objects
<1>8. EventsMatchObjects'
  BY <1>1, <1>2, <1>5 DEF EventsMatchObjects, Objects
<1> QED
  BY <1>6, <1>7, <1>8 DEF SummariesInv

\* So summaries always match their events.
LEMMA SummariesAlwaysMatch == Spec => []SummariesInv
<1>1. SummariesInv /\ [Next]_vars => SummariesInv'
  BY FrameMatches, PushMatches, OthersMatch DEF Next
<1> QED
  BY SummariesInitially, <1>1, PTL DEF Spec

\* TypeOK for every scene, region and limit; in particular no more summaries wait
\* than the queue holds.
THEOREM TypeCorrect == Spec => []TypeOK
BY SummariesAlwaysMatch, PTL DEF SummariesInv

\* No summary reports that an object stays that it does not list, whatever is
\* carried over skipped and failed frames and whatever a failed tile hides.
THEOREM EventsAreOfTheirSummary == Spec => []EventsMatchObjects
BY SummariesAlwaysMatch, PTL DEF SummariesInv

-----------------------------------------------------------------------------
(* The queue of summaries.                                                 *)

\* A summary that is appended is the last one.
LEMMA AppendedIsLast ==
  ASSUME NEW S, NEW q \in Seq(S), NEW e \in S
  PROVE  /\ Append(q, e) # <<>>
         /\ Append(q, e)[Len(Append(q, e))] = e
<1>1. /\ Len(Append(q, e)) = Len(q) + 1 /\ Len(q) \in Nat
      /\ Append(q, e)[Len(q) + 1] = e
  OBVIOUS
<1>2. Len(Append(q, e)) # Len(<<>>)
  BY <1>1
<1>3. Append(q, e) # <<>>
  BY <1>2, Zenon
<1>q. QED
  BY <1>1, <1>3

\* Inference and the MQTT thread use the queue as its promise allows: a summary
\* that was accepted is published in its turn.
THEOREM SummariesUseTheQueue == Spec => SummariesAreQueued
<1>1. Init => MqttQueue!Init
  BY DEF Init, MqttQueue!Init
<1>2. ASSUME SummariesInv, [Next]_vars PROVE [MqttQueue!Next]_MqttQueue!qvars
  <2>0. queue \in Seq(Summary) /\ payload \in Summary
    BY <1>2 DEF SummariesInv, TypeOK
  <2>1. ASSUME queue' = queue PROVE [MqttQueue!Next]_MqttQueue!qvars
    BY <2>1 DEF MqttQueue!qvars
  <2>2. CASE PushEnds
    <3>1. CASE Len(queue) < QueueSize
      <4>1. queue' = Append(queue, payload)
        BY <2>2, <3>1 DEF PushEnds
      <4>2. queue' # <<>> /\ queue'[Len(queue')] = payload
        BY <2>0, <4>1, AppendedIsLast
      <4>3. MqttQueue!Put
        BY <3>1, <4>1, <4>2 DEF MqttQueue!Put, MqttQueue!Joins
      <4>q. QED
        BY <4>3 DEF MqttQueue!Next
    <3>2. CASE ~(Len(queue) < QueueSize)
      BY <2>1, <2>2, <3>2 DEF PushEnds
    <3>q. QED
      BY <3>1, <3>2
  <2>3. CASE MqttPublish
    <3>1. MqttQueue!Take
      BY <2>3 DEF MqttPublish, MqttQueue!Take
    <3>q. QED
      BY <3>1 DEF MqttQueue!Next
  <2>4. CASE Frame
    <3>1. ASSUME NEW d, NEW evs, Report(d, evs)
          PROVE  queue' = queue
      BY <3>1 DEF Report, Send, mqttVars
    <3>q. QED
      BY <2>1, <2>4, <3>1 DEF Frame, InferredFrame, SkippedFrame, ScheduledResult
  <2>5. CASE SceneChanges \/ NpuToggles \/ Tick \/ UNCHANGED vars
    BY <2>1, <2>5 DEF SceneChanges, NpuToggles, Tick, mqttVars, vars
  <2>q. QED
    BY <1>2, <2>2, <2>3, <2>4, <2>5 DEF Next
<1>q. QED
  BY <1>1, <1>2, SummariesAlwaysMatch, PTL DEF Spec, SummariesAreQueued, MqttQueue!Spec
=============================================================================
