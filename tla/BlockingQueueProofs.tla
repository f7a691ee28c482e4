------------------------- MODULE BlockingQueueProofs ------------------------
(***************************************************************************)
(* BlockingQueue loses no wakeup, keeps its capacity and the order of its  *)
(* items, for any finite set of threads and any capacity.                  *)
(***************************************************************************)
EXTENDS BlockingQueue, FiniteSetTheorems, TLAPS

\* Counting: what a set loses and gains bounds its size.
LEMMA CardinalityMonotone ==
  ASSUME NEW S, NEW T, IsFiniteSet(T), S \subseteq T
  PROVE  /\ Cardinality(S) \in Nat
         /\ Cardinality(T) \in Nat
         /\ Cardinality(S) <= Cardinality(T)
BY FS_Subset, FS_CardinalityType

\* A set with a member that the other lacks, and all of the other's, is larger.
LEMMA CardinalityGain ==
  ASSUME NEW S, NEW T, IsFiniteSet(T), S \subseteq T, NEW w \in T, w \notin S
  PROVE  /\ Cardinality(S) \in Nat
         /\ Cardinality(T) \in Nat
         /\ Cardinality(S) + 1 <= Cardinality(T)
<1>1. IsFiniteSet(S)
  BY FS_Subset
<1>2. Cardinality(S \cup {w}) = Cardinality(S) + 1
  BY <1>1, FS_AddElement
<1>3. S \cup {w} \subseteq T
  OBVIOUS
<1>4. QED
  BY <1>1, <1>2, <1>3, FS_Subset, FS_CardinalityType

\* A set that lacks at most one member of the other is smaller by at most one.
LEMMA CardinalityLoss ==
  ASSUME NEW S, NEW T, IsFiniteSet(S), IsFiniteSet(T), NEW t, S \ {t} \subseteq T
  PROVE  /\ Cardinality(S) \in Nat
         /\ Cardinality(T) \in Nat
         /\ Cardinality(S) - 1 <= Cardinality(T)
<1>1. /\ IsFiniteSet(S \ {t})
      /\ Cardinality(S \ {t}) = IF t \in S THEN Cardinality(S) - 1 ELSE Cardinality(S)
  BY FS_RemoveElement
<1>2. Cardinality(S) \in Nat /\ Cardinality(T) \in Nat /\ Cardinality(S \ {t}) \in Nat
  BY <1>1, FS_CardinalityType
<1>3. Cardinality(S \ {t}) <= Cardinality(T)
  BY FS_Subset
<1>4. QED
  BY <1>1, <1>2, <1>3

\* A member may be exchanged for another one without loss.
LEMMA CardinalityExchange ==
  ASSUME NEW S, NEW T, IsFiniteSet(S), IsFiniteSet(T),
         NEW t, S \ {t} \subseteq T, NEW w \in T, w \notin S
  PROVE  /\ Cardinality(S) \in Nat
         /\ Cardinality(T) \in Nat
         /\ Cardinality(S) <= Cardinality(T)
<1>1. /\ IsFiniteSet(S \ {t})
      /\ Cardinality(S \ {t}) = IF t \in S THEN Cardinality(S) - 1 ELSE Cardinality(S)
  BY FS_RemoveElement
<1>2. Cardinality(S) \in Nat /\ Cardinality(T) \in Nat /\ Cardinality(S \ {t}) \in Nat
  BY <1>1, FS_CardinalityType
<1>3. Cardinality(S \ {t}) + 1 <= Cardinality(T)
  BY CardinalityGain
<1>4. QED
  BY <1>1, <1>2, <1>3

\* Only finitely many threads push or pop, before a step and after it.
LEMMA FiniteHands ==
  /\ IsFiniteSet(Poppers) /\ IsFiniteSet(Poppers')
  /\ IsFiniteSet(Pushers) /\ IsFiniteSet(Pushers')
<1>1. /\ Poppers \subseteq Threads /\ Poppers' \subseteq Threads
      /\ Pushers \subseteq Threads /\ Pushers' \subseteq Threads
  BY DEF Poppers, Pushers
<1>2. QED
  BY <1>1, FS_Subset, QueueAssumption

-----------------------------------------------------------------------------
IInv == TypeOK /\ NoLostPopper /\ NoLostPusher /\ FifoAndAccounted

\* The queue starts empty, with nobody asleep.
LEMMA InitIInv == Init => IInv
<1> SUFFICES ASSUME Init PROVE IInv
  OBVIOUS
<1>1. queue \in Seq(Nat) /\ Len(queue) = 0
  BY DEF Init
<1>2. /\ call \in [Threads -> {"none", "push", "pop", "notify"}]
      /\ timed \in [Threads -> BOOLEAN]
      /\ expired \in [Threads -> BOOLEAN]
  BY DEF Init
<1>3. TypeOK
  <2>1. Len(queue) <= MaxSize
    BY <1>1, QueueAssumption
  <2>2. QED
    BY <1>1, <1>2, <2>1 DEF Init, TypeOK
<1>4. QED
  BY <1>1, <1>3 DEF Init, IInv, NoLostPopper, NoLostPusher, FifoAndAccounted

\* What Append and Tail do to a queue.
LEMMA AppendTail ==
  ASSUME NEW s \in Seq(Nat), NEW x \in Nat
  PROVE  /\ Len(s) \in Nat
         /\ Append(s, x) \in Seq(Nat)
         /\ Len(Append(s, x)) = Len(s) + 1
         /\ \A i \in 1 .. Len(s) : Append(s, x)[i] = s[i]
         /\ Append(s, x)[Len(s) + 1] = x
         /\ s = <<>> <=> Len(s) = 0
         /\ s # <<>> => /\ Tail(s) \in Seq(Nat)
                        /\ Len(Tail(s)) = Len(s) - 1
                        /\ \A i \in 1 .. Len(s) - 1 : Tail(s)[i] = s[i + 1]
OBVIOUS

\* In every step the queue keeps its items, an accepted item goes to its tail,
\* a delivered one leaves its head, or one replaces the other.
LEMMA QueueStep ==
  ASSUME TypeOK, Next
  PROVE  \/ UNCHANGED <<queue, accepted, delivered, evicted>>
         \/ /\ Len(queue) < MaxSize
            /\ queue' = Append(queue, accepted + 1)
            /\ accepted' = accepted + 1
            /\ UNCHANGED <<delivered, evicted>>
         \/ /\ queue # <<>>
            /\ queue' = Tail(queue)
            /\ delivered' = delivered + 1
            /\ UNCHANGED <<accepted, evicted>>
         \/ /\ Len(queue) >= MaxSize
            /\ queue' = Append(Tail(queue), accepted + 1)
            /\ accepted' = accepted + 1
            /\ evicted' = evicted + 1
            /\ UNCHANGED delivered
<1> USE QueueAssumption DEF history
<1>0. Len(queue) \in Nat
  BY DEF TypeOK
<1>1. ASSUME NEW t \in Threads, NEW deadline \in BOOLEAN, PushCall(t, deadline) \/ PushResume(t)
      PROVE  \/ UNCHANGED <<queue, accepted, delivered, evicted>>
             \/ /\ Len(queue) < MaxSize
                /\ queue' = Append(queue, accepted + 1)
                /\ accepted' = accepted + 1
                /\ UNCHANGED <<delivered, evicted>>
  BY <1>1 DEF PushCall, PushResume, CanPush, Put
<1>2. ASSUME NEW t \in Threads, NEW deadline \in BOOLEAN, PopCall(t, deadline) \/ PopResume(t)
      PROVE  \/ UNCHANGED <<queue, accepted, delivered, evicted>>
             \/ /\ queue # <<>>
                /\ queue' = Tail(queue)
                /\ delivered' = delivered + 1
                /\ UNCHANGED <<accepted, evicted>>
  BY <1>2 DEF PopCall, PopResume, CanPop, Take
<1>3. ASSUME NEW t \in Threads, PushLatest(t)
      PROVE  \/ /\ Len(queue) < MaxSize
                /\ queue' = Append(queue, accepted + 1)
                /\ accepted' = accepted + 1
                /\ UNCHANGED <<delivered, evicted>>
             \/ /\ Len(queue) >= MaxSize
                /\ queue' = Append(Tail(queue), accepted + 1)
                /\ accepted' = accepted + 1
                /\ evicted' = evicted + 1
                /\ UNCHANGED delivered
  BY <1>0, <1>3 DEF PushLatest, EvictOldest
<1>4. ASSUME NEW t \in Threads, Notify(t) \/ Expire(t) \/ SpuriousWakeup(t) \/ Close
      PROVE  UNCHANGED <<queue, accepted, delivered, evicted>>
  BY <1>4 DEF Notify, Expire, SpuriousWakeup, Close
<1>5. CASE Close
  BY <1>5 DEF Close
<1>6. QED
  BY <1>1, <1>2, <1>3, <1>4, <1>5 DEF Next

\* The threads blocked in a condition variable are in the matching call.
LEMMA CallStep ==
  ASSUME TypeOK, Next
  PROVE  /\ call' \in [Threads -> {"none", "push", "pop", "notify"}]
         /\ timed' \in [Threads -> BOOLEAN]
         /\ expired' \in [Threads -> BOOLEAN]
         /\ notFull' \subseteq {u \in Threads : call'[u] = "push"}
         /\ notEmpty' \subseteq {u \in Threads : call'[u] = "pop"}
         /\ closed' \in BOOLEAN
<1> DEFINE Goal ==
         /\ call' \in [Threads -> {"none", "push", "pop", "notify"}]
         /\ timed' \in [Threads -> BOOLEAN]
         /\ expired' \in [Threads -> BOOLEAN]
         /\ notFull' \subseteq {u \in Threads : call'[u] = "push"}
         /\ notEmpty' \subseteq {u \in Threads : call'[u] = "pop"}
         /\ closed' \in BOOLEAN
<1> SUFFICES Goal
  OBVIOUS
<1>0. ASSUME NEW t \in Threads
      PROVE  /\ [call EXCEPT ![t] = "none"] \in [Threads -> {"none", "push", "pop", "notify"}]
             /\ [call EXCEPT ![t] = "push"] \in [Threads -> {"none", "push", "pop", "notify"}]
             /\ [call EXCEPT ![t] = "pop"] \in [Threads -> {"none", "push", "pop", "notify"}]
             /\ [call EXCEPT ![t] = "notify"] \in [Threads -> {"none", "push", "pop", "notify"}]
             /\ [timed EXCEPT ![t] = FALSE] \in [Threads -> BOOLEAN]
             /\ \A b \in BOOLEAN : [timed EXCEPT ![t] = b] \in [Threads -> BOOLEAN]
             /\ [expired EXCEPT ![t] = FALSE] \in [Threads -> BOOLEAN]
             /\ [expired EXCEPT ![t] = TRUE] \in [Threads -> BOOLEAN]
  BY DEF TypeOK
<1>1. ASSUME NEW t \in Threads, NEW deadline \in BOOLEAN, PushCall(t, deadline)
      PROVE  Goal
  <2>1. /\ closed' = closed
        /\ notEmpty' \subseteq notEmpty
        /\ \/ UNCHANGED callVars /\ notFull' = notFull
           \/ /\ call' = [call EXCEPT ![t] = "push"]
              /\ timed' = [timed EXCEPT ![t] = deadline]
              /\ expired' = expired
              /\ notFull' = notFull \cup {t}
              /\ call[t] = "none"
    BY <1>1 DEF PushCall, Put, WakePopper
  <2>2. CASE UNCHANGED callVars /\ notFull' = notFull
    BY <2>1, <2>2 DEF TypeOK, callVars
  <2>3. CASE ~(UNCHANGED callVars /\ notFull' = notFull)
    <3>1. /\ call' = [call EXCEPT ![t] = "push"]
          /\ timed' = [timed EXCEPT ![t] = deadline]
          /\ expired' = expired /\ closed' = closed
          /\ notFull' = notFull \cup {t} /\ call[t] = "none"
      BY <2>1, <2>3
    <3>2. \A u \in Threads : call'[u] = IF u = t THEN "push" ELSE call[u]
      BY <3>1 DEF TypeOK
    <3>3. notFull' \subseteq {u \in Threads : call'[u] = "push"}
      BY <3>1, <3>2 DEF TypeOK
    <3>4. notEmpty' \subseteq {u \in Threads : call'[u] = "pop"}
      BY <2>1, <3>1, <3>2 DEF TypeOK
    <3>5. QED
      BY <1>0, <3>1, <3>3, <3>4 DEF TypeOK
  <2>4. QED
    BY <2>2, <2>3
<1>2. ASSUME NEW t \in Threads, NEW deadline \in BOOLEAN, PopCall(t, deadline)
      PROVE  Goal
  <2>1. /\ closed' = closed
        /\ notFull' \subseteq notFull
        /\ \/ UNCHANGED callVars /\ notEmpty' = notEmpty
           \/ /\ call' = [call EXCEPT ![t] = "pop"]
              /\ timed' = [timed EXCEPT ![t] = deadline]
              /\ expired' = expired
              /\ notEmpty' = notEmpty \cup {t}
              /\ call[t] = "none"
    BY <1>2 DEF PopCall, Take, WakePusher
  <2>2. CASE UNCHANGED callVars /\ notEmpty' = notEmpty
    BY <2>1, <2>2 DEF TypeOK, callVars
  <2>3. CASE ~(UNCHANGED callVars /\ notEmpty' = notEmpty)
    <3>1. /\ call' = [call EXCEPT ![t] = "pop"]
          /\ timed' = [timed EXCEPT ![t] = deadline]
          /\ expired' = expired /\ closed' = closed
          /\ notEmpty' = notEmpty \cup {t} /\ call[t] = "none"
      BY <2>1, <2>3
    <3>2. \A u \in Threads : call'[u] = IF u = t THEN "pop" ELSE call[u]
      BY <3>1 DEF TypeOK
    <3>3. notEmpty' \subseteq {u \in Threads : call'[u] = "pop"}
      BY <3>1, <3>2 DEF TypeOK
    <3>4. notFull' \subseteq {u \in Threads : call'[u] = "push"}
      BY <2>1, <3>1, <3>2 DEF TypeOK
    <3>5. QED
      BY <1>0, <3>1, <3>3, <3>4 DEF TypeOK
  <2>4. QED
    BY <2>2, <2>3
<1>3. ASSUME NEW t \in Threads, PushResume(t)
      PROVE  Goal
  <2>1. /\ closed' = closed
        /\ notEmpty' \subseteq notEmpty
        /\ \/ UNCHANGED callVars /\ notFull' = notFull \cup {t}
           \/ Return(t) /\ notFull' = notFull
    BY <1>3 DEF PushResume, Put, WakePopper
  <2>2. QED
    BY <1>0, <1>3, <2>1 DEF PushResume, TypeOK, callVars, Return
<1>4. ASSUME NEW t \in Threads, PushLatest(t)
      PROVE  Goal
  BY <1>0, <1>4 DEF PushLatest, TypeOK
<1>5. ASSUME NEW t \in Threads, Notify(t)
      PROVE  Goal
  BY <1>0, <1>5 DEF Notify, TypeOK, WakePopper, Return
<1>6. ASSUME NEW t \in Threads, PopResume(t)
      PROVE  Goal
  <2>1. /\ closed' = closed
        /\ notFull' \subseteq notFull
        /\ \/ UNCHANGED callVars /\ notEmpty' = notEmpty \cup {t}
           \/ Return(t) /\ notEmpty' = notEmpty
    BY <1>6 DEF PopResume, Take, WakePusher
  <2>2. QED
    BY <1>0, <1>6, <2>1 DEF PopResume, TypeOK, callVars, Return
<1>7. ASSUME NEW t \in Threads, Expire(t)
      PROVE  Goal
  BY <1>0, <1>7 DEF Expire, TypeOK
<1>8. ASSUME NEW t \in Threads, SpuriousWakeup(t)
      PROVE  Goal
  BY <1>8 DEF SpuriousWakeup, TypeOK, callVars
<1>9. CASE Close
  BY <1>9 DEF Close, TypeOK, callVars
<1>10. QED
  BY <1>1, <1>2, <1>3, <1>4, <1>5, <1>6, <1>7, <1>8, <1>9 DEF Next

\* No step leaves the types; the number of items stays within the capacity.
LEMMA TypeStep ==
  ASSUME TypeOK, Next
  PROVE  TypeOK'
<1>1. /\ queue' \in Seq(Nat)
      /\ Len(queue') <= MaxSize
      /\ accepted' \in Nat /\ delivered' \in Nat /\ evicted' \in Nat
  <2>1. /\ queue \in Seq(Nat) /\ Len(queue) \in Nat /\ Len(queue) <= MaxSize
        /\ accepted \in Nat /\ delivered \in Nat /\ evicted \in Nat
        /\ MaxSize \in Nat \ {0}
    BY QueueAssumption DEF TypeOK
  <2>2. /\ Append(queue, accepted + 1) \in Seq(Nat)
        /\ Len(Append(queue, accepted + 1)) = Len(queue) + 1
        /\ queue = <<>> <=> Len(queue) = 0
        /\ queue # <<>> => Tail(queue) \in Seq(Nat) /\ Len(Tail(queue)) = Len(queue) - 1
    BY <2>1, AppendTail
  <2>3. queue # <<>> => /\ Append(Tail(queue), accepted + 1) \in Seq(Nat)
                        /\ Len(Append(Tail(queue), accepted + 1)) = Len(queue)
    <3>1. SUFFICES ASSUME queue # <<>>
                   PROVE  /\ Append(Tail(queue), accepted + 1) \in Seq(Nat)
                          /\ Len(Append(Tail(queue), accepted + 1)) = Len(queue)
      OBVIOUS
    <3>2. Tail(queue) \in Seq(Nat) /\ Len(Tail(queue)) = Len(queue) - 1
      BY <2>2, <3>1
    <3>3. accepted + 1 \in Nat
      BY <2>1
    <3>4. /\ Append(Tail(queue), accepted + 1) \in Seq(Nat)
          /\ Len(Append(Tail(queue), accepted + 1)) = Len(Tail(queue)) + 1
      BY <3>2, <3>3, AppendTail
    <3>5. QED
      BY <2>1, <3>2, <3>4
  <2>4. CASE UNCHANGED <<queue, accepted, delivered, evicted>>
    BY <2>1, <2>4
  <2>5. CASE /\ Len(queue) < MaxSize
             /\ queue' = Append(queue, accepted + 1)
             /\ accepted' = accepted + 1
             /\ UNCHANGED <<delivered, evicted>>
    BY <2>1, <2>2, <2>5
  <2>6. CASE /\ queue # <<>>
             /\ queue' = Tail(queue)
             /\ delivered' = delivered + 1
             /\ UNCHANGED <<accepted, evicted>>
    BY <2>1, <2>2, <2>6
  <2>7. CASE /\ Len(queue) >= MaxSize
             /\ queue' = Append(Tail(queue), accepted + 1)
             /\ accepted' = accepted + 1
             /\ evicted' = evicted + 1
             /\ UNCHANGED delivered
    <3>1. queue # <<>>
      BY <2>1, <2>2, <2>7
    <3>2. QED
      BY <2>1, <2>3, <2>7, <3>1
  <2>8. QED
    BY <2>4, <2>5, <2>6, <2>7, QueueStep
<1>2. QED
  BY <1>1, CallStep DEF TypeOK

-----------------------------------------------------------------------------
\* FifoAndAccounted, from the shape of the step.
LEMMA FifoStep ==
  ASSUME TypeOK, FifoAndAccounted, Next
  PROVE  FifoAndAccounted'
<1>1. /\ queue \in Seq(Nat) /\ Len(queue) \in Nat
      /\ accepted \in Nat /\ delivered \in Nat /\ evicted \in Nat
      /\ MaxSize \in Nat \ {0}
  BY QueueAssumption DEF TypeOK
<1>2. /\ accepted = delivered + evicted + Len(queue)
      /\ \A i \in 1 .. Len(queue) : queue[i] = delivered + evicted + i
  BY DEF FifoAndAccounted
<1>3. accepted + 1 \in Nat
  BY <1>1
<1>4. CASE UNCHANGED <<queue, accepted, delivered, evicted>>
  BY <1>4 DEF FifoAndAccounted
<1>5. CASE /\ queue' = Append(queue, accepted + 1)
           /\ accepted' = accepted + 1
           /\ UNCHANGED <<delivered, evicted>>
  <2>1. /\ Len(queue') = Len(queue) + 1
        /\ \A i \in 1 .. Len(queue) : queue'[i] = queue[i]
        /\ queue'[Len(queue) + 1] = accepted + 1
    BY <1>1, <1>3, <1>5, AppendTail
  <2>2. \A i \in 1 .. Len(queue') : queue'[i] = delivered + evicted + i
    <3>1. SUFFICES ASSUME NEW i \in 1 .. Len(queue')
                   PROVE  queue'[i] = delivered + evicted + i
      OBVIOUS
    <3>2. i \in 1 .. Len(queue) \/ i = Len(queue) + 1
      BY <1>1, <2>1
    <3>3. QED
      BY <1>1, <1>2, <2>1, <3>2
  <2>3. QED
    BY <1>1, <1>2, <1>5, <2>1, <2>2 DEF FifoAndAccounted
<1>6. CASE /\ queue # <<>>
           /\ queue' = Tail(queue)
           /\ delivered' = delivered + 1
           /\ UNCHANGED <<accepted, evicted>>
  <2>1. /\ Len(queue') = Len(queue) - 1
        /\ \A i \in 1 .. Len(queue) - 1 : queue'[i] = queue[i + 1]
    BY <1>1, <1>3, <1>6, AppendTail
  <2>2. \A i \in 1 .. Len(queue') : queue'[i] = delivered' + evicted + i
    BY <1>1, <1>2, <1>6, <2>1
  <2>3. QED
    BY <1>1, <1>2, <1>6, <2>1, <2>2 DEF FifoAndAccounted
<1>7. CASE /\ Len(queue) >= MaxSize
           /\ queue' = Append(Tail(queue), accepted + 1)
           /\ accepted' = accepted + 1
           /\ evicted' = evicted + 1
           /\ UNCHANGED delivered
  <2>1. queue # <<>>
    BY <1>1, <1>7, AppendTail
  <2>2. /\ Tail(queue) \in Seq(Nat)
        /\ Len(Tail(queue)) = Len(queue) - 1
        /\ \A i \in 1 .. Len(queue) - 1 : Tail(queue)[i] = queue[i + 1]
    BY <1>1, <1>3, <2>1, AppendTail
  <2>3. /\ Len(queue') = Len(Tail(queue)) + 1
        /\ \A i \in 1 .. Len(Tail(queue)) : queue'[i] = Tail(queue)[i]
        /\ queue'[Len(Tail(queue)) + 1] = accepted + 1
    BY <1>3, <1>7, <2>2, AppendTail
  <2>4. Len(queue') = Len(queue)
    BY <1>1, <2>2, <2>3
  <2>5. \A i \in 1 .. Len(queue) : queue'[i] = delivered + (evicted + 1) + i
    <3>1. SUFFICES ASSUME NEW i \in 1 .. Len(queue)
                   PROVE  queue'[i] = delivered + (evicted + 1) + i
      OBVIOUS
    <3>2. CASE i = Len(queue)
      BY <1>1, <1>2, <2>2, <2>3, <3>2
    <3>3. CASE i # Len(queue)
      <4>1. i \in 1 .. Len(queue) - 1 /\ i + 1 \in 1 .. Len(queue)
        BY <1>1, <3>3
      <4>2. queue'[i] = queue[i + 1]
        BY <2>2, <2>3, <4>1
      <4>3. QED
        BY <1>1, <1>2, <4>1, <4>2
    <3>4. QED
      BY <3>2, <3>3
  <2>6. accepted' = delivered' + evicted' + Len(queue')
    <3>1. accepted' = accepted + 1 /\ evicted' = evicted + 1 /\ delivered' = delivered
      BY <1>7
    <3>2. QED
      BY <1>1, <1>2, <2>4, <3>1
  <2>7. \A i \in 1 .. Len(queue') : queue'[i] = delivered' + evicted' + i
    BY <1>7, <2>4, <2>5
  <2>8. QED
    BY <2>6, <2>7 DEF FifoAndAccounted
<1>8. QED
  BY <1>4, <1>5, <1>6, <1>7, QueueStep
-----------------------------------------------------------------------------
\* An item is put while a thread sleeps in pop: the thread woken for it joins
\* those on their way to an item.
LEMMA PutKeepsPoppers ==
  ASSUME TypeOK, NoLostPopper, Put, CanPush, notEmpty' # {},
         \A u \in Poppers : call'[u] = call[u],
         \A u \in notEmpty : call'[u] = call[u]
  PROVE  closed' = closed => ~closed' /\ Len(queue') <= Cardinality(Poppers')
<1>1. SUFFICES ASSUME closed' = closed
               PROVE  ~closed' /\ Len(queue') <= Cardinality(Poppers')
  OBVIOUS
<1>2. notEmpty # {} /\ ~closed /\ Len(queue) <= Cardinality(Poppers)
  BY DEF NoLostPopper, Put, WakePopper
<1>3. PICK w \in notEmpty : notEmpty' = notEmpty \ {w}
  BY <1>2 DEF Put, WakePopper
<1>4. Len(queue') = Len(queue) + 1 /\ Len(queue) \in Nat
  <2>1. queue \in Seq(Nat) /\ accepted + 1 \in Nat /\ queue' = Append(queue, accepted + 1)
    BY <1>2 DEF Put, TypeOK
  <2>2. QED
    BY <2>1, AppendTail
<1>5. w \in Threads /\ call[w] = "pop"
  BY DEF TypeOK
<1>6. w \in Poppers' /\ w \notin Poppers /\ Poppers \subseteq Poppers'
  BY <1>3, <1>5 DEF Poppers, TypeOK
<1>7. /\ Cardinality(Poppers) \in Nat
      /\ Cardinality(Poppers') \in Nat
      /\ Cardinality(Poppers) + 1 <= Cardinality(Poppers')
  BY <1>6, FiniteHands, CardinalityGain
<1>8. QED
  BY <1>1, <1>2, <1>4, <1>7

\* Items and wakeups on their way stay as many as sleeping poppers could take.
LEMMA PopperStep ==
  ASSUME TypeOK, NoLostPopper, Next
  PROVE  NoLostPopper'
<1> SUFFICES ASSUME notEmpty' # {}
             PROVE  ~closed' /\ Len(queue') <= Cardinality(Poppers')
  BY DEF NoLostPopper
<1>0. /\ queue \in Seq(Nat) /\ Len(queue) \in Nat /\ accepted + 1 \in Nat
      /\ queue = <<>> <=> Len(queue) = 0
      /\ queue # <<>> => Len(Tail(queue)) = Len(queue) - 1
      /\ Cardinality(Poppers) \in Nat /\ Cardinality(Poppers') \in Nat
  <2>1. queue \in Seq(Nat) /\ accepted + 1 \in Nat
    BY DEF TypeOK
  <2>2. QED
    BY <2>1, AppendTail, FiniteHands, FS_CardinalityType
<1>1. ASSUME NEW t \in Threads, NEW deadline \in BOOLEAN, PushCall(t, deadline)
      PROVE  ~closed' /\ Len(queue') <= Cardinality(Poppers')
  <2>1. CASE CanPush
    BY <1>1, <2>1, PutKeepsPoppers DEF PushCall, callVars
  <2>2. CASE ~CanPush
    <3>1. Poppers' = Poppers /\ notEmpty' = notEmpty /\ queue' = queue /\ closed' = closed
      BY <1>1, <2>2 DEF PushCall, Poppers, TypeOK
    <3>2. QED
      BY <3>1 DEF NoLostPopper
  <2>3. QED
    BY <2>1, <2>2
<1>2. ASSUME NEW t \in Threads, NEW deadline \in BOOLEAN, PopCall(t, deadline)
      PROVE  ~closed' /\ Len(queue') <= Cardinality(Poppers')
  <2>1. CASE CanPop
    <3>1. Poppers' = Poppers /\ notEmpty' = notEmpty /\ closed' = closed
      BY <1>2, <2>1 DEF PopCall, Poppers, callVars
    <3>2. Len(queue') <= Len(queue) /\ Len(queue') \in Nat
      BY <1>0, <1>2, <2>1 DEF PopCall, Take
    <3>3. QED
      BY <1>0, <3>1, <3>2 DEF NoLostPopper
  <2>2. CASE ~CanPop
    BY <1>0, <1>2, <2>2 DEF PopCall, CanPop
  <2>3. QED
    BY <2>1, <2>2
<1>3. ASSUME NEW t \in Threads, PushResume(t)
      PROVE  ~closed' /\ Len(queue') <= Cardinality(Poppers')
  <2>1. CASE CanPush
    <3>1. call[t] = "push" /\ Put /\ call' = [call EXCEPT ![t] = "none"] /\ closed' = closed
      BY <1>3, <2>1 DEF PushResume, Return
    <3>2. /\ \A u \in Poppers : call'[u] = call[u]
          /\ \A u \in notEmpty : call'[u] = call[u]
      BY <3>1 DEF Poppers, TypeOK
    <3>3. QED
      BY <2>1, <3>1, <3>2, PutKeepsPoppers
  <2>2. CASE ~CanPush
    <3>1. Poppers' = Poppers /\ notEmpty' = notEmpty /\ queue' = queue /\ closed' = closed
      BY <1>3, <2>2 DEF PushResume, Poppers, TypeOK, Return, callVars
    <3>2. QED
      BY <3>1 DEF NoLostPopper
  <2>3. QED
    BY <2>1, <2>2
<1>4. ASSUME NEW t \in Threads, PushLatest(t)
      PROVE  ~closed' /\ Len(queue') <= Cardinality(Poppers')
  <2>1. t \notin Poppers /\ t \in Poppers' /\ Poppers \subseteq Poppers'
    BY <1>4 DEF PushLatest, Poppers, TypeOK
  <2>2. Cardinality(Poppers) + 1 <= Cardinality(Poppers')
    BY <2>1, FiniteHands, CardinalityGain
  <2>3. Len(queue') <= Len(queue) + 1 /\ Len(queue') \in Nat
    <3>1. CASE queue' = Append(queue, accepted + 1)
      BY <1>0, <3>1, AppendTail
    <3>2. CASE queue # <<>> /\ queue' = Append(Tail(queue), accepted + 1)
      BY <1>0, <3>2, AppendTail
    <3>3. QED
      BY <1>0, <1>4, <3>1, <3>2, QueueAssumption DEF PushLatest, EvictOldest
  <2>4. QED
    BY <1>0, <1>4, <2>2, <2>3 DEF PushLatest, NoLostPopper
<1>5. ASSUME NEW t \in Threads, Notify(t)
      PROVE  ~closed' /\ Len(queue') <= Cardinality(Poppers')
  <2>1. notEmpty # {}
    BY <1>5 DEF Notify, WakePopper
  <2>2. PICK w \in notEmpty : notEmpty' = notEmpty \ {w}
    BY <1>5, <2>1 DEF Notify, WakePopper
  <2>3. w \in Poppers' /\ w \notin Poppers /\ Poppers \ {t} \subseteq Poppers'
    BY <1>5, <2>2 DEF Notify, Return, Poppers, TypeOK
  <2>4. Cardinality(Poppers) <= Cardinality(Poppers')
    BY <2>3, FiniteHands, CardinalityExchange
  <2>5. QED
    BY <1>0, <1>5, <2>1, <2>4 DEF Notify, NoLostPopper
<1>6. ASSUME NEW t \in Threads, PopResume(t)
      PROVE  ~closed' /\ Len(queue') <= Cardinality(Poppers')
  <2>1. CASE CanPop
    <3>1. /\ call[t] = "pop" /\ call' = [call EXCEPT ![t] = "none"] /\ Take
          /\ notEmpty' = notEmpty /\ closed' = closed
      BY <1>6, <2>1 DEF PopResume, Return
    <3>2. queue # <<>> /\ queue' = Tail(queue)
      BY <2>1, <3>1 DEF CanPop, Take, NoLostPopper
    <3>3. Poppers \ {t} \subseteq Poppers'
      BY <3>1 DEF Poppers, TypeOK
    <3>4. Cardinality(Poppers) - 1 <= Cardinality(Poppers')
      BY <3>3, FiniteHands, CardinalityLoss
    <3>5. QED
      BY <1>0, <3>1, <3>2, <3>4 DEF NoLostPopper
  <2>2. CASE ~CanPop
    BY <1>0, <1>6, <2>2 DEF PopResume, CanPop
  <2>3. QED
    BY <2>1, <2>2
<1>7. ASSUME NEW t \in Threads, Expire(t) \/ SpuriousWakeup(t)
      PROVE  ~closed' /\ Len(queue') <= Cardinality(Poppers')
  <2>1. /\ queue' = queue /\ closed' = closed /\ call' = call
        /\ notEmpty' = notEmpty \ {t}
    BY <1>7 DEF Expire, SpuriousWakeup, callVars
  <2>2. Poppers \subseteq Poppers' /\ notEmpty # {}
    BY <2>1 DEF Poppers
  <2>3. Cardinality(Poppers) <= Cardinality(Poppers')
    BY <2>2, FiniteHands, CardinalityMonotone
  <2>4. QED
    BY <1>0, <2>1, <2>2, <2>3 DEF NoLostPopper
<1>8. CASE Close
  BY <1>8 DEF Close
<1>9. QED
  BY <1>1, <1>2, <1>3, <1>4, <1>5, <1>6, <1>7, <1>8 DEF Next
-----------------------------------------------------------------------------
\* An item is taken while a thread sleeps in push: the thread woken for the
\* free slot joins those on their way to one.
LEMMA TakeKeepsPushers ==
  ASSUME TypeOK, NoLostPusher, Take, CanPop, notFull' # {}, closed' = closed,
         \A u \in Pushers : call'[u] = call[u],
         \A u \in notFull : call'[u] = call[u]
  PROVE  ~closed' /\ MaxSize - Len(queue') <= Cardinality(Pushers')
<1>1. /\ Cardinality(Pushers) \in Nat /\ Cardinality(Pushers') \in Nat
      /\ MaxSize \in Nat /\ queue \in Seq(Nat) /\ Len(queue) \in Nat
  BY FiniteHands, FS_CardinalityType, QueueAssumption DEF TypeOK
<1>2. notFull # {} /\ ~closed /\ MaxSize - Len(queue) <= Cardinality(Pushers)
  BY DEF NoLostPusher, Take, WakePusher
<1>3. PICK w \in notFull : notFull' = notFull \ {w}
  BY <1>2 DEF Take, WakePusher, CanPop
<1>4. queue # <<>> /\ queue' = Tail(queue)
  BY <1>2 DEF Take, CanPop
<1>5. Len(queue') = Len(queue) - 1
  BY <1>1, <1>4
<1>6. w \in Threads /\ call[w] = "push"
  BY DEF TypeOK
<1>7. w \in Pushers' /\ w \notin Pushers /\ Pushers \subseteq Pushers'
  BY <1>3, <1>6 DEF Pushers, TypeOK
<1>8. Cardinality(Pushers) + 1 <= Cardinality(Pushers')
  BY <1>7, FiniteHands, CardinalityGain
<1>9. QED
  BY <1>1, <1>2, <1>5, <1>8

\* ... and free places and wakeups as many as sleeping pushers could take.
LEMMA PusherStep ==
  ASSUME TypeOK, NoLostPusher, Next
  PROVE  NoLostPusher'
<1> SUFFICES ASSUME notFull' # {}
             PROVE  ~closed' /\ MaxSize - Len(queue') <= Cardinality(Pushers')
  BY DEF NoLostPusher
<1>0. /\ queue \in Seq(Nat) /\ Len(queue) \in Nat /\ accepted + 1 \in Nat /\ MaxSize \in Nat
      /\ queue = <<>> <=> Len(queue) = 0
      /\ Cardinality(Pushers) \in Nat /\ Cardinality(Pushers') \in Nat
  <2>1. queue \in Seq(Nat) /\ accepted + 1 \in Nat /\ MaxSize \in Nat
    BY QueueAssumption DEF TypeOK
  <2>2. QED
    BY <2>1, AppendTail, FiniteHands, FS_CardinalityType
<1>1. ASSUME NEW t \in Threads, NEW deadline \in BOOLEAN, PushCall(t, deadline)
      PROVE  ~closed' /\ MaxSize - Len(queue') <= Cardinality(Pushers')
  <2>1. CASE CanPush
    <3>1. Pushers' = Pushers /\ notFull' = notFull /\ closed' = closed /\ Put
      BY <1>1, <2>1 DEF PushCall, Pushers, callVars
    <3>2. Len(queue') = Len(queue) + 1
      BY <1>0, <3>1, AppendTail DEF Put, NoLostPusher
    <3>3. QED
      BY <1>0, <3>1, <3>2 DEF NoLostPusher
  <2>2. CASE ~CanPush
    BY <1>0, <1>1, <2>2 DEF PushCall, CanPush
  <2>3. QED
    BY <2>1, <2>2
<1>2. ASSUME NEW t \in Threads, NEW deadline \in BOOLEAN, PopCall(t, deadline)
      PROVE  ~closed' /\ MaxSize - Len(queue') <= Cardinality(Pushers')
  <2>1. CASE CanPop
    BY <1>2, <2>1, TakeKeepsPushers DEF PopCall, callVars
  <2>2. CASE ~CanPop
    <3>1. Pushers' = Pushers /\ notFull' = notFull /\ queue' = queue /\ closed' = closed
      BY <1>2, <2>2 DEF PopCall, Pushers, TypeOK
    <3>2. QED
      BY <3>1 DEF NoLostPusher
  <2>3. QED
    BY <2>1, <2>2
<1>3. ASSUME NEW t \in Threads, PushResume(t)
      PROVE  ~closed' /\ MaxSize - Len(queue') <= Cardinality(Pushers')
  <2>1. CASE CanPush
    <3>1. /\ call[t] = "push" /\ call' = [call EXCEPT ![t] = "none"] /\ Put
          /\ notFull' = notFull /\ closed' = closed
      BY <1>3, <2>1 DEF PushResume, Return
    <3>2. Len(queue') = Len(queue) + 1
      BY <1>0, <3>1, AppendTail DEF Put, NoLostPusher
    <3>3. Pushers \ {t} \subseteq Pushers'
      BY <3>1 DEF Pushers, TypeOK
    <3>4. Cardinality(Pushers) - 1 <= Cardinality(Pushers')
      BY <3>3, FiniteHands, CardinalityLoss
    <3>5. QED
      BY <1>0, <3>1, <3>2, <3>4 DEF NoLostPusher
  <2>2. CASE ~CanPush
    BY <1>0, <1>3, <2>2 DEF PushResume, CanPush
  <2>3. QED
    BY <2>1, <2>2
<1>4. ASSUME NEW t \in Threads, PushLatest(t)
      PROVE  ~closed' /\ MaxSize - Len(queue') <= Cardinality(Pushers')
  <2>1. Pushers' = Pushers /\ notFull' = notFull /\ closed' = closed
    BY <1>4 DEF PushLatest, Pushers, TypeOK
  <2>2. Len(queue') >= Len(queue) /\ Len(queue') \in Nat
    <3>1. CASE queue' = Append(queue, accepted + 1)
      BY <1>0, <3>1, AppendTail
    <3>2. CASE queue # <<>> /\ queue' = Append(Tail(queue), accepted + 1)
      BY <1>0, <3>2, AppendTail
    <3>3. QED
      BY <1>0, <1>4, <3>1, <3>2, QueueAssumption DEF PushLatest, EvictOldest
  <2>3. QED
    BY <1>0, <2>1, <2>2 DEF NoLostPusher
<1>5. ASSUME NEW t \in Threads, Notify(t)
      PROVE  ~closed' /\ MaxSize - Len(queue') <= Cardinality(Pushers')
  <2>1. Pushers' = Pushers /\ notFull' = notFull /\ queue' = queue /\ closed' = closed
    BY <1>5 DEF Notify, Return, Pushers, TypeOK
  <2>2. QED
    BY <2>1 DEF NoLostPusher
<1>6. ASSUME NEW t \in Threads, PopResume(t)
      PROVE  ~closed' /\ MaxSize - Len(queue') <= Cardinality(Pushers')
  <2>1. CASE CanPop
    <3>1. call[t] = "pop" /\ Take /\ call' = [call EXCEPT ![t] = "none"] /\ closed' = closed
      BY <1>6, <2>1 DEF PopResume, Return
    <3>2. /\ \A u \in Pushers : call'[u] = call[u]
          /\ \A u \in notFull : call'[u] = call[u]
      BY <3>1 DEF Pushers, TypeOK
    <3>3. QED
      BY <2>1, <3>1, <3>2, TakeKeepsPushers
  <2>2. CASE ~CanPop
    <3>1. Pushers' = Pushers /\ notFull' = notFull /\ queue' = queue /\ closed' = closed
      BY <1>6, <2>2 DEF PopResume, Pushers, TypeOK, Return, callVars
    <3>2. QED
      BY <3>1 DEF NoLostPusher
  <2>3. QED
    BY <2>1, <2>2
<1>7. ASSUME NEW t \in Threads, Expire(t) \/ SpuriousWakeup(t)
      PROVE  ~closed' /\ MaxSize - Len(queue') <= Cardinality(Pushers')
  <2>1. /\ queue' = queue /\ closed' = closed /\ call' = call
        /\ notFull' = notFull \ {t}
    BY <1>7 DEF Expire, SpuriousWakeup, callVars
  <2>2. Pushers \subseteq Pushers' /\ notFull # {}
    BY <2>1 DEF Pushers
  <2>3. Cardinality(Pushers) <= Cardinality(Pushers')
    BY <2>2, FiniteHands, CardinalityMonotone
  <2>4. QED
    BY <1>0, <2>1, <2>2, <2>3 DEF NoLostPusher
<1>8. CASE Close
  BY <1>8 DEF Close
<1>9. QED
  BY <1>1, <1>2, <1>3, <1>4, <1>5, <1>6, <1>7, <1>8 DEF Next

-----------------------------------------------------------------------------
\* Every step keeps the invariant.
LEMMA NextIInv == IInv /\ [Next]_vars => IInv'
<1>1. ASSUME IInv, Next
      PROVE  IInv'
  BY <1>1, TypeStep, FifoStep, PopperStep, PusherStep DEF IInv
<1>2. ASSUME IInv, UNCHANGED vars
      PROVE  IInv'
  BY <1>2 DEF IInv, TypeOK, NoLostPopper, NoLostPusher, FifoAndAccounted, Poppers, Pushers,
              vars, callVars, history
<1>3. QED
  BY <1>1, <1>2

\* The invariant is inductive as it stands: its parts need only TypeOK.
THEOREM QueueInvariance == Spec => []IInv
BY InitIInv, NextIInv, PTL DEF Spec

\* The queue never exceeds its capacity, and a blocked thread is in the call
\* whose condition variable it sleeps on.
THEOREM QueueTypeCorrect == Spec => []TypeOK
BY QueueInvariance, PTL DEF IInv

\* BlockingQueue.hpp notifies one thread per item; no item waits for a thread
\* that sleeps unless another one is on its way.
THEOREM PopLosesNoWakeup == Spec => []NoLostPopper
BY QueueInvariance, PTL DEF IInv

\* The same for the free slots and the threads blocked in push.
THEOREM PushLosesNoWakeup == Spec => []NoLostPusher
BY QueueInvariance, PTL DEF IInv

\* Both together: neither condition variable forgets a sleeper.
THEOREM QueueLosesNoWakeup == Spec => []NoLostWakeup
BY PopLosesNoWakeup, PushLosesNoWakeup, PTL DEF NoLostWakeup

\* Items come out in the order they were accepted, and each is delivered,
\* replaced or still queued.
THEOREM Fifo == Spec => []FifoAndAccounted
BY QueueInvariance, PTL DEF IInv

\* Once closed, the queue accepts nothing more and only drains.
THEOREM CloseIsFinal == Spec => ClosedOnlyDrains
<1>1. IInv /\ [Next]_vars =>
        [closed => /\ closed' /\ accepted' = accepted
                   /\ queue' = queue \/ (queue # <<>> /\ queue' = Tail(queue))]_vars
  <2>1. SUFFICES ASSUME IInv, Next, closed
                 PROVE  /\ closed' /\ accepted' = accepted
                        /\ queue' = queue \/ (queue # <<>> /\ queue' = Tail(queue))
    BY DEF vars
  <2>2. ASSUME NEW t \in Threads, NEW deadline \in BOOLEAN,
               PushCall(t, deadline) \/ PushResume(t)
        PROVE  closed' /\ accepted' = accepted /\ queue' = queue
    BY <2>1, <2>2 DEF PushCall, PushResume, CanPush, Put
  <2>3. ASSUME NEW t \in Threads, NEW deadline \in BOOLEAN,
               PopCall(t, deadline) \/ PopResume(t)
        PROVE  /\ closed' /\ accepted' = accepted
               /\ queue' = queue \/ (queue # <<>> /\ queue' = Tail(queue))
    BY <2>1, <2>3 DEF PopCall, PopResume, CanPop, Take
  <2>4. ASSUME NEW t \in Threads,
               Notify(t) \/ Expire(t) \/ SpuriousWakeup(t) \/ PushLatest(t)
        PROVE  closed' /\ accepted' = accepted /\ queue' = queue
    BY <2>1, <2>4 DEF Notify, Expire, SpuriousWakeup, PushLatest, history
  <2>5. CASE Close
    BY <2>5 DEF Close, history
  <2>6. QED
    BY <2>1, <2>2, <2>3, <2>4, <2>5 DEF Next
<1>2. QED
  BY <1>1, QueueInvariance, PTL DEF Spec, ClosedOnlyDrains

-----------------------------------------------------------------------------
(* BlockingQueue implements BoundedQueue.                                  *)

\* An appended item is the last one.
LEMMA AppendedIsLast ==
  ASSUME NEW S, NEW q \in Seq(S), NEW e \in S
  PROVE  /\ Append(q, e) # <<>>
         /\ Append(q, e)[Len(Append(q, e))] = e
<1>1. /\ Len(Append(q, e)) = Len(q) + 1 /\ Len(q) \in Nat
      /\ Append(q, e)[Len(q) + 1] = e
  OBVIOUS
<1>2. Len(<<>>) = 0
  OBVIOUS
<1>3. Append(q, e) # <<>>
  <2>1. Len(Append(q, e)) # Len(<<>>)
    BY <1>1, <1>2
  <2>q. QED
    BY <2>1, Zenon
<1>q. QED
  BY <1>1, <1>3

\* push behind its wait puts one item into an open queue with room, or leaves a
\* closed one as it is.
LEMMA PutBounded ==
  ASSUME TypeOK, CanPush, Put, closed' = closed
  PROVE  [Bounded!Next]_Bounded!qvars
<1>1. queue \in Seq(Nat) /\ accepted + 1 \in Nat
  BY DEF TypeOK
<1>2. CASE closed
  BY <1>2 DEF Put, Bounded!qvars
<1>3. CASE ~closed
  <2>1. queue' = Append(queue, accepted + 1) /\ Len(queue) < MaxSize
    BY <1>3 DEF Put, CanPush
  <2>2. queue' # <<>> /\ queue'[Len(queue')] = accepted + 1
    BY <1>1, <2>1, AppendedIsLast
  <2>3. Bounded!Put
    BY <1>3, <2>1, <2>2 DEF Bounded!Put, Bounded!Joins
  <2>q. QED
    BY <2>3 DEF Bounded!Next
<1>q. QED
  BY <1>2, <1>3

\* pop behind its wait takes the front item, or finds a closed queue empty.
LEMMA TakeBounded ==
  ASSUME Take, closed' = closed
  PROVE  [Bounded!Next]_Bounded!qvars
<1>1. CASE queue = <<>>
  BY <1>1 DEF Take, Bounded!qvars
<1>2. CASE queue # <<>>
  <2>1. Bounded!Take
    BY <1>2 DEF Take, Bounded!Take
  <2>q. QED
    BY <2>1 DEF Bounded!Next
<1>q. QED
  BY <1>1, <1>2

\* push_latest puts an item into a queue with room and replaces the oldest one
\* of a full queue.
LEMMA LatestBounded ==
  ASSUME TypeOK, NEW t \in Threads, PushLatest(t)
  PROVE  Bounded!Next
<1>1. /\ queue \in Seq(Nat) /\ accepted + 1 \in Nat
      /\ Len(queue) \in Nat /\ Len(queue) <= MaxSize /\ MaxSize \in Nat \ {0}
      /\ ~closed /\ closed' = closed
  BY QueueAssumption DEF TypeOK, PushLatest
<1>2. CASE Len(queue) >= MaxSize
  <2>1. queue' = Append(Tail(queue), accepted + 1) /\ Len(queue) = MaxSize
    BY <1>1, <1>2 DEF PushLatest, EvictOldest
  <2>2. Tail(queue) \in Seq(Nat)
    BY <1>1, <1>2
  <2>3. queue' # <<>> /\ queue'[Len(queue')] = accepted + 1
    BY <1>1, <2>1, <2>2, AppendedIsLast
  <2>4. Bounded!Replace
    BY <1>1, <2>1, <2>3 DEF Bounded!Replace, Bounded!Joins
  <2>q. QED
    BY <2>4 DEF Bounded!Next
<1>3. CASE ~(Len(queue) >= MaxSize)
  <2>1. queue' = Append(queue, accepted + 1) /\ Len(queue) < MaxSize
    BY <1>1, <1>3 DEF PushLatest
  <2>2. queue' # <<>> /\ queue'[Len(queue')] = accepted + 1
    BY <1>1, <2>1, AppendedIsLast
  <2>3. Bounded!Put
    BY <1>1, <2>1, <2>2 DEF Bounded!Put, Bounded!Joins
  <2>q. QED
    BY <2>3 DEF Bounded!Next
<1>q. QED
  BY <1>2, <1>3

\* Every step of a thread in push, push_latest or pop is one call's effect on
\* the bounded queue, or none: its users need not know how it waits.
THEOREM QueueImplementsBounded == Spec => ImplementsBoundedQueue
<1>1. Init => Bounded!Init
  BY DEF Init, Bounded!Init
<1>2. ASSUME IInv, [Next]_vars PROVE [Bounded!Next]_Bounded!qvars
  <2>0. TypeOK
    BY <1>2 DEF IInv
  <2>1. ASSUME UNCHANGED <<queue, closed>> PROVE [Bounded!Next]_Bounded!qvars
    BY <2>1 DEF Bounded!qvars
  <2>2. ASSUME NEW t \in Threads, NEW deadline \in BOOLEAN, PushCall(t, deadline)
        PROVE  [Bounded!Next]_Bounded!qvars
    BY <2>0, <2>1, <2>2, PutBounded DEF PushCall
  <2>3. ASSUME NEW t \in Threads, PushResume(t) PROVE [Bounded!Next]_Bounded!qvars
    BY <2>0, <2>1, <2>3, PutBounded DEF PushResume
  <2>4. ASSUME NEW t \in Threads, NEW deadline \in BOOLEAN, PopCall(t, deadline)
        PROVE  [Bounded!Next]_Bounded!qvars
    BY <2>1, <2>4, TakeBounded DEF PopCall
  <2>5. ASSUME NEW t \in Threads, PopResume(t) PROVE [Bounded!Next]_Bounded!qvars
    BY <2>1, <2>5, TakeBounded DEF PopResume
  <2>6. ASSUME NEW t \in Threads, PushLatest(t) PROVE [Bounded!Next]_Bounded!qvars
    BY <2>0, <2>6, LatestBounded
  <2>7. ASSUME NEW t \in Threads, Notify(t) \/ Expire(t) \/ SpuriousWakeup(t)
        PROVE  [Bounded!Next]_Bounded!qvars
    BY <2>1, <2>7 DEF Notify, Expire, SpuriousWakeup
  <2>8. CASE Close
    <3>1. Bounded!Close
      BY <2>8 DEF Close, Bounded!Close
    <3>q. QED
      BY <3>1 DEF Bounded!Next
  <2>9. CASE UNCHANGED vars
    BY <2>1, <2>9 DEF vars
  <2>q. QED
    BY <1>2, <2>2, <2>3, <2>4, <2>5, <2>6, <2>7, <2>8, <2>9 DEF Next
<1>q. QED
  BY <1>1, <1>2, QueueInvariance, PTL DEF Spec, ImplementsBoundedQueue, Bounded!Spec
=============================================================================
