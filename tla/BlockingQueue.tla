---------------------------- MODULE BlockingQueue ---------------------------
(***************************************************************************)
(* The bounded queue between the threads of a channel                      *)
(* (src/common/BlockingQueue.hpp).  One mutex guards the deque; not_full_  *)
(* and not_empty_ are the sets of threads blocked in them.  A critical     *)
(* section is one action; push_latest notifies after it has released the   *)
(* mutex, which is an action of its own.                                   *)
(*                                                                         *)
(* Items are numbered in the order in which the queue accepted them.       *)
(* Definitions marked (fault) are plausible mistakes, not specification.   *)
(***************************************************************************)
EXTENDS Integers, Sequences, FiniteSets

CONSTANTS
  Threads,     \* the threads that use the queue
  MaxSize,     \* max_size_
  MaxItems     \* bound: no push is called once this many items were accepted

ASSUME QueueAssumption ==
  /\ IsFiniteSet(Threads)
  /\ MaxSize \in Nat \ {0}
  /\ MaxItems \in Nat

VARIABLES
  queue,       \* queue_, as item numbers
  closed,      \* closed_
  notFull,     \* threads blocked in not_full_
  notEmpty,    \* threads blocked in not_empty_
  call,        \* what each thread is in: none, push, pop, notify
  timed,       \* whether the call has a deadline (timeout_ms > 0)
  expired,     \* whether that deadline has passed
  accepted,    \* history: how many items were accepted
  delivered,   \* history: how many items were popped
  evicted      \* history: how many items push_latest replaced

callVars == <<call, timed, expired>>
history  == <<accepted, delivered, evicted>>
vars == <<queue, closed, notFull, notEmpty, callVars, history>>

Init ==
  /\ queue = <<>>
  /\ closed = FALSE
  /\ notFull = {}
  /\ notEmpty = {}
  /\ call = [t \in Threads |-> "none"]
  /\ timed = [t \in Threads |-> FALSE]
  /\ expired = [t \in Threads |-> FALSE]
  /\ accepted = 0
  /\ delivered = 0
  /\ evicted = 0

-----------------------------------------------------------------------------
\* The wait predicates of push and pop.
\* (fault) a full queue takes one more item
CanPushOneMore == Len(queue) <= MaxSize \/ closed
CanPush == Len(queue) < MaxSize \/ closed
CanPop  == queue # <<>> \/ closed

Return(t) ==
  /\ call' = [call EXCEPT ![t] = "none"]
  /\ timed' = [timed EXCEPT ![t] = FALSE]
  /\ expired' = [expired EXCEPT ![t] = FALSE]

\* notify_one on not_empty_.
WakePopper ==
  IF notEmpty = {} THEN notEmpty' = {} ELSE \E w \in notEmpty : notEmpty' = notEmpty \ {w}

\* (fault) pop tells nobody about the free slot
WakeNoPusher == notFull' = notFull
\* notify_one on not_full_.
WakePusher ==
  IF notFull = {} THEN notFull' = {} ELSE \E w \in notFull : notFull' = notFull \ {w}

\* push behind its wait.
\* (fault) push does not look at closed_ after its wait
PutAlways ==
  /\ queue' = Append(queue, accepted + 1)
  /\ accepted' = accepted + 1
  /\ WakePopper
Put ==
  IF closed
    THEN UNCHANGED <<queue, accepted, notEmpty>>
    ELSE /\ queue' = Append(queue, accepted + 1)
         /\ accepted' = accepted + 1
         /\ WakePopper

\* pop behind its wait: the front item, if there is one.
Take ==
  IF queue = <<>>
    THEN UNCHANGED <<queue, delivered, notFull>>
    ELSE /\ queue' = Tail(queue)
         /\ delivered' = delivered + 1
         /\ WakePusher

-----------------------------------------------------------------------------
\* push(item, timeout): at once if it can, else it waits, with or without a
\* deadline.  (With timeout 0 it then returns false and changes nothing.)
PushCall(t, deadline) ==
  /\ call[t] = "none"
  /\ accepted < MaxItems
  /\ IF CanPush
       THEN Put /\ UNCHANGED <<notFull, callVars>>
       ELSE /\ call' = [call EXCEPT ![t] = "push"]
            /\ timed' = [timed EXCEPT ![t] = deadline]
            /\ notFull' = notFull \cup {t}
            /\ UNCHANGED <<queue, accepted, notEmpty, expired>>
  /\ UNCHANGED <<closed, delivered, evicted>>

\* push, awake again: a satisfied predicate wins over an expired deadline.
PushResume(t) ==
  /\ call[t] = "push"
  /\ t \notin notFull
  /\ \/ CanPush /\ Put /\ Return(t) /\ UNCHANGED notFull
     \/ /\ ~CanPush
        /\ IF expired[t]
             THEN Return(t) /\ UNCHANGED notFull
             ELSE notFull' = notFull \cup {t} /\ UNCHANGED callVars
        /\ UNCHANGED <<queue, accepted, notEmpty>>
  /\ UNCHANGED <<closed, delivered, evicted>>

\* push_latest, the critical section: a full queue loses its oldest item.
\* (fault) the newest item makes room
EvictNewest == Append(SubSeq(queue, 1, Len(queue) - 1), accepted + 1)
EvictOldest == Append(Tail(queue), accepted + 1)

PushLatest(t) ==
  /\ call[t] = "none"
  /\ ~closed
  /\ accepted < MaxItems
  /\ IF Len(queue) >= MaxSize
       THEN queue' = EvictOldest /\ evicted' = evicted + 1
       ELSE queue' = Append(queue, accepted + 1) /\ UNCHANGED evicted
  /\ accepted' = accepted + 1
  /\ call' = [call EXCEPT ![t] = "notify"]
  /\ UNCHANGED <<closed, notFull, notEmpty, timed, expired, delivered>>

\* push_latest, after the mutex is released.
Notify(t) ==
  /\ call[t] = "notify"
  /\ WakePopper
  /\ Return(t)
  /\ UNCHANGED <<queue, closed, notFull, history>>

PopCall(t, deadline) ==
  /\ call[t] = "none"
  /\ IF CanPop
       THEN Take /\ UNCHANGED <<notEmpty, callVars>>
       ELSE /\ call' = [call EXCEPT ![t] = "pop"]
            /\ timed' = [timed EXCEPT ![t] = deadline]
            /\ notEmpty' = notEmpty \cup {t}
            /\ UNCHANGED <<queue, delivered, notFull, expired>>
  /\ UNCHANGED <<closed, accepted, evicted>>

PopResume(t) ==
  /\ call[t] = "pop"
  /\ t \notin notEmpty
  /\ \/ CanPop /\ Take /\ Return(t) /\ UNCHANGED notEmpty
     \/ /\ ~CanPop
        /\ IF expired[t]
             THEN Return(t) /\ UNCHANGED notEmpty
             ELSE notEmpty' = notEmpty \cup {t} /\ UNCHANGED callVars
        /\ UNCHANGED <<queue, delivered, notFull>>
  /\ UNCHANGED <<closed, accepted, evicted>>

\* The deadline of a timed call passes, whether the thread sleeps or was
\* just notified.
Expire(t) ==
  /\ timed[t]
  /\ ~expired[t]
  /\ expired' = [expired EXCEPT ![t] = TRUE]
  /\ notFull' = notFull \ {t}
  /\ notEmpty' = notEmpty \ {t}
  /\ UNCHANGED <<queue, closed, call, timed, history>>

\* (fault) close wakes one popper only
CloseNotifyOne ==
  /\ closed' = TRUE
  /\ WakePopper
  /\ notFull' = {}
  /\ UNCHANGED <<queue, callVars, history>>
Close ==
  /\ closed' = TRUE
  /\ notEmpty' = {}
  /\ notFull' = {}
  /\ UNCHANGED <<queue, callVars, history>>

SpuriousWakeup(t) ==
  /\ t \in notFull \cup notEmpty
  /\ notFull' = notFull \ {t}
  /\ notEmpty' = notEmpty \ {t}
  /\ UNCHANGED <<queue, closed, callVars, history>>

Next ==
  \/ \E t \in Threads :
       \/ \E deadline \in BOOLEAN : PushCall(t, deadline) \/ PopCall(t, deadline)
       \/ PushResume(t) \/ PushLatest(t) \/ Notify(t) \/ PopResume(t)
       \/ Expire(t) \/ SpuriousWakeup(t)
  \/ Close

Spec == Init /\ [][Next]_vars

\* A runnable thread runs and a deadline passes.
Fairness ==
  \A t \in Threads :
    WF_vars(PushResume(t)) /\ WF_vars(PopResume(t)) /\ WF_vars(Notify(t)) /\ WF_vars(Expire(t))

FairSpec == Spec /\ Fairness

-----------------------------------------------------------------------------
TypeOK ==
  /\ queue \in Seq(Nat)
  /\ Len(queue) <= MaxSize
  /\ closed \in BOOLEAN
  /\ notFull \subseteq {t \in Threads : call[t] = "push"}
  /\ notEmpty \subseteq {t \in Threads : call[t] = "pop"}
  /\ call \in [Threads -> {"none", "push", "pop", "notify"}]
  /\ timed \in [Threads -> BOOLEAN]
  /\ expired \in [Threads -> BOOLEAN]
  /\ accepted \in Nat
  /\ delivered \in Nat
  /\ evicted \in Nat

\* The threads about to look at a non-empty queue, or to wake one that will.
Poppers == {t \in Threads : (call[t] = "pop" /\ t \notin notEmpty) \/ call[t] = "notify"}

\* The threads about to look at a free slot.
Pushers == {t \in Threads : call[t] = "push" /\ t \notin notFull}

\* No lost wakeup of pop, although every push notifies one thread and
\* push_latest does so outside the mutex: while a thread sleeps in pop the
\* queue is open and every item has a thread that is on its way to it.
NoLostPopper == notEmpty # {} => ~closed /\ Len(queue) <= Cardinality(Poppers)

\* No lost wakeup of push: while a thread sleeps in push the queue is open and
\* every free slot has a thread on its way to it.
NoLostPusher == notFull # {} => ~closed /\ MaxSize - Len(queue) <= Cardinality(Pushers)

\* The two condition variables forget nobody: neither an item and a thread in
\* pop, nor a free slot and a thread in push, wait for each other.
NoLostWakeup == NoLostPopper /\ NoLostPusher

\* The items in the queue are the latest accepted ones, oldest first, and each
\* accepted item is in the queue, was delivered, or was replaced; so pop
\* delivers in the order of acceptance, nothing twice.
FifoAndAccounted ==
  /\ accepted = delivered + evicted + Len(queue)
  /\ \A i \in 1 .. Len(queue) : queue[i] = delivered + evicted + i

\* A closed queue accepts nothing and still delivers what it holds.
ClosedOnlyDrains ==
  [][closed => /\ closed' /\ accepted' = accepted
               /\ queue' = queue \/ (queue # <<>> /\ queue' = Tail(queue))]_vars

\* Comment at line 15: a call blocked when the queue is closed returns.
ClosedCallsReturn == \A t \in Threads : closed /\ call[t] # "none" ~> call[t] = "none"

\* A call with a deadline returns, however the other threads compete with it.
TimedCallsReturn == \A t \in Threads : timed[t] ~> ~timed[t]

\* A call that was given a way out takes it: the queue's end or its deadline.
CallsReturn == ClosedCallsReturn /\ TimedCallsReturn

\* To its users the queue is a bounded queue whose calls are atomic: whatever
\* waits, wakes up, times out or is notified late, an item enters an open queue
\* with room or replaces the oldest, leaves at the front, and nothing else
\* happens to it.
Bounded == INSTANCE BoundedQueue WITH Capacity <- MaxSize, Lossy <- TRUE, items <- queue

ImplementsBoundedQueue == Bounded!Spec
=============================================================================
