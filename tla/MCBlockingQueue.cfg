\* A queue of two items; three threads, so that two may sleep in the same call
\* while the third makes room or delivers.
SPECIFICATION FairSpec
CONSTANTS
  Threads = {t1, t2, t3}
  MaxSize = 2
  MaxItems = 4
INVARIANTS
  NoLostWakeup
  FifoAndAccounted
PROPERTIES
  ImplementsBoundedQueue
  CallsReturn
\* Every call may have returned, with no item left to push.
CHECK_DEADLOCK FALSE
