\* A reconnect whose header is refused.
SPECIFICATION Spec
CONSTANTS
  QueueSize = 2
  Step = 1
  MaxPts = 2
  MaxPackets = 3
INVARIANT NeverMute
CHECK_DEADLOCK FALSE
