\* Two channels, ages up to one tick over the limit, windows of one tick with a
\* frame per channel and window.
SPECIFICATION StatsSpec
CONSTANTS
  a = a
  b = b
  Channels = {a, b}
  Worker = Worker
  None = None
  Period <- MCPeriod
  MaxFrameAge = 1
  StatsInterval = 1
  MaxRegistrations <- MCRegistrations
  MaxReceived = 1
INVARIANTS
  OneJobOfALiveOwner
  NoSleeperIsForgotten
  StatisticsAddUp
PROPERTIES
  StopLeavesNothing
  ImplementsService
