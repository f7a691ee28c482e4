\* Three channels registered once each, no age limit, so that only the round
\* robin decides when a frame is served: one is unregistered while another
\* waits and a third is served.
SPECIFICATION MCSpec
CONSTANTS
  a = a
  Channels = {a, b, c}
  Worker = Worker
  None = None
  Period <- MCPeriod
  MaxFrameAge = 0
  StatsInterval = 1
  MaxRegistrations <- MCRegistrations
PROPERTIES
  ClosingCallsReturn
  EveryMailboxServed
  NobodyOvertakesTwice
