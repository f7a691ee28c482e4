\* The queue of the pipeline (two packets), repeated and restarted timestamps,
\* both sinks, and enough packets for a reconnect and packets after it.
SPECIFICATION FairSpec
CONSTANTS
  QueueSize = 2
  Step = 1
  MaxPts = 2
  MaxPackets = 5
PROPERTIES
  ServerSeesSessions
  StopEnds
  ReconnectsOnceServerIsBack
\* A stopped publisher does nothing more.
CHECK_DEADLOCK FALSE
