\* Every second frame is inferred, and a report is due after one unit of time,
\* so that reports fall on inferred and on skipped frames.
SPECIFICATION FairSpec
CONSTANTS
  Places = {0, 1, 2}
  Region = {1, 2}
  Nowhere = 9
  Scenes <- MCScenes
  FilterOutside = TRUE
  EveryN = 2
  Interval = 1
  Dwell = 1
  QueueSize = 1
INVARIANTS
  EventsMatchObjects
PROPERTIES
  NoRepeatedSummary
  SettledSceneIsAttempted
  StayIsReported
