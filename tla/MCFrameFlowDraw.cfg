\* A decoder that delivers DRM buffers.
CONSTANTS
  Buffers = {1, 2, 3, 4, 5, 6, 7}
  MaxCached = 1
  QueueSize = 1
  OutSize = 1
  Delay = 1
  Step = 1
  MediaTimes = {0, 1}
  MaxFrames = 4
  MaxConns = 2
SPECIFICATION Spec
\* The source may have ended, or delivered its MaxFrames frames.
CHECK_DEADLOCK FALSE
INVARIANT InferenceSeesNoBoxes
