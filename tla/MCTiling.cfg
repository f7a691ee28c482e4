\* The configurations' two tiles side by side, with their overlap and threshold.
SPECIFICATION Spec
CONSTANTS
  FrameWidth = 3840
  FrameHeight = 2160
  Regions <- MCRegions
  Cols = 2
  Rows = 1
  OverlapRatio = 10
  MergeRatio = 45
  Classes = {"laptop", "book", "phone"}
  Detections <- MCDetections
INVARIANTS
  RectanglesFit
  RecheckSeesBoth
  OneBoxPerPlace
  LosersHaveWinners
