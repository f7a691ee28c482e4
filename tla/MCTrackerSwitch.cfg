\* A box and nearly the same box seen as another class.
CONSTANTS
  BoxAt <- MCBoxAt
  Dets <- MCDets
  MaxDets = 2
  Steps = {1, 2}
  ConfirmHits = 2
  Hold = 1
  Ttl = 2
  MaxReach = 176
  MaxCorrection = 120
  MaxSnapshots = 2
  MaxElapsed = 2
  MaxRestarts = 1
SPECIFICATION Spec
INVARIANT RivalTakesOver
