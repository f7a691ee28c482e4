\* One connection lost, updates 100 or 200 ms apart, boxes that hold for 100 ms
\* and tracks that live for 200 ms; two snapshots, so that old ones are dropped.
CONSTANTS
  BoxAt <- MCBoxAt
  Dets <- MCDets
  MaxDets = 2
  Steps = {1, 2}
  ConfirmHits = 2
  Hold = 1
  Ttl = 2
  MaxReach = 176
  MaxCorrection = 120
  MaxSnapshots = 2
  MaxElapsed = 2
  MaxRestarts = 1
SPECIFICATION Spec
INVARIANTS
  TypeOK
  OneBoxPerObject
  DrawnIsConfirmed
  LoneObjectIsShown
  FrameGetsItsConnectionsBoxes
  GhostsVanish
