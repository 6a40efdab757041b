SPECIFICATION Spec
CONSTANTS
  kN = 4
  States <- FastMixerStates
  Initial <- sInitial
  t1 = t1
  t2 = t2
  Tracks <- TwoTracks
  NoTrack = NoTrack
  FastIndices = {1, 2}
  MaxStandby = 1
  MaxStart = 2
INVARIANTS
  DiffFits
  UsedIsActive
  QuietInStandby
PROPERTIES
  KeepsItsPromise
  WaitsEnd
CHECK_DEADLOCK FALSE
