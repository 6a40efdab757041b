SPECIFICATION Spec
CONSTANTS
  kN = 4
  States <- FastMixerStates
  Initial <- sInitial
  t1 = t1
  t2 = t2
  Tracks <- TwoTracks
  NoTrack = NoTrack
  FastIndices = {1, 2}
  MaxStandby = 1
  MaxStart = 0
PROPERTIES
  AlwaysReturns
CHECK_DEADLOCK FALSE
