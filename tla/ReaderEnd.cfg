SPECIFICATION Spec
CONSTANTS
  t1 = t1
  t2 = t2
  t3 = t3
  Tracks <- TwoTracks
  MaxSamples = 4
  MaxSwitches = 2
INVARIANTS
  EndIsTheEnd
SYMMETRY TrackSymmetry
CHECK_DEADLOCK FALSE
