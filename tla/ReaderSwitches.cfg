SPECIFICATION Spec
CONSTANTS
  t1 = t1
  t2 = t2
  t3 = t3
  Tracks <- ThreeTracks
  MaxSamples = 4
  MaxSwitches = 3
INVARIANTS
  SomeoneReads
PROPERTIES
  Implements
SYMMETRY TrackSymmetry
CHECK_DEADLOCK FALSE
