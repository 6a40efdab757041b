SPECIFICATION Spec
CONSTANTS
  audio = audio
  video = video
  Writer = Writer
  Tracks <- MCTracks
  Video <- MCVideo
  NumSamples = 2
  MaxBuffers = 1
  Faults = {}
  ClientOps = {"pause"}
CHECK_DEADLOCK FALSE
INVARIANT FinishedIsWhole
