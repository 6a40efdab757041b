SPECIFICATION Spec
CONSTANTS
  audio = audio
  video = video
  Writer = Writer
  Tracks <- MCTracks
  Video <- MCVideo
  NumSamples = 2
  MaxBuffers = 1
  Faults = {"track"}
  ClientOps = {"cancel"}
CHECK_DEADLOCK FALSE
INVARIANT ReleaseIsSafe
