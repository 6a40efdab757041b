SPECIFICATION FairSpec
CONSTANTS
  audio = audio
  video = video
  Writer = Writer
  Tracks <- MCTracks
  Video <- MCVideo
  NumSamples = 2
  MaxBuffers = 1
  Faults = {"track"}
  ClientOps = {"pause"}
CHECK_DEADLOCK FALSE
PROPERTY EndsEventually
