SPECIFICATION FairSpec
CONSTANTS
  audio = audio
  video = video
  Writer = Writer
  Tracks <- MCTracks
  Video <- MCVideo
  NumSamples = 3
  MaxBuffers = 1
  Faults = {"track", "addTrack", "writer"}
  ClientOps = {"pause", "cancel"}
CHECK_DEADLOCK FALSE
INVARIANTS DoneMeansIdle FinishedIsComplete ErrorIsReported SilenceHasAWaiter PausedIsFinalized
PROPERTIES EndsUnlessPauseFails
