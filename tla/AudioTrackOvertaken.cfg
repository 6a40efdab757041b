SPECIFICATION Spec
CONSTANTS
  FrameCount = 2
  FrameCountP2 = 2
  Width = 16
  BufferSizes = {1}
  MaxTries = 1
  MaxTrackRetries = 1
  MixFrames = 2
  StartAt = 13
  MaxFrames = 3
  MaxMarks = 1
PROPERTIES
  StopIsFinal
