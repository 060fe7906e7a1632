SPECIFICATION TimesSpec
CONSTANTS
  None = None
  Tracks <- VideoAndAudio
  FrameTime = 2
  Rate = 4
  FrameSize = 2
  Buffers = {4}
  ForceSync = 1
  Waits = FALSE
  MaxDelay = 0
  MaxGap = 1
  MaxTime = 4
  MaxPauses = 1
  MaxFaults = 0
INVARIANT KeepsTime
CHECK_DEADLOCK FALSE
