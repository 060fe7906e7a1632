SPECIFICATION TimesSpec
CONSTANTS
  None = None
  Tracks <- VideoAndAudio
  FrameTime = 2
  Rate = 4
  FrameSize = 2
  Buffers = {1, 2, 5}
  ForceSync = 1
  Waits = TRUE
  MaxDelay = 1
  MaxGap = 2
  MaxTime = 4
  MaxPauses = 1
  MaxFaults = 1
INVARIANT KeepsTime
PROPERTY TimestampsIncrease
CHECK_DEADLOCK FALSE
