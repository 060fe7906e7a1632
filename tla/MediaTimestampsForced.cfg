SPECIFICATION TimesSpec
CONSTANTS
  None = None
  Tracks <- OnlyAudio
  FrameTime = 2
  Rate = 1
  FrameSize = 1
  Buffers = {1, 3}
  ForceSync = 2
  Waits = TRUE
  MaxDelay = 0
  MaxGap = 1
  MaxTime = 12
  MaxPauses = 0
  MaxFaults = 0
PROPERTY NeverSetBack
CHECK_DEADLOCK FALSE
