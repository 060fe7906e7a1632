SPECIFICATION FairSpec
CONSTANTS
  Streams <- OnlyAudio
  MaxFrames = 1
  MaxEvents = 1
  MaxSessions = 1
PROPERTY StopCompletes
CHECK_DEADLOCK FALSE
