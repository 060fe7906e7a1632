SPECIFICATION FairSpec
CONSTANTS
  Streams <- OnlyVideo
  MaxFrames = 0
  MaxEvents = 2
  MaxSessions = 2
PROPERTY StopCompletes
CHECK_DEADLOCK FALSE
