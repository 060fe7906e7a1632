SPECIFICATION FairSpec
CONSTANTS
  Streams <- OnlyVideo
  MaxFrames = 2
  MaxEvents = 2
  MaxSessions = 2
PROPERTY PostedIsWritten
CHECK_DEADLOCK FALSE
