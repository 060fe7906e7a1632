SPECIFICATION Spec
CONSTANTS
  Streams <- VideoAndAudio
  MaxFrames = 2
  MaxEvents = 2
  MaxSessions = 2
INVARIANTS PacketsInOrder DestroyedIsQuiet NoStaleEvent
PROPERTY WritesInsideFile
CHECK_DEADLOCK FALSE
