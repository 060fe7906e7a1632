SPECIFICATION Spec
CONSTANTS
  u1 = u1
  u2 = u2
  NoURL = NoURL
  URLs <- OneFeed
  MaxChecks = 2
INVARIANT OneProcess
CHECK_DEADLOCK FALSE
