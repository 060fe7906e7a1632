SPECIFICATION Spec
CONSTANTS
  u1 = u1
  u2 = u2
  NoURL = NoURL
  URLs <- OneFeed
  MaxChecks = 1
INVARIANT QuitStartsApp
CHECK_DEADLOCK FALSE
