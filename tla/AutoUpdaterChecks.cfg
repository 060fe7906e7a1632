SPECIFICATION FairSpec
CONSTANTS
  u1 = u1
  u2 = u2
  NoURL = NoURL
  URLs <- TwoFeeds
  MaxChecks = 3
INVARIANT NoCheckForgotten
PROPERTIES FollowsProtocol EveryCheckEnds
CHECK_DEADLOCK FALSE
