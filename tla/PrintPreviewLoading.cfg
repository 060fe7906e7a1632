SPECIFICATION Spec
CONSTANTS
  PageLists <- MCPageLists
  PageCounts = {0, 3}
  MaxRequests = 2
  MaxStarts = 1
  MaxLoads = 0
  MaxFaults = 0
PROPERTY LoadingFrameIsKept
CHECK_DEADLOCK FALSE
