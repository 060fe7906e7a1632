SPECIFICATION FairSpec
CONSTANTS
  PageLists <- MCPageLists
  PageCounts = {0, 3}
  MaxRequests = 2
  MaxStarts = 2
  MaxLoads = 1
  MaxFaults = 1
INVARIANTS TypeOK PreparedIsWanted DocumentIsExact EndIsTold
PROPERTIES ShownToWaiting ScriptIsShown
CHECK_DEADLOCK FALSE
