SPECIFICATION Spec
CONSTANTS
  MaxQueries = 2
  PageCounts = {0, 2}
  MaxPrints = 2
  MaxFaults = 1
PROPERTY PagesReachTheirJob
CHECK_DEADLOCK FALSE
