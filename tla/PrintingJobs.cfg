SPECIFICATION FairSpec
CONSTANTS
  MaxQueries = 2
  PageCounts = {0, 2}
  MaxPrints = 2
  MaxFaults = 1
INVARIANTS TypeOK PreparedHasParams SpooledInOrder SuccessIsSpooled TabJobIsTracked
PROPERTIES JobsEnd
CHECK_DEADLOCK FALSE
