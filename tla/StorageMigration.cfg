SPECIFICATION Spec
CONSTANTS
  MaxStarts = 3
  MaxFaults = 2
INVARIANTS OwnIsKept JournalGoesFirst StartMigrates
CHECK_DEADLOCK FALSE
