SPECIFICATION Spec
CONSTANTS
  c1 = c1
  c2 = c2
  c3 = c3
  k1 = k1
  k2 = k2
  Cookies = {c1, c2}
  Keys = {k1, k2}
  Times = {0}
  Absent = Absent
  SessionOnly = {}
  Restore = FALSE
  ClearKeys = {k1}
  Versions = {5}
  BatchSize = 2
  MaxSessions = 1
  MaxOps = 1
  MaxPriority = 2
  MaxFlushes = 1
  MaxErrors = 1
  KeyOf <- MCKeyOf
INVARIANT NeverHandedTwice
CHECK_DEADLOCK FALSE
