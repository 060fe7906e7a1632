SPECIFICATION Spec
CONSTANTS
  c1 = c1
  c2 = c2
  c3 = c3
  k1 = k1
  k2 = k2
  Cookies = {c1, c3}
  Keys = {k1, k2}
  Times = {0}
  Absent = Absent
  SessionOnly = {c3}
  Restore = FALSE
  ClearKeys = {k1}
  Versions = {5}
  BatchSize = 2
  MaxSessions = 1
  MaxOps = 2
  MaxPriority = 1
  MaxFlushes = 0
  MaxErrors = 1
  KeyOf <- MCKeyOf
INVARIANT OriginsCounted
CHECK_DEADLOCK FALSE
