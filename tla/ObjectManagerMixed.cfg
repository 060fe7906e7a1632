SPECIFICATION Spec
CONSTANTS
  p1 = p1
  p2 = p2
  f1 = f1
  f2 = f2
  NoWrapper = NoWrapper
  Wrappers = {w1, w2, w3}
  Pages = {p1, p2}
  Profiles = {f1, f2}
  ProfileOf <- TwoProfiles
  Kinds = {"Menu", "MenuItem", "Tray", "MediaRecorder"}
  Mixed = TRUE
  MaxId = 3
  MaxQueue = 2
SYMMETRY Symmetry
CHECK_DEADLOCK FALSE
INVARIANT ReachableIsBacked
