SPECIFICATION AllSpec
CONSTANTS
  Workers = {w1, w2, w3, w4}
  Limit = 2
  Expires = TRUE
  MaxDrift = 1
  MaxLost = 3
  MaxRuns = 2
  MaxChanges = 1
  MaxBlips = 1
  MaxOutages = 1
  Addresses = {a1, a2, b1}
  Blocked = {b1}
  MaxRedirects = 2
  Edge = TRUE
CHECK_DEADLOCK FALSE
INVARIANTS TypesOK NoPhantom NoLockout FetchSafe
PROPERTIES LatestShown SlotsComeBack FetchEnds
