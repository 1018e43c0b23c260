SPECIFICATION Spec
CONSTANTS
  Workers = {w1, w2, w3, w4}
  Limit = 2
  Expires = FALSE
  MaxDrift = 1
  MaxLost = 3
CHECK_DEADLOCK FALSE
INVARIANT LimitKept
