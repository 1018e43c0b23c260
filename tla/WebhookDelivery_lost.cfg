SPECIFICATION FairSpec
CONSTANTS
  Rows = {r1}
  Workers = {w1, w2}
  Schedulers = {s1}
  Callers = {}
  NoRow = NoRow
  MaxAttempts = 2
  MaxRetries = 1
  MaxCopies = 1
  Switching = FALSE
CHECK_DEADLOCK FALSE
PROPERTY AtLeastOnce
