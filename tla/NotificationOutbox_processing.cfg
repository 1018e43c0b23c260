CONSTANTS
  Rows = {r1}
  Workers = {w1}
  Schedulers = {s1}
  NoRow = NoRow
  MaxAttempts = 8
  MaxRetries = 0
  MaxCopies = 1
SPECIFICATION FairSpec
PROPERTIES DeadAttemptRecovered
CHECK_DEADLOCK FALSE
