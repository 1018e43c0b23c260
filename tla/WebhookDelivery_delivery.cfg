SPECIFICATION FairSpec
CONSTANTS
  Rows = {r1}
  Workers = {w1, w2}
  Schedulers = {s1}
  Callers = {c1}
  NoRow = NoRow
  MaxAttempts = 2
  MaxRetries = 1
  MaxCopies = 1
  Switching = TRUE
CHECK_DEADLOCK FALSE
INVARIANTS
  OneDeliverer
  NoNeedlessResend
  AttemptsCapped
PROPERTY DeadAttemptRecovered
