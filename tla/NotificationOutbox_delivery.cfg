CONSTANTS
  Rows = {r1, r2}
  Workers = {w1, w2}
  Schedulers = {s1}
  NoRow = NoRow
  MaxAttempts = 3
  MaxRetries = 1
  MaxCopies = 1
SPECIFICATION FairSpec
INVARIANTS OneDeliverer NoNeedlessResend AttemptsCapped
PROPERTIES SettledStays ImplementsContract EventuallyAttempted
CHECK_DEADLOCK FALSE
