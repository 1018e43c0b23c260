CONSTANTS
  Monitors = {m1}
  Workers = {w1, w2}
  Schedulers = {s1}
  Callers = {c1}
  NoMonitor = NoMonitor
  MaxRuns = 2
  MaxMsgs = 1
  MaxCount = 0
  AsyncAI = FALSE
SPECIFICATION Spec
SYMMETRY WorkerSymmetry
INVARIANT ExecutedOnce
PROPERTIES ImplementsContract NeverRequeued ChangeOnlyWithSuccess
CHECK_DEADLOCK FALSE
