CONSTANTS
  Monitors = {m1}
  Workers = {w1}
  Schedulers = {s1}
  Callers = {}
  NoMonitor = NoMonitor
  MaxRuns = 1
  MaxMsgs = 1
  MaxCount = 1
  AsyncAI = FALSE
SPECIFICATION Spec
PROPERTIES NeverResurrected
CHECK_DEADLOCK FALSE
