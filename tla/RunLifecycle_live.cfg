CONSTANTS
  Monitors = {m1}
  Workers = {w1}
  Schedulers = {s1}
  Callers = {c1}
  NoMonitor = NoMonitor
  MaxRuns = 2
  MaxMsgs = 2
  MaxCount = 0
  AsyncAI = FALSE
SPECIFICATION FairSpec
PROPERTIES EveryRunEnds
CHECK_DEADLOCK FALSE
