CONSTANTS
  Monitors = {m1, m2}
  Workers = {w1}
  Schedulers = {s1}
  Callers = {}
  NoMonitor = NoMonitor
  MaxRuns = 2
  MaxMsgs = 1
  MaxCount = 1
  AsyncAI = FALSE
SPECIFICATION Spec
PROPERTIES ReaperKeepsSuccess
CHECK_DEADLOCK FALSE
