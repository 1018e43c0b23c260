SPECIFICATION AllSpec
CONSTANTS
  Users = {u1, u2}
  Creator = u1
  Invites = {i1, i2}
  Legacy = {i2}
  ApiKeys = {k1}
  Links = {l1}
  Requests = {q1, q2}
  Roles = {"viewer", "owner"}
  MaxUses = 1
  MaxAudit = 2
  People = {p1}
  Tasks = {t1, t2, t3}
  MaxSpaces = 1
  Callers = {c1}
  Patches = {e1, e2}
  Models = 2
  MaxAttempts = 2
  Deadline = 2
  Timeout = 2
  Waits = 2
  Lookup = 1
  Addresses = 1
  MaxDrip = 2
  MaxCached = 1
  Monitors = {m1, m2}
  Askers = {d1, d2}
  QuotaRuns = {x1, x2}
  Limit = 1
  MaxChecks = 3
  BrowserRuns = {r1, r2, r3}
  Workers = {w1, w2}
  BrowserLimit = 1
  MaxFaults = 2
  Runs = {1, 2, 3}
  MaxDeaths = 1
CHECK_DEADLOCK FALSE
INVARIANTS TypesOK UsesCapped OwnersSound Provisioned ServerKeyStaysHome CallBounded QuotaHeld
  QuotaKept ObjectsKept
