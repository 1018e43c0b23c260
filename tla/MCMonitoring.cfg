SPECIFICATION AllSpec
CONSTANTS
  Intervals = {1, 2}
  Jitter = 1
  QuotaDelay = 2
  Streak = 1
  Schedulers = {s1, s2}
  MaxTime = 10
  EditTime = 2
  MaxEdits = 2
  Changes = {1, 2, 3}
  Channels = {h1}
  Enrichers = {e1, e2}
  Cooldown = 1
  FlapWindow = 2
  FlapMax = 2
  LastTime = 2
  MaxMarks = 1
  MaxTries = 2
  Recorders = {p1, p2}
  Threshold = 2
  Receivers = {h1, h2}
  MaxFailures = 5
  Jobs = {p1, p2}
  Inboxes = {h1}
  DayLength = 4
  HourLength = 2
  PollGap = 2
  Shown = 1
  Days = 2
  MaxNews = 2
  Capturers = {w1, w2}
  MaxFaults = 1
  MaxShots = 3
CHECK_DEADLOCK FALSE
INVARIANTS TypesOK CheckedInTime LikeWithLike EnrichedIsDecided AlertsApart CountAlerted
  DigestComplete PictureKept
