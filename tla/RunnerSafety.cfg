SPECIFICATION SafetySpec
CONSTANTS
  m1 = m1
  m2 = m2
  w1 = w1
  w2 = w2
  None = None
  Unset = None
  HalfRange = 8
  Outcome = {"ok", "fail", "aborted"}
  Monitor = {m1}
  Process = {w1, w2}
  Interval = {1}
  Time <- MCTime
  Histories <- Failing
  BatchSize <- MCBatchSize
  QueueSize <- MCQueueSize
  MaxTime = 1
  MaxLogs = 4
  Channel = {1, 2}
  Telegram = {1}
  TokenSet = TRUE
  Api = {"create", "update", "delete", "channel"}
  MaxFaults = 1
  MaxStarts = 2
  Signals = {"term", "kill"}
CHECK_DEADLOCK FALSE
SYMMETRY Workers
INVARIANTS
  TypeOK
  RowFollowsLog
  OpenIncidentIffDown
  OneIncidentPerOutage
  TransitionFitsIncidents
  AlertsAtMostOnce
  AlertsTellTheTruth
  NoAbortedCheckLogged
PROPERTY
  HealthIsKept
