SPECIFICATION Spec
CONSTANTS
  m1 = m1
  m2 = m2
  w1 = w1
  w2 = w2
  None = None
  Unset = None
  HalfRange = 8
  Outcome = {"ok", "fail", "aborted"}
  Monitor = {m1}
  Process = {w1, w2}
  Interval = {2}
  Time <- MCTime
  Histories <- OnlyNew
  BatchSize <- MCBatchSize
  QueueSize <- MCQueueSize
  MaxTime = 2
  MaxLogs = 4
  Channel = {1}
  Telegram = {1}
  TokenSet = TRUE
  Api = {}
  MaxFaults = 0
  MaxStarts = 1
  Signals = {}
CHECK_DEADLOCK FALSE
PROPERTY
  IntervalRespected
