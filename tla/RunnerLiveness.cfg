SPECIFICATION EndlessSpec
CONSTANTS
  m1 = m1
  m2 = m2
  w1 = w1
  w2 = w2
  None = None
  Unset = None
  HalfRange = 8
  Outcome = {"ok", "fail", "aborted"}
  Monitor = {m1, m2}
  Process = {w1}
  Interval = {1}
  Time <- MCTime
  Histories <- OnlyNew
  BatchSize <- MCBatchSize
  QueueSize <- MCQueueSize
  MaxTime = 3
  MaxLogs = 1
  Channel = {1}
  Telegram = {1}
  TokenSet = FALSE
  Api = {}
  MaxFaults = 1
  MaxStarts = 1
  Signals = {"term", "kill"}
CHECK_DEADLOCK FALSE
PROPERTY
  DueIsServed
  StopCompletes
  StopProgresses
