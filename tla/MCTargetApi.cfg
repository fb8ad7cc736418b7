SPECIFICATION TargetSpec
CONSTANTS
  c1 = c1
  c2 = c2
  p1 = p1
  None = None
  Monitor = {1, 2, 3}
  Process = {p1}
  Outcome = {"ok", "fail"}
  Interval = {30}
  AnyInterval = {29, 30}
  AnySize = {0, 1, 2}
  Time <- MCTime
  Histories <- MCHistories
  BatchSize = 1
  MaxLogs = 3
  MaxTimeline = 2
  LogId <- MCLogId
  HalfRange = 8
  Client = {c1, c2}
  ReadsAlone = TRUE
SYMMETRY Clients
CONSTRAINT FirstOnly ReadsOnly
INVARIANTS
  StoreTypeOK
  RowFollowsLog
  TargetTypeOK
  PatchKeepsTheRest
  NothingSkipped
  StatsAgree
