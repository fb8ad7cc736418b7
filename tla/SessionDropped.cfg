SPECIFICATION FrontendSpec
CONSTANTS
  c1 = c1
  c2 = c2
  t1 = t1
  t2 = t2
  None = None
  Call = {c1}
  Tab = {t1}
  TabOf <- OneTab
  AccessTTL = 1
  RefreshTTL = 2
  MaxTime = 1
  MaxSessions = 3
  Failing = FALSE
PROPERTY
  SessionKept
