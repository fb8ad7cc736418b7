SPECIFICATION FrontendSpec
CONSTANTS
  c1 = c1
  c2 = c2
  t1 = t1
  t2 = t2
  None = None
  Call = {c1, c2}
  Tab = {t1,t2}
  TabOf <- TwoTabs
  AccessTTL = 1
  RefreshTTL = 2
  MaxTime = 2
  MaxSessions = 3
  Failing = TRUE
INVARIANT
  FrontendTypeOK
PROPERTY
  CommitsAreOrdered
