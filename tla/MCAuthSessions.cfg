SPECIFICATION AuthSpec
CONSTANTS
  c1 = c1
  c2 = c2
  c3 = c3
  None = None
  Call = {c1, c2, c3}
  AccessTTL = 1
  RefreshTTL = 1
  MaxTime = 1
  Failing = TRUE
  MaxSessions = 3
SYMMETRY Calls
INVARIANTS
  AuthTypeOK
  OneLivePerLogin
PROPERTIES
  DeadLoginStaysDead
  ChainIsKept
