CONSTANTS
  Threads = {t1, t2}
  NoThread = NoThread
  MaxRefresh = 1
SPECIFICATION ServerSpec
CHECK_DEADLOCK FALSE
INVARIANT
  LogoutNotResurrected
