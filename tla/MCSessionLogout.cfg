CONSTANTS
  Threads = {t1, t2}
  NoThread = NoThread
  MaxRefresh = 1
SPECIFICATION Spec
INVARIANT
  LogoutMeansReauth
