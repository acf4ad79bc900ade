CONSTANTS
  Threads = {t1, t2}
  NoThread = NoThread
  MaxRefresh = 0
SPECIFICATION ServerFairSpec
PROPERTIES
  StopsAfterLogout
  RequestsAnswered
CHECK_DEADLOCK FALSE
