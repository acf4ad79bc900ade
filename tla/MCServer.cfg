CONSTANTS
  Threads = {t1, t2}
  NoThread = NoThread
  MaxRefresh = 1
SPECIFICATION ServerSpec
INVARIANTS
  ServerTypeOK
  NeverStopsAlive
  ClientsToldTrue
  StopIsPending
  QuietAfterHandoff
PROPERTY
  IsDaemon
CHECK_DEADLOCK FALSE
