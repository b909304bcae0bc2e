CONSTANTS
  t1 = t1  t2 = t2  f1 = f1  f2 = f2
  NULL = NULL
  Threads = {t1, t2}
  Files <- MCTwoFiles
  MaxEvents = 2
  PipeSize = 1
SPECIFICATION Spec
PROPERTY AlertsAll
CHECK_DEADLOCK FALSE
