CONSTANTS
  t1 = t1  t2 = t2  f1 = f1  f2 = f2
  NULL = NULL
  Threads = {t1, t2}
  Files <- MCOneFile
  MaxEvents = 2
  PipeSize = 2
SPECIFICATION Spec
INVARIANTS NoLostWakeup Unraced EventThere
PROPERTIES Wakes Settles
CHECK_DEADLOCK FALSE
