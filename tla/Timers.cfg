CONSTANTS
  MaxTimers = 3
  MaxIdle = 2
  MaxTime = 1
  MaxOther = 1
  Past = FALSE
  MaxDepth = 4
SPECIFICATION Spec
INVARIANTS PendingExact PassExact
PROPERTY Fires
CHECK_DEADLOCK FALSE
