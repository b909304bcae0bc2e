CONSTANTS
  e1 = e1  e2 = e2  e3 = e3  e4 = e4
  NULL = NULL
  Events = {e1, e2, e3, e4}
  MaxDepth = 3
SYMMETRY Symmetric
SPECIFICATION Spec
INVARIANTS Linked Ordered NothingLost
CHECK_DEADLOCK FALSE
